---------------------------- MODULE Output_proofs ----------------------------
(***************************************************************************)
(* What is proved of Output: the text channel shows records in order and   *)
(* nothing twice, through one channel, whole records through puts, and     *)
(* only what every file that is open and has not failed holds.             *)
(***************************************************************************)
EXTENDS Output, SequenceTheorems, TLAPS

ShownChunk == [way: Way, rec: Nat, from: Nat, to: Nat]

\* The inductive strengthening.  Bounds: what has been shown ends where the loop stands.
Bounds ==
    /\ platform \in Platform
    /\ record \in Nat /\ sent \in 0..Bytes
    /\ phase = "send" => sent < Bytes
    /\ phase \in {"tee", "file", "log"} => sent = 0
    /\ text \in Seq(ShownChunk)
    /\ \A i \in 1..Len(text) :
           /\ text[i].from <= text[i].to
           /\ text[i].rec <= record
           /\ text[i].rec = record => phase \in {"send", "idle"}
           /\ text[i].rec = record /\ phase = "send" => text[i].to <= sent

\* Nothing is shown before a channel is chosen, and a channel is chosen from the first byte.
Choice ==
    platform.build # "host" =>
        /\ channel \in Channel /\ candidate \in 1..4
        /\ channel = "UNTRIED" => text = <<>>
        /\ channel = "UNTRIED" /\ phase = "send" => sent = 0
        /\ channel = "PUTS" /\ phase = "send" => sent = 0

Ordered ==
    \A i \in 1..Len(text) : i > 1 =>
        \/ text[i - 1].rec < text[i].rec
        \/ text[i - 1].rec = text[i].rec /\ text[i - 1].to < text[i].from

Channelled ==
    \A i \in 1..Len(text) :
        /\ platform.build # "host" => text[i].way \in ToSet(Ways(channel))
        /\ text[i].way = "puts" => text[i].from = 1 /\ text[i].to = Bytes

\* A file has the records since it was opened, and one that is open has them all, whole,
\* before anything of the record in hand is sent.
FiledEntry == [rec: Nat, whole: BOOLEAN]

Filed ==
    /\ since \in Nat /\ since <= record
    /\ sinks \subseteq Sink /\ filed \in [Sink -> Seq(FiledEntry)]
    /\ ~tried => sinks = {} /\ \A s \in Sink : filed[s] = <<>>
    /\ \A s \in Sink : \A i \in 1..Len(filed[s]) :
           filed[s][i].rec = since + i /\ (i < Len(filed[s]) => filed[s][i].whole)
    /\ \A s \in sinks :
           /\ \A i \in 1..Len(filed[s]) : filed[s][i].whole
           /\ since + Len(filed[s]) = IF phase \in {"tee", "file"} THEN record - 1 ELSE record

\* And the tee, when there is one.
Teed == tee /\ phase \in {"file", "log", "send"} => record \in teed

IInv == Bounds /\ Choice /\ Ordered /\ Channelled /\ Filed /\ Teed

-----------------------------------------------------------------------------
\* The elements of a sequence are its values at its indices.
LEMMA ElementsOf ==
    ASSUME NEW S, NEW s \in Seq(S)
    PROVE  ToSet(s) = {s[i] : i \in 1..Len(s)}
BY DEF ToSet

\* What a call says it moved is no more than it was given, and shows no more than that.
LEMMA AnswersFit ==
    ASSUME NEW way, NEW n \in Nat \ {0}, NEW a \in Answers(way, n)
    PROVE  /\ a.moved \in 0..n /\ a.shown \in 0..a.moved
           /\ way = "puts" /\ a.moved > 0 => a.moved = n /\ a.shown \in {0, n}
BY DEF Answers, Counts

\* obs_send answers for a way of the channel it was asked to use.
LEMMA SendFits ==
    ASSUME NEW ch \in Channel, NEW n \in Nat \ {0}, NEW a \in Send(ch, n)
    PROVE  /\ a.moved \in 0..n /\ a.shown \in 0..a.moved
           /\ a.moved > 0 => a.way \in ToSet(Ways(ch)) /\ a.way \in Way
           /\ a.way = "puts" => a.moved = n /\ a.shown \in {0, n}
<1>1. CASE a = Refused
  BY <1>1 DEF Refused
<1>2. CASE \E way \in Reached(ch, n) : a \in Through(way, n)
  <2>1. PICK way \in Reached(ch, n) : a \in Through(way, n)
    BY <1>2
  <2>2. way \in ToSet(Ways(ch)) /\ way \in Way
    BY DEF Reached, ToSet, Ways, Way, Resolved, Imports
  <2>3. PICK b \in Answers(way, n) :
            b.moved > 0 /\ a = [way |-> way, moved |-> b.moved, shown |-> b.shown]
    BY <2>1 DEF Through
  <2> QED
    BY <2>2, <2>3, AnswersFit
<1>3. a = Refused \/ \E way \in Reached(ch, n) : a \in Through(way, n)
  BY DEF Send
<1> QED
  BY <1>1, <1>2, <1>3

\* puts is a way of its own channel and of no other.
LEMMA PutsByPuts ==
    ASSUME NEW ch \in Channel, "puts" \in ToSet(Ways(ch))
    PROVE  ch = "PUTS"
BY DEF Ways, ToSet, Channel, Candidates

-----------------------------------------------------------------------------
\* The files stay as they are while nothing is written to them.
LEMMA FiledKept ==
    ASSUME Filed, UNCHANGED files, record' = record,
           phase \in {"tee", "file"} <=> phase' \in {"tee", "file"}
    PROVE  Filed'
<1>1. UNCHANGED <<tried, sinks, since, filed>>
  BY DEF files
<1> QED
  BY <1>1 DEF Filed

\* A step inside obs_write at which a way [w] moved [k] bytes and [s] of them are seen.
Moves(w, k, s) ==
    /\ phase = "send" /\ k \in 1..(Bytes - sent) /\ s \in 0..k /\ w \in Way
    /\ w = "puts" => sent = 0 /\ k = Bytes /\ s \in {0, Bytes}
    /\ platform.build # "host" =>
           /\ channel' \in Channel \ {"UNTRIED"}
           /\ channel = "UNTRIED" \/ channel' = channel
           /\ w \in ToSet(Ways(channel'))
           /\ channel' = "PUTS" => k = Bytes - sent
    /\ candidate' = candidate
    /\ UNCHANGED <<platform, record, tee, teed, files>>
    /\ Moved([way |-> w, moved |-> k, shown |-> s])

\* What holds of the chunks goes on holding when the next one is appended.
LEMMA MovedKeeps ==
    ASSUME IInv, NEW w, NEW k, NEW s, Moves(w, k, s)
    PROVE  IInv'
<1> DEFINE chunk == [way |-> w, rec |-> record, from |-> sent + 1, to |-> sent + s]
<1>0. /\ text \in Seq(ShownChunk) /\ Len(text) \in Nat
      /\ \A i \in 1..Len(text) :
            /\ text[i].rec \in Nat /\ text[i].from \in Nat /\ text[i].to \in Nat
            /\ text[i].from <= text[i].to /\ text[i].rec <= record
            /\ text[i].rec = record => text[i].to <= sent
  <2>1. \A i \in 1..Len(text) : text[i] \in ShownChunk
    BY ElementOfSeq DEF IInv, Bounds
  <2>2. \A i \in 1..Len(text) :
           /\ text[i].rec \in Nat /\ text[i].from \in Nat /\ text[i].to \in Nat
           /\ text[i].from <= text[i].to
    BY <2>1 DEF ShownChunk, IInv, Bounds
  <2>3. \A i \in 1..Len(text) :
           text[i].rec <= record /\ (text[i].rec = record => text[i].to <= sent)
    BY DEF IInv, Bounds, Moves
  <2>4. text \in Seq(ShownChunk) /\ Len(text) \in Nat
    BY DEF IInv, Bounds
  <2> QED
    BY <2>2, <2>3, <2>4
<1>1. /\ sent' = sent + k /\ sent \in 0..(Bytes - 1) /\ sent' \in 1..Bytes
      /\ phase' \in {"send", "idle"} /\ (phase' = "send" => sent' < Bytes)
      /\ record \in Nat /\ record' = record /\ platform' = platform /\ UNCHANGED files
      /\ phase = "send" /\ s \in 0..k /\ k \in 1..Bytes /\ platform \in Platform
  BY ConstantsAssumption DEF Moves, Moved, IInv, Bounds
<1>2. Choice'
  <2>1. CASE platform.build = "host"
    BY <1>1, <2>1 DEF Choice
  <2>2. CASE platform.build # "host"
    <3>1. channel' = "PUTS" => sent' = Bytes
      BY <1>1, <2>2, ConstantsAssumption DEF Moves
    <3> QED
      BY <1>1, <2>2, <3>1 DEF Moves, Choice, IInv
  <2> QED
    BY <2>1, <2>2
<1>5. Teed'
  BY <1>1 DEF Moves, Teed, IInv
<1>6. Filed'
  BY <1>1, FiledKept DEF IInv
<1>3. CASE s = 0
  <2>1. text' = text
    BY <1>3 DEF Moved, Moves
  <2>2. Bounds'
    BY <1>0, <1>1, <2>1, ConstantsAssumption DEF Bounds
  <2>3. Ordered'
    BY <2>1 DEF IInv, Ordered
  <2>4. Channelled'
    BY <1>1, <2>1 DEF IInv, Channelled, Moves, Choice
  <2> QED
    BY <2>1, <2>2, <2>3, <2>4, <1>2, <1>5, <1>6 DEF IInv
<1>4. CASE s # 0
  <2>1. text' = Append(text, chunk)
    BY <1>4 DEF Moved, Moves
  <2>2. /\ text' \in Seq(ShownChunk)
        /\ Len(text') = Len(text) + 1 /\ Len(text) \in Nat
        /\ text'[Len(text) + 1] = chunk
        /\ \A i \in 1..Len(text) : text'[i] = text[i]
    <3>1. chunk \in ShownChunk
      BY <1>1, ConstantsAssumption DEF Moves, ShownChunk
    <3>2. text \in Seq(ShownChunk)
      BY DEF IInv, Bounds
    <3> QED
      BY <2>1, <3>1, <3>2
  <2>4. \A i \in 1..Len(text') :
            (i \in 1..Len(text) /\ text'[i] = text[i])
            \/ (i = Len(text) + 1 /\ text'[i] = chunk)
    BY <2>2
  <2>5. Bounds'
    <3>1. \A i \in 1..Len(text') :
              /\ text'[i].from <= text'[i].to /\ text'[i].rec <= record'
              /\ text'[i].to <= sent' \/ text'[i].rec # record'
      <4> SUFFICES ASSUME NEW i \in 1..Len(text')
                   PROVE  /\ text'[i].from <= text'[i].to /\ text'[i].rec <= record'
                          /\ text'[i].to <= sent' \/ text'[i].rec # record'
        OBVIOUS
      <4>1. CASE i \in 1..Len(text) /\ text'[i] = text[i]
        BY <4>1, <1>0, <1>1, ConstantsAssumption
      <4>2. CASE text'[i] = chunk
        BY <4>2, <1>1, <1>4, ConstantsAssumption
      <4> QED
        BY <4>1, <4>2, <2>4
    <3> QED
      BY <1>1, <2>2, <3>1, ConstantsAssumption DEF Bounds
  <2>6. Ordered'
    <3> SUFFICES ASSUME NEW i \in 1..Len(text'), i > 1
                 PROVE  \/ text'[i - 1].rec < text'[i].rec
                        \/ /\ text'[i - 1].rec = text'[i].rec
                           /\ text'[i - 1].to < text'[i].from
      BY DEF Ordered
    <3>1. CASE i \in 1..Len(text)
      <4>1. /\ i - 1 \in 1..Len(text)
            /\ text'[i - 1] = text[i - 1] /\ text'[i] = text[i]
        BY <3>1, <2>2
      <4> QED
        BY <4>1, <3>1 DEF IInv, Ordered
    <3>2. CASE i = Len(text) + 1
      <4>1. i - 1 \in 1..Len(text) /\ text'[i - 1] = text[i - 1] /\ text'[i] = chunk
        BY <3>2, <2>2
      <4> QED
        <5>1. \/ text[i - 1].rec < record
              \/ text[i - 1].rec = record /\ text[i - 1].to < sent + 1
          BY <4>1, <1>0, <1>1, SMTT(30)
        <5> QED
          BY <4>1, <5>1
    <3> QED
      BY <3>1, <3>2, <2>2
  <2>7. Channelled'
    <3> SUFFICES ASSUME NEW i \in 1..Len(text')
                 PROVE  /\ platform.build # "host" =>
                               text'[i].way \in ToSet(Ways(channel'))
                        /\ text'[i].way = "puts" =>
                               text'[i].from = 1 /\ text'[i].to = Bytes
      BY <1>1 DEF Channelled
    <3>1. CASE i \in 1..Len(text) /\ text'[i] = text[i]
      <4>1. platform.build # "host" => channel' = channel
        BY <3>1 DEF IInv, Choice, Moves
      <4> QED
        BY <3>1, <4>1 DEF IInv, Channelled
    <3>2. CASE text'[i] = chunk
      BY <3>2, <1>1, <1>4, ConstantsAssumption DEF Moves
    <3> QED
      BY <3>1, <3>2, <2>4
  <2> QED
    BY <1>2, <1>5, <1>6, <2>5, <2>6, <2>7 DEF IInv
<1> QED
  BY <1>3, <1>4, <1>1

-----------------------------------------------------------------------------
\* What appending does to a sequence.
LEMMA Appended ==
    ASSUME NEW S, NEW q \in Seq(S), NEW e \in S
    PROVE  /\ Append(q, e) \in Seq(S) /\ Len(Append(q, e)) = Len(q) + 1
           /\ Len(q) \in Nat /\ Append(q, e)[Len(q) + 1] = e
           /\ \A i \in 1..Len(q) : Append(q, e)[i] = q[i]
OBVIOUS

\* The next record goes to each open file, whole or as the last there.
LEMMA SinkWriteFiles ==
    ASSUME IInv, SinkWrite
    PROVE  Filed'
<1>1. /\ since \in Nat /\ record \in Nat /\ sinks \subseteq Sink /\ phase = "file"
      /\ filed \in [Sink -> Seq(FiledEntry)]
      /\ UNCHANGED <<platform, tried, since, record>> /\ phase' = "log"
  BY DEF IInv, Bounds, Filed, SinkWrite, boot
<1>2. PICK whole \in SUBSET sinks :
          /\ sinks' = whole
          /\ filed' = [s \in Sink |->
                 IF s \in sinks
                 THEN Append(filed[s], [rec |-> record, whole |-> s \in whole])
                 ELSE filed[s]]
  BY DEF SinkWrite
<1>3. \A s \in Sink \ sinks : filed'[s] = filed[s]
  BY <1>2
<1>4. ASSUME NEW s \in sinks
      PROVE  /\ filed'[s] \in Seq(FiledEntry) /\ Len(filed'[s]) = Len(filed[s]) + 1
             /\ since + Len(filed'[s]) = record
             /\ \A i \in 1..Len(filed[s]) :
                    filed'[s][i].rec = since + i /\ filed'[s][i].whole
             /\ filed'[s][Len(filed'[s])].rec = record
             /\ s \in whole => filed'[s][Len(filed'[s])].whole
  <2> DEFINE e == [rec |-> record, whole |-> s \in whole]
  <2>1. /\ filed'[s] = Append(filed[s], e) /\ filed[s] \in Seq(FiledEntry)
        /\ e \in FiledEntry /\ e.rec = record /\ (s \in whole => e.whole)
    <3>1. (s \in whole) \in BOOLEAN
      OBVIOUS
    <3>2. e \in FiledEntry
      BY <1>1, <3>1 DEF FiledEntry
    <3> QED
      BY <1>1, <1>2, <3>2
  <2> HIDE DEF e
  <2>2. /\ filed'[s] \in Seq(FiledEntry) /\ Len(filed'[s]) = Len(filed[s]) + 1
        /\ Len(filed[s]) \in Nat
        /\ \A i \in 1..Len(filed[s]) : filed'[s][i] = filed[s][i]
        /\ filed'[s][Len(filed[s]) + 1] = e
    BY <2>1, Appended
  <2>3. /\ since + Len(filed[s]) = record - 1
        /\ \A i \in 1..Len(filed[s]) : filed[s][i].rec = since + i /\ filed[s][i].whole
    BY <1>1 DEF IInv, Filed
  <2>4. filed'[s][Len(filed'[s])] = e /\ since + Len(filed'[s]) = record
    BY <1>1, <2>2, <2>3
  <2>5. \A i \in 1..Len(filed[s]) :
            filed'[s][i].rec = since + i /\ filed'[s][i].whole
    BY <2>2, <2>3
  <2> QED
    BY <2>1, <2>2, <2>4, <2>5
<1>5. filed' \in [Sink -> Seq(FiledEntry)]
  <2>1. \A s \in Sink : filed'[s] \in Seq(FiledEntry)
    BY <1>1, <1>3, <1>4
  <2>2. filed' = [s \in Sink |-> filed'[s]]
    BY <1>2
  <2> QED
    BY <2>1, <2>2
<1>6. \A s \in Sink : \A i \in 1..Len(filed'[s]) :
          filed'[s][i].rec = since + i /\ (i < Len(filed'[s]) => filed'[s][i].whole)
  <2> SUFFICES ASSUME NEW s \in Sink, NEW i \in 1..Len(filed'[s])
               PROVE  /\ filed'[s][i].rec = since + i
                      /\ i < Len(filed'[s]) => filed'[s][i].whole
    OBVIOUS
  <2>1. CASE s \notin sinks
    BY <1>3, <2>1 DEF IInv, Filed
  <2>2. CASE s \in sinks
    <3>1. /\ Len(filed[s]) \in Nat
          /\ i \in 1..Len(filed[s]) \/ (i = Len(filed'[s]) /\ since + i = record)
      BY <1>1, <1>4, <2>2
    <3>2. CASE i \in 1..Len(filed[s])
      BY <1>4, <2>2, <3>2
    <3>3. CASE i = Len(filed'[s]) /\ since + i = record
      BY <1>1, <1>4, <2>2, <3>3
    <3> QED
      BY <3>1, <3>2, <3>3
  <2> QED
    BY <2>1, <2>2
<1>7. \A s \in sinks' :
          /\ \A i \in 1..Len(filed'[s]) : filed'[s][i].whole
          /\ since + Len(filed'[s]) = record
  <2> SUFFICES ASSUME NEW s \in whole
               PROVE  /\ \A i \in 1..Len(filed'[s]) : filed'[s][i].whole
                      /\ since + Len(filed'[s]) = record
    BY <1>2
  <2>1. /\ s \in sinks /\ Len(filed[s]) \in Nat
        /\ \A i \in 1..Len(filed'[s]) : i \in 1..Len(filed[s]) \/ i = Len(filed'[s])
    BY <1>1, <1>4
  <2> QED
    BY <1>4, <2>1
<1>8. ~tried => sinks' = {} /\ \A s \in Sink : filed'[s] = <<>>
  <2>1. ~tried => sinks = {} /\ \A s \in Sink : filed[s] = <<>>
    BY DEF IInv, Filed
  <2> QED
    BY <1>2, <1>3, <2>1
<1>9. sinks' \subseteq Sink /\ since' \in Nat /\ since' <= record' /\ tried' = tried
      /\ phase' = "log" /\ record' = record /\ since' = since
  <2>1. since <= record
    BY DEF IInv, Filed
  <2> QED
    BY <1>1, <1>2, <2>1
<1> QED
  BY <1>5, <1>6, <1>7, <1>8, <1>9 DEF Filed

\* The invariant holds in the initial states and every step keeps it.
LEMMA InitIInv == Init => IInv
<1> SUFFICES ASSUME Init PROVE IInv
  OBVIOUS
<1>1. platform \in Platform /\ text = <<>> /\ Len(text) = 0
  BY ConstantsAssumption DEF Init
<1> QED
  BY <1>1, ConstantsAssumption
     DEF Init, IInv, Bounds, Choice, Ordered, Channelled, Filed, Teed, Channel

LEMMA NextIInv == IInv /\ [Next]_vars => IInv'
<1> SUFFICES ASSUME IInv, [Next]_vars PROVE IInv'
  OBVIOUS
<1> USE ConstantsAssumption
<1>p. platform \in Platform
  BY DEF IInv, Bounds
<1>0. /\ record \in Nat /\ sent \in 0..Bytes /\ text \in Seq(ShownChunk)
      /\ \A i \in 1..Len(text) : text[i].rec \in Nat /\ text[i].rec <= record
  <2>1. \A i \in 1..Len(text) : text[i] \in ShownChunk
    BY ElementOfSeq DEF IInv, Bounds
  <2> QED
    BY <2>1 DEF IInv, Bounds, ShownChunk
<1>1. ASSUME PayloadBootstrap \/ TitleBootstrap PROVE IInv'
  <2>1. (Bounds /\ Choice /\ Ordered /\ Channelled /\ Teed)'
    BY <1>1 DEF PayloadBootstrap, TitleBootstrap, IInv, Bounds, Choice, Ordered, Channelled,
                Teed, dests
  <2>2. Filed'
    BY <1>1, FiledKept DEF PayloadBootstrap, TitleBootstrap, IInv
  <2> QED
    BY <2>1, <2>2 DEF IInv
<1>2. ASSUME SetWriteTee \/ SinkOpen \/ SinkClose \/ InvokeSyscall PROVE IInv'
  <2>1. /\ UNCHANGED <<platform, phase, channel, candidate, record, sent, teed, text>>
        /\ phase = "idle"
    BY <1>2 DEF SetWriteTee, SinkOpen, SinkClose, InvokeSyscall, boot, dests
  <2>2. (Bounds /\ Choice /\ Ordered /\ Channelled /\ Teed)'
    BY <2>1 DEF IInv, Bounds, Choice, Ordered, Channelled, Teed
  <2>3. CASE SetWriteTee \/ InvokeSyscall
    BY <2>1, <2>2, <2>3, FiledKept DEF SetWriteTee, InvokeSyscall, IInv
  <2>4. CASE SinkOpen
    <3>1. tried' /\ sinks' \subseteq Sink /\ since' = record /\ filed' = filed
      BY <2>4, <1>p DEF SinkOpen, Platform
    <3>2. \A s \in Sink : filed[s] = <<>> /\ Len(filed[s]) = 0
      BY <2>4 DEF SinkOpen, IInv, Filed
    <3>3. filed \in [Sink -> Seq(FiledEntry)]
      BY DEF IInv, Filed
    <3> QED
      BY <1>0, <2>1, <2>2, <3>1, <3>2, <3>3 DEF IInv, Filed
  <2>5. CASE SinkClose
    <3>1. UNCHANGED <<tried, since, filed, record>> /\ sinks' = {} /\ Filed
      BY <2>1, <2>5 DEF SinkClose, IInv
    <3> QED
      BY <2>2, <3>1 DEF IInv, Filed
  <2> QED
    BY <1>2, <2>2, <2>3, <2>4, <2>5 DEF IInv
<1>3. ASSUME Write PROVE IInv'
  <2>1. (Bounds /\ Choice /\ Ordered /\ Channelled /\ Teed)'
    BY <1>3, <1>0
       DEF Write, IInv, Bounds, Choice, Ordered, Channelled, Teed, boot, dests
  <2>2. Filed'
    <3>1. /\ UNCHANGED files /\ phase = "idle" /\ phase' = "tee" /\ record' = record + 1
          /\ record' - 1 = record /\ Filed
      BY <1>3, <1>0 DEF Write, IInv
    <3>2. since <= record'
      BY <1>0, <3>1 DEF Filed
    <3> QED
      BY <3>1, <3>2 DEF Filed, files
  <2> QED
    BY <2>1, <2>2 DEF IInv
<1>4. ASSUME WriteTee PROVE IInv'
  BY <1>4 DEF WriteTee, IInv, Bounds, Choice, Ordered, Channelled, Filed, Teed, boot, files
<1>5. ASSUME SinkWrite PROVE IInv'
  <2>1. (Bounds /\ Choice /\ Ordered /\ Channelled /\ Teed)'
    BY <1>5 DEF SinkWrite, IInv, Bounds, Choice, Ordered, Channelled, Teed, boot, dests
  <2> QED
    BY <1>5, <2>1, SinkWriteFiles DEF IInv
<1>6. ASSUME DebugOutWrite PROVE IInv'
  BY <1>6
     DEF DebugOutWrite, IInv, Bounds, Choice, Ordered, Channelled, Filed, Teed, boot, files
<1>7. ASSUME phase = "send", Return, candidate' = candidate,
             UNCHANGED <<platform, record, tee, teed, files>>,
             channel' = channel \/ (channel' = "NONE" /\ channel = "UNTRIED")
      PROVE  IInv'
  BY <1>7 DEF Return, IInv, Bounds, Choice, Ordered, Channelled, Filed, Teed, Channel, files
<1>8. ASSUME HostSend PROVE IInv'
  <2>1. CASE Return
    BY <2>1, <1>7, <1>8 DEF HostSend, boot, dests
  <2>2. CASE ~Return
    <3>1. PICK a \in Answers(Host, Bytes - sent) :
              a.moved > 0 /\ Moved([way |-> Host, moved |-> a.moved, shown |-> a.shown])
      BY <2>2, <1>8 DEF HostSend
    <3>2. a.moved \in 1..(Bytes - sent) /\ a.shown \in 0..a.moved
      BY <3>1, <1>0, <1>8, AnswersFit DEF HostSend, IInv, Bounds
    <3>3. Moves(Host, a.moved, a.shown)
      BY <3>1, <3>2, <1>8 DEF HostSend, Moves, Host, Way, boot, dests
    <3> QED
      BY <3>3, MovedKeeps
  <2> QED
    BY <2>1, <2>2
<1>9. ASSUME StaySilent PROVE IInv'
  BY <1>9, <1>7 DEF StaySilent, boot, dests
<1>10. ASSUME NEW ch \in ToSet(Candidates), NEW a \in Send(ch, Bytes - sent), a.moved > 0,
              phase = "send", platform.build # "host", channel \in {"UNTRIED", ch},
              channel' = ch, Moved(a), candidate' = candidate,
              UNCHANGED <<platform, record, tee, teed, files>>
       PROVE  IInv'
  <2>1. Bytes - sent \in Nat \ {0}
    BY <1>10, <1>0 DEF IInv, Bounds
  <2>2. ch \in Channel \ {"UNTRIED"}
    BY DEF Channel, Candidates, ToSet
  <2>3. /\ a.moved \in 1..(Bytes - sent) /\ a.shown \in 0..a.moved
        /\ a.way \in ToSet(Ways(ch)) /\ a.way \in Way
        /\ a.way = "puts" => a.moved = Bytes - sent /\ a.shown \in {0, Bytes - sent}
    BY <1>10, <2>1, <2>2, SendFits
  <2>4. a.way = "puts" => ch = "PUTS" /\ sent = 0
    BY <2>2, <2>3, <1>10, PutsByPuts DEF IInv, Choice
  <2>5. ch = "PUTS" => a.way = "puts"
    BY <2>3 DEF Ways, ToSet
  <2>6. Moved([way |-> a.way, moved |-> a.moved, shown |-> a.shown])
    BY <1>10 DEF Moved
  <2>7. Moves(a.way, a.moved, a.shown)
    BY <1>10, <2>2, <2>3, <2>4, <2>5, <2>6, <1>0 DEF Moves
  <2> QED
    BY <2>7, MovedKeeps
<1>11. ASSUME TryCandidate PROVE IInv'
  <2>0. candidate \in 1..4 /\ Candidates[candidate] \in ToSet(Candidates)
    BY <1>11 DEF TryCandidate, IInv, Choice, Candidates, ToSet
  <2>1. PICK a \in Send(Candidates[candidate], Bytes - sent) :
           IF a.moved > 0
           THEN channel' = Candidates[candidate] /\ Moved(a) /\ UNCHANGED candidate
           ELSE IF candidate < Len(Candidates)
           THEN candidate' = candidate + 1 /\ UNCHANGED <<channel, phase, sent, text>>
           ELSE channel' = "NONE" /\ Return /\ UNCHANGED candidate
    BY <1>11 DEF TryCandidate
  <2>2. CASE a.moved > 0
    BY <2>0, <2>1, <2>2, <1>10, <1>11 DEF TryCandidate, boot, dests
  <2>3. CASE ~(a.moved > 0) /\ candidate < Len(Candidates)
    <3>1. candidate' \in 1..4
      BY <2>0, <2>1, <2>3 DEF Candidates
    <3> QED
      BY <2>1, <2>3, <3>1, <1>11
         DEF TryCandidate, boot, files, dests, IInv, Bounds, Choice, Ordered, Channelled,
             Filed, Teed
  <2>4. CASE ~(a.moved > 0) /\ ~(candidate < Len(Candidates))
    BY <2>1, <2>4, <1>7, <1>11 DEF TryCandidate, boot, dests
  <2> QED
    BY <2>2, <2>3, <2>4
<1>12. ASSUME SendOnChannel PROVE IInv'
  <2>1. PICK a \in Send(channel, Bytes - sent) : IF a.moved > 0 THEN Moved(a) ELSE Return
    BY <1>12 DEF SendOnChannel
  <2>2. CASE a.moved > 0
    BY <2>1, <2>2, <1>10, <1>12 DEF SendOnChannel, boot, dests
  <2>3. CASE ~(a.moved > 0)
    BY <2>1, <2>3, <1>7, <1>12 DEF SendOnChannel, boot, dests
  <2> QED
    BY <2>2, <2>3
<1>13. CASE UNCHANGED vars
  BY <1>13 DEF vars, IInv, Bounds, Choice, Ordered, Channelled, Filed, Teed
<1> QED
  BY <1>1, <1>2, <1>3, <1>4, <1>5, <1>6, <1>8, <1>9, <1>11, <1>12, <1>13
     DEF Next, Program, Sending

LEMMA Invariance == Spec => []IInv
BY InitIInv, NextIInv, PTL DEF Spec

-----------------------------------------------------------------------------
\* What a reader sees on the text channel is in order and nothing in it is there twice,
\* for any writers, records of any length and any number of them.
THEOREM TextInOrder == Spec => []InOrder
<1>1. IInv => InOrder
  <2> SUFFICES ASSUME IInv PROVE InOrder
    OBVIOUS
  <2>1. DOMAIN text = 1..Len(text)
    BY DEF IInv, Bounds
  <2>2. \A c \in Chunks : c.from <= c.to
    BY <2>1 DEF IInv, Bounds, Chunks, ToSet
  <2> QED
    BY <2>1, <2>2 DEF IInv, Ordered, InOrder
<1> QED
  BY <1>1, Invariance, PTL

\* All of it came through the one channel that was chosen.
THEOREM OneChannel == Spec => []OneWayOut
<1>1. IInv => OneWayOut
  BY DEF IInv, Bounds, Channelled, OneWayOut, Chunks, ToSet
<1> QED
  BY <1>1, Invariance, PTL

\* Each file has its records in a row and only the last of them cut short, and whatever
\* shows on the text channel since the files were opened is whole in every file that has
\* not failed, and has gone down the tee, if there is one.
THEOREM DurableBeforeText == Spec => []DurableFirst
<1>1. IInv => DurableFirst
  <2> SUFFICES ASSUME IInv PROVE DurableFirst
    OBVIOUS
  <2>1. \A s \in Sink : DOMAIN filed[s] = 1..Len(filed[s]) /\ Len(filed[s]) \in Nat
    BY DEF IInv, Filed
  <2>2. \A s \in Sink : \A i \in DOMAIN filed[s] :
           filed[s][i].rec = since + i /\ (i < Len(filed[s]) => filed[s][i].whole)
    BY <2>1 DEF IInv, Filed
  <2>3. \A c \in Chunks :
           /\ c.rec \in Nat /\ c.rec <= record
           /\ c.rec = record => phase \in {"send", "idle"}
    <3>1. \A i \in 1..Len(text) : text[i] \in ShownChunk
      BY ElementOfSeq DEF IInv, Bounds
    <3> QED
      BY <3>1 DEF IInv, Bounds, Chunks, ToSet, ShownChunk
  <2>4. ASSUME NEW c \in Chunks, NEW s \in sinks, c.rec > since
        PROVE  \E i \in DOMAIN filed[s] : filed[s][i] = [rec |-> c.rec, whole |-> TRUE]
    <3>1. s \in Sink /\ since \in Nat /\ record \in Nat
      BY DEF IInv, Filed, Bounds
    <3>2. since + Len(filed[s]) >= c.rec
      BY <2>1, <2>3, <3>1 DEF IInv, Filed
    <3>3. c.rec - since \in 1..Len(filed[s])
      BY <2>1, <2>3, <2>4, <3>1, <3>2
    <3> DEFINE i == c.rec - since
    <3>4. filed[s][i].rec = c.rec /\ filed[s][i].whole /\ filed[s][i] \in FiledEntry
      <4>1. filed[s] \in Seq(FiledEntry) /\ filed[s][i].whole
        BY <3>1, <3>3 DEF IInv, Filed
      <4>2. filed[s][i].rec = since + (c.rec - since)
        BY <2>1, <2>2, <3>1, <3>3
      <4> QED
        BY <2>3, <3>1, <3>3, <4>1, <4>2, ElementOfSeq
    <3>5. filed[s][i] = [rec |-> c.rec, whole |-> TRUE]
      BY <3>4 DEF FiledEntry
    <3> QED
      BY <2>1, <3>1, <3>3, <3>5
  <2>5. \A c \in Chunks : tee /\ phase # "idle" /\ c.rec = record => c.rec \in teed
    BY <2>3 DEF IInv, Teed
  <2> QED
    BY <2>2, <2>4, <2>5 DEF DurableFirst
<1> QED
  BY <1>1, Invariance, PTL

\* puts is handed whole records.
THEOREM WholeByPuts == Spec => []PutsTakesWholeRecords
<1>1. IInv => PutsTakesWholeRecords
  BY DEF IInv, Bounds, Channelled, PutsTakesWholeRecords, Chunks, ToSet
<1> QED
  BY <1>1, Invariance, PTL
-----------------------------------------------------------------------------
(* The types.  A record is being written wherever obs_write is at work.    *)

Types == TypeOK /\ (phase \in {"tee", "file", "log", "send"} => record >= 1)

LEMMA InitTypes == Init => Types
<1> SUFFICES ASSUME Init PROVE Types
  OBVIOUS
<1>1. platform \in Platform /\ text \in Seq(Chunk)
  BY ConstantsAssumption DEF Init
<1>2. channel \in Channel /\ candidate \in 1..4
  BY DEF Init, Channel
<1>3. record \in 0..Records /\ sent \in 0..Bytes
  BY ConstantsAssumption DEF Init
<1>4. since \in 0..record /\ sinks \subseteq Sink /\ filed \in [Sink -> Seq(Entry)]
  BY <1>3 DEF Init
<1> QED
  BY <1>1, <1>2, <1>3, <1>4 DEF Init, Types, TypeOK

\* A call that moved something of the record in hand.
LEMMA MovedTypes ==
    ASSUME IInv, Types, phase = "send", NEW a, a.way \in Way,
           a.moved \in 1..(Bytes - sent), a.shown \in 0..a.moved, Moved(a),
           channel' \in Channel, candidate' \in 1..4,
           UNCHANGED <<boot, files, tee, record, dests>>
    PROVE  Types'
<1>1. /\ record \in 1..Records /\ sent \in 0..(Bytes - 1) /\ Bytes \in Nat /\ Records \in Nat
      /\ text \in Seq(Chunk)
  BY ConstantsAssumption DEF Types, TypeOK, IInv, Bounds
<1>2. sent' \in 0..Bytes /\ phase' \in {"send", "idle"}
  BY <1>1 DEF Moved
<1>3. text' \in Seq(Chunk)
  <2>1. CASE a.shown = 0
    BY <1>1, <2>1 DEF Moved
  <2>2. CASE a.shown # 0
    <3> DEFINE chunk == [way |-> a.way, rec |-> record, from |-> sent + 1,
                         to |-> sent + a.shown]
    <3>1. chunk \in Chunk
      BY <1>1, <2>2 DEF Chunk
    <3>2. text' = Append(text, chunk)
      BY <2>2 DEF Moved
    <3> HIDE DEF chunk
    <3> QED
      BY <1>1, <3>1, <3>2
  <2> QED
    BY <2>1, <2>2
<1> QED
  BY <1>1, <1>2, <1>3 DEF Types, TypeOK, boot, files, dests

\* What a file gets is an entry of its own.
LEMMA SinkWriteTypes ==
    ASSUME Types, SinkWrite, record \in 1..Records
    PROVE  sinks' \subseteq Sink /\ filed' \in [Sink -> Seq(Entry)]
<1>1. sinks \subseteq Sink /\ filed \in [Sink -> Seq(Entry)]
  BY DEF Types, TypeOK
<1>2. PICK whole \in SUBSET sinks :
          /\ sinks' = whole
          /\ filed' = [s \in Sink |->
                 IF s \in sinks
                 THEN Append(filed[s], [rec |-> record, whole |-> s \in whole])
                 ELSE filed[s]]
  BY DEF SinkWrite
<1>3. ASSUME NEW s \in Sink
      PROVE  filed'[s] \in Seq(Entry)
  <2> DEFINE e == [rec |-> record, whole |-> s \in whole]
  <2>1. /\ e \in Entry /\ filed[s] \in Seq(Entry)
        /\ filed'[s] = filed[s] \/ filed'[s] = Append(filed[s], e)
    <3>1. (s \in whole) \in BOOLEAN
      OBVIOUS
    <3>2. e \in Entry
      BY <3>1 DEF Entry
    <3>3. filed'[s] = filed[s] \/ filed'[s] = Append(filed[s], e)
      BY <1>2
    <3> QED
      BY <1>1, <3>2, <3>3
  <2> HIDE DEF e
  <2>2. Append(filed[s], e) \in Seq(Entry)
    BY <2>1
  <2> QED
    BY <2>1, <2>2
<1>4. filed' = [s \in Sink |-> filed'[s]]
  BY <1>2
<1> QED
  BY <1>1, <1>2, <1>3, <1>4

LEMMA NextTypes == IInv /\ Types /\ [Next]_vars => Types'
<1> SUFFICES ASSUME IInv, Types, [Next]_vars PROVE Types'
  OBVIOUS
<1> USE ConstantsAssumption DEF boot, files, dests
<1>1. CASE PayloadBootstrap \/ TitleBootstrap
  <2>1. platform.resolves \subseteq Resolved /\ "syscall_gadget" \in Resolved
    BY DEF Types, TypeOK, Platform, Resolved
  <2>2. fns' \subseteq Resolved /\ bootstrapped' \in BOOLEAN /\ tee' \in BOOLEAN
    BY <1>1, <2>1 DEF PayloadBootstrap, TitleBootstrap, Types, TypeOK
  <2>3. phase' \in {"resolve", "idle"}
    BY <1>1 DEF PayloadBootstrap, TitleBootstrap
  <2>4. UNCHANGED <<platform, late, files, channel, candidate, record, sent, dests, text>>
    BY <1>1 DEF PayloadBootstrap, TitleBootstrap
  <2> QED
    BY <2>2, <2>3, <2>4 DEF Types, TypeOK
<1>2. CASE SetWriteTee \/ SinkOpen \/ SinkClose \/ InvokeSyscall
  <2>1. platform.files \subseteq Sink /\ "syscall_gadget" \in Resolved
    BY DEF Types, TypeOK, Platform, Resolved
  <2>2. /\ fns' \subseteq Resolved /\ late' \in BOOLEAN /\ tee' \in BOOLEAN
        /\ tried' \in BOOLEAN /\ sinks' \subseteq Sink /\ since' \in 0..record
    <3>1. CASE SetWriteTee \/ SinkClose \/ InvokeSyscall
      BY <2>1, <3>1 DEF SetWriteTee, SinkClose, InvokeSyscall, Types, TypeOK
    <3>2. CASE SinkOpen
      BY <2>1, <3>2 DEF SinkOpen, Types, TypeOK
    <3> QED
      BY <1>2, <3>1, <3>2
  <2>3. UNCHANGED <<platform, phase, bootstrapped, channel, candidate, record, sent, dests,
                    filed, text>>
    BY <1>2 DEF SetWriteTee, SinkOpen, SinkClose, InvokeSyscall
  <2> QED
    BY <2>2, <2>3 DEF Types, TypeOK
<1>3. CASE Write
  <2>1. record' \in 1..Records /\ 1..record \subseteq 1..record'
    BY <1>3 DEF Write, Types, TypeOK
  <2> QED
    BY <1>3, <2>1 DEF Write, Types, TypeOK
<1>4. CASE WriteTee \/ SinkWrite \/ DebugOutWrite
  <2>1. record \in 1..record /\ record \in 1..Records
    BY <1>4 DEF WriteTee, SinkWrite, DebugOutWrite, Types, TypeOK
  <2>2. teed' \subseteq 1..record /\ logged' \subseteq 1..record
    BY <1>4, <2>1 DEF WriteTee, SinkWrite, DebugOutWrite, Types, TypeOK
  <2>3. phase' \in {"file", "log", "send"} /\ candidate' \in 1..4 /\ record >= 1
    BY <1>4, <2>1 DEF WriteTee, SinkWrite, DebugOutWrite, Types, TypeOK
  <2>4. UNCHANGED <<boot, tried, since, tee, channel, record, sent, text>>
    BY <1>4 DEF WriteTee, SinkWrite, DebugOutWrite
  <2>5. sinks' \subseteq Sink /\ filed' \in [Sink -> Seq(Entry)]
    <3>1. CASE WriteTee \/ DebugOutWrite
      BY <3>1 DEF WriteTee, DebugOutWrite, Types, TypeOK
    <3>2. CASE SinkWrite
      BY <2>1, <3>2, SinkWriteTypes
    <3> QED
      BY <1>4, <3>1, <3>2
  <2> QED
    BY <2>2, <2>3, <2>4, <2>5 DEF Types, TypeOK
<1>5. ASSUME phase = "send", Return, channel' \in Channel,
             UNCHANGED <<boot, files, tee, candidate, record, dests>>
      PROVE  Types'
  BY <1>5 DEF Return, Types, TypeOK
<1>6. sent \in Nat /\ (phase = "send" => Bytes - sent \in Nat \ {0})
  BY DEF IInv, Bounds
<1>7. CASE HostSend
  <2>1. PICK a \in Answers(Host, Bytes - sent) :
           IF a.moved > 0 THEN Moved([way |-> Host, moved |-> a.moved, shown |-> a.shown])
                          ELSE Return
    BY <1>7 DEF HostSend
  <2>2. a.moved \in 0..(Bytes - sent) /\ a.shown \in 0..a.moved
    BY <1>6, <1>7, AnswersFit DEF HostSend
  <2>3. phase = "send" /\ UNCHANGED <<boot, files, tee, channel, candidate, record, dests>>
    BY <1>7 DEF HostSend
  <2>4. CASE a.moved > 0
    <3> DEFINE b == [way |-> Host, moved |-> a.moved, shown |-> a.shown]
    <3>1. b.way \in Way /\ b.moved \in 1..(Bytes - sent) /\ b.shown \in 0..b.moved /\ Moved(b)
      BY <1>6, <2>1, <2>2, <2>4 DEF Way, Host
    <3> HIDE DEF b
    <3> QED
      BY <2>3, <3>1, MovedTypes DEF Types, TypeOK
  <2>5. CASE ~(a.moved > 0)
    BY <1>5, <2>1, <2>3, <2>5 DEF Types, TypeOK
  <2> QED
    BY <2>4, <2>5
<1>8. CASE StaySilent
  BY <1>5, <1>8 DEF StaySilent, Types, TypeOK
<1>9. ASSUME phase = "send", NEW ch \in ToSet(Candidates), NEW a \in Send(ch, Bytes - sent),
             a.moved > 0, Moved(a), channel' \in Channel,
             UNCHANGED <<boot, files, tee, candidate, record, dests>>
      PROVE  Types'
  <2>1. ch \in Channel /\ Bytes - sent \in Nat \ {0}
    BY <1>6, <1>9 DEF Channel
  <2>2. a.moved \in 0..(Bytes - sent) /\ a.shown \in 0..a.moved /\ a.way \in Way
    BY <1>9, <2>1, SendFits
  <2>3. a.moved \in 1..(Bytes - sent)
    BY <1>9, <2>1, <2>2
  <2> QED
    BY <1>9, <2>2, <2>3, MovedTypes DEF Types, TypeOK
<1>10. CASE TryCandidate
  <2>1. /\ candidate \in 1..4 /\ Len(Candidates) = 4
        /\ Candidates[candidate] \in ToSet(Candidates)
        /\ ToSet(Candidates) \subseteq Channel /\ "NONE" \in Channel
    BY DEF Types, TypeOK, Candidates, ToSet, Channel
  <2>2. PICK a \in Send(Candidates[candidate], Bytes - sent) :
           IF a.moved > 0
           THEN channel' = Candidates[candidate] /\ Moved(a) /\ UNCHANGED candidate
           ELSE IF candidate < Len(Candidates)
           THEN candidate' = candidate + 1 /\ UNCHANGED <<channel, phase, sent, text>>
           ELSE channel' = "NONE" /\ Return /\ UNCHANGED candidate
    BY <1>10 DEF TryCandidate
  <2>3. phase = "send" /\ UNCHANGED <<boot, files, tee, record, dests>>
    BY <1>10 DEF TryCandidate
  <2>4. CASE a.moved > 0
    <3>1. channel' \in Channel /\ Moved(a) /\ UNCHANGED candidate
      BY <2>1, <2>2, <2>4
    <3> QED
      BY <1>9, <2>1, <2>3, <2>4, <3>1
  <2>5. CASE ~(a.moved > 0) /\ candidate < Len(Candidates)
    <3>1. candidate' \in 1..4 /\ UNCHANGED <<channel, phase, sent, text>>
      BY <2>1, <2>2, <2>5
    <3> QED
      BY <2>3, <3>1 DEF Types, TypeOK
  <2>6. CASE ~(a.moved > 0) /\ ~(candidate < Len(Candidates))
    BY <1>5, <2>1, <2>2, <2>3, <2>6
  <2> QED
    BY <2>4, <2>5, <2>6
<1>11. CASE SendOnChannel
  <2>1. PICK a \in Send(channel, Bytes - sent) : IF a.moved > 0 THEN Moved(a) ELSE Return
    BY <1>11 DEF SendOnChannel
  <2>2. /\ phase = "send" /\ channel \in ToSet(Candidates) /\ channel' \in Channel
        /\ UNCHANGED <<boot, files, tee, candidate, record, dests>>
    BY <1>11 DEF SendOnChannel, Types, TypeOK
  <2> QED
    BY <1>5, <1>9, <2>1, <2>2
<1>12. CASE UNCHANGED vars
  BY <1>12 DEF vars, Types, TypeOK
<1> QED
  BY <1>1, <1>2, <1>3, <1>4, <1>7, <1>8, <1>10, <1>11, <1>12 DEF Next, Program, Sending

\* Every variable has a value the code can give it: the channel is one of the enumeration,
\* a chunk lies within its record, and no destination has a record that was not written.
THEOREM TypeCorrect == Spec => []TypeOK
<1>1. Types => TypeOK
  BY DEF Types
<1> QED
  BY InitTypes, NextTypes, <1>1, Invariance, PTL DEF Spec

-----------------------------------------------------------------------------
(* The choice is made with the first record, before any gadget comes late. *)

Chosen ==
    /\ phase \in {"entry", "resolve"} => record = 0 /\ channel = "UNTRIED"
    /\ channel = "UNTRIED" => ~late
    /\ channel = "UNTRIED" /\ platform.build # "host" =>
          record <= 1 /\ (record = 1 => phase # "idle")

LEMMA NextChosen == IInv /\ Types /\ Chosen /\ [Next]_vars => Chosen'
<1> SUFFICES ASSUME IInv, Types, Chosen, [Next]_vars PROVE Chosen'
  OBVIOUS
<1> USE DEF boot
<1>1. record \in Nat
  BY DEF IInv, Bounds
<1>2. CASE PayloadBootstrap \/ TitleBootstrap
  BY <1>2 DEF PayloadBootstrap, TitleBootstrap, Chosen
<1>3. CASE \/ SetWriteTee \/ SinkOpen \/ SinkClose \/ Write \/ WriteTee \/ SinkWrite
           \/ DebugOutWrite
  BY <1>1, <1>3
     DEF SetWriteTee, SinkOpen, SinkClose, Write, WriteTee, SinkWrite, DebugOutWrite, Chosen
<1>4. CASE InvokeSyscall
  BY <1>1, <1>4 DEF InvokeSyscall, Chosen
<1>5. CASE HostSend \/ StaySilent \/ SendOnChannel
  <2>1. /\ UNCHANGED <<platform, late, channel, record>> /\ phase' \in {"send", "idle"}
        /\ channel = "UNTRIED" => platform.build = "host"
    <3>1. "UNTRIED" \notin ToSet(Candidates)
      BY DEF Candidates, ToSet
    <3> QED
      BY <1>5, <3>1 DEF HostSend, StaySilent, SendOnChannel, Moved, Return
  <2> QED
    BY <2>1 DEF Chosen
<1>6. CASE TryCandidate
  <2>1. /\ UNCHANGED <<platform, late, record>> /\ channel = "UNTRIED"
        /\ phase = "send" /\ phase' \in {"send", "idle"}
        /\ channel' = "UNTRIED" => phase' = "send"
    <3>1. candidate \in 1..4 /\ \A i \in 1..4 : Candidates[i] # "UNTRIED"
      BY DEF Types, TypeOK, Candidates
    <3> QED
      BY <1>6, <3>1 DEF TryCandidate, Moved, Return
  <2> QED
    BY <2>1 DEF Chosen
<1>7. CASE UNCHANGED vars
  BY <1>7 DEF vars, Chosen
<1> QED
  BY <1>2, <1>3, <1>4, <1>5, <1>6, <1>7 DEF Next, Program, Sending

-----------------------------------------------------------------------------
(* Giving up.  A candidate is passed over only when each of its open ways refused. *)

Unsound(ch) ==
    \A way \in ToSet(Ways(ch)) : OpenWith(Settled, way) => platform.conduct[way] \notin Sound

PassedOver ==
    /\ phase = "send" /\ channel = "UNTRIED" =>
          \A i \in 1..4 : i < candidate => Unsound(Candidates[i])
    /\ channel = "NONE" => \A i \in 1..4 : Unsound(Candidates[i])

\* A sound writer takes something of whatever it is given.
LEMMA SoundTakes ==
    ASSUME NEW way, NEW n \in Nat \ {0}, platform.conduct[way] \in Sound
    PROVE  ~MayRefuse(way, n)
BY DEF MayRefuse, Answers, Sound

\* So a channel whose ways moved nothing has none that is open and sound.
LEMMA RefusedIsUnsound ==
    ASSUME NEW ch, NEW n \in Nat \ {0}, NEW a \in Send(ch, n), ~(a.moved > 0), ~late
    PROVE  Unsound(ch)
<1>1. \A way \in Reached(ch, n) : a \notin Through(way, n)
  BY DEF Through
<1>2. \A way \in ToSet(Ways(ch)) : Open(way) => MayRefuse(way, n)
  BY <1>1 DEF Send
<1> QED
  BY <1>2, SoundTakes DEF Unsound, Open, Settled

LEMMA NextPassedOver == IInv /\ Types /\ Chosen /\ PassedOver /\ [Next]_vars => PassedOver'
<1> SUFFICES ASSUME IInv, Types, Chosen, PassedOver, [Next]_vars PROVE PassedOver'
  OBVIOUS
<1> USE DEF boot, dests
<1>u. ASSUME platform' = platform, Settled' = Settled, NEW ch
      PROVE  Unsound(ch) => Unsound(ch)'
  BY <1>u DEF Unsound, OpenWith, RawImportsOk, ResolutionWorks, KernelOpens
<1>s. ASSUME UNCHANGED <<fns, late>>
      PROVE  Settled' = Settled
  BY <1>s DEF Settled
<1>1. CASE PayloadBootstrap \/ TitleBootstrap
  BY <1>1 DEF PayloadBootstrap, TitleBootstrap, PassedOver, Chosen
<1>2. CASE \/ SetWriteTee \/ Write \/ WriteTee \/ SinkWrite \/ DebugOutWrite
           \/ SinkOpen \/ SinkClose \/ InvokeSyscall
  <2>1. /\ UNCHANGED <<platform, channel>> /\ Settled' = Settled
        /\ phase' = "send" => candidate' = 1
    <3>1. CASE InvokeSyscall
      BY <3>1 DEF InvokeSyscall, Settled
    <3>2. CASE ~InvokeSyscall
      BY <1>2, <1>s, <3>2
         DEF SetWriteTee, Write, WriteTee, SinkWrite, DebugOutWrite, SinkOpen, SinkClose
    <3> QED
      BY <3>1, <3>2
  <2>2. channel = "NONE" => \A i \in 1..4 : Unsound(Candidates[i])
    BY DEF PassedOver
  <2>3. (channel = "NONE" => \A i \in 1..4 : Unsound(Candidates[i]))'
    BY <1>u, <2>1, <2>2
  <2> QED
    BY <2>1, <2>3 DEF PassedOver
<1>3. CASE HostSend \/ StaySilent \/ SendOnChannel
  <2>1. /\ UNCHANGED <<platform, fns, late, channel, candidate>> /\ phase = "send"
        /\ phase' \in {"send", "idle"}
    BY <1>3 DEF HostSend, StaySilent, SendOnChannel, Moved, Return
  <2> QED
    BY <1>s, <1>u, <2>1 DEF PassedOver
<1>4. CASE TryCandidate
  <2>1. /\ platform' = platform /\ Settled' = Settled /\ ~late
        /\ phase = "send" /\ channel = "UNTRIED"
        /\ candidate \in 1..4 /\ Len(Candidates) = 4
        /\ \A i \in 1..4 : Candidates[i] \notin {"NONE", "UNTRIED"}
        /\ Bytes - sent \in Nat \ {0}
    <3>1. /\ platform' = platform /\ Settled' = Settled /\ ~late
          /\ phase = "send" /\ channel = "UNTRIED"
      BY <1>4, <1>s DEF TryCandidate, Chosen
    <3>2. candidate \in 1..4
      BY DEF Types, TypeOK
    <3>3. Len(Candidates) = 4 /\ \A i \in 1..4 : Candidates[i] \notin {"NONE", "UNTRIED"}
      BY DEF Candidates
    <3>4. Bytes - sent \in Nat \ {0}
      BY <3>1, ConstantsAssumption DEF IInv, Bounds
    <3> QED
      BY <3>1, <3>2, <3>3, <3>4
  <2>2. PICK a \in Send(Candidates[candidate], Bytes - sent) :
           IF a.moved > 0
           THEN channel' = Candidates[candidate] /\ Moved(a) /\ UNCHANGED candidate
           ELSE IF candidate < Len(Candidates)
           THEN candidate' = candidate + 1 /\ UNCHANGED <<channel, phase, sent, text>>
           ELSE channel' = "NONE" /\ Return /\ UNCHANGED candidate
    BY <1>4 DEF TryCandidate
  <2>3. \A i \in 1..4 : i < candidate => Unsound(Candidates[i])
    BY <2>1 DEF PassedOver
  <2>4. CASE a.moved > 0
    <3>1. channel' \notin {"NONE", "UNTRIED"} /\ phase' \in {"send", "idle"}
      BY <2>1, <2>2, <2>4 DEF Moved
    <3> QED
      BY <3>1 DEF PassedOver
  <2>5. CASE ~(a.moved > 0)
    <3>1. Unsound(Candidates[candidate])
      BY <2>1, <2>5, RefusedIsUnsound
    <3>2. \A i \in 1..4 : i < candidate + 1 => Unsound(Candidates[i])
      <4>1. \A i \in 1..4 : i < candidate + 1 => i < candidate \/ i = candidate
        BY <2>1
      <4> QED
        BY <2>3, <3>1, <4>1
    <3>3. CASE candidate < Len(Candidates)
      <4>1. candidate' = candidate + 1 /\ channel' = "UNTRIED" /\ phase' = "send"
        BY <2>1, <2>2, <2>5, <3>3
      <4>2. \A i \in 1..4 : i < candidate' => Unsound(Candidates[i])'
        BY <1>u, <2>1, <3>2, <4>1
      <4> QED
        BY <4>1, <4>2 DEF PassedOver
    <3>4. CASE ~(candidate < Len(Candidates))
      <4>1. channel' = "NONE" /\ phase' = "idle" /\ candidate = 4
        BY <2>1, <2>2, <2>5, <3>4 DEF Return
      <4>2. \A i \in 1..4 : Unsound(Candidates[i])
        BY <3>2, <4>1
      <4>3. \A i \in 1..4 : Unsound(Candidates[i])'
        BY <1>u, <2>1, <4>2
      <4> QED
        BY <4>1, <4>3 DEF PassedOver
    <3> QED
      BY <3>3, <3>4
  <2> QED
    BY <2>4, <2>5
<1>5. CASE UNCHANGED vars
  BY <1>s, <1>u, <1>5 DEF vars, PassedOver
<1> QED
  BY <1>1, <1>2, <1>3, <1>4, <1>5 DEF Next, Program, Sending

\* The code stops trying only when every way it would use had refused: no writer that
\* always takes something is left behind, for any conduct of the writers and any number
\* of records (runtime.c, obs_write).
THEOREM GivenUpLast == Spec => []GivesUpLast
<1>1. Init => PassedOver /\ Chosen
  BY DEF Init, PassedOver, Chosen
<1>2. PassedOver => GivesUpLast
  <2>1. \A way \in Writers : \E i \in 1..4 : way \in ToSet(Ways(Candidates[i]))
    <3>1. /\ Ways(Candidates[1]) = <<"s_fn_write", "s_fn_debug_out", "syscall_gadget",
                                    "sceKernelWrite">>
          /\ Ways(Candidates[2]) = <<"puts">> /\ Ways(Candidates[3]) = <<"write">>
          /\ Ways(Candidates[4]) = <<"putchar">>
      BY DEF Ways, Candidates
    <3>2. /\ {"s_fn_write", "s_fn_debug_out", "syscall_gadget", "sceKernelWrite"}
                \subseteq ToSet(Ways(Candidates[1]))
          /\ "puts" \in ToSet(Ways(Candidates[2])) /\ "write" \in ToSet(Ways(Candidates[3]))
          /\ "putchar" \in ToSet(Ways(Candidates[4]))
      BY <3>1 DEF ToSet
    <3> QED
      BY <3>2 DEF Writers, Way, Resolved, Imports, Host
  <2> QED
    BY <2>1 DEF PassedOver, Unsound, GivesUpLast
<1> QED
  BY <1>1, <1>2, NextChosen, NextPassedOver, InitTypes, NextTypes, Invariance, PTL DEF Spec

-----------------------------------------------------------------------------
(* Nothing lost.  What a sound writer moved is seen, so with one in use what is    *)
(* seen reaches as far as the loop of obs_write has come.                          *)

Shown(r, b) == \E i \in 1..Len(text) : text[i].rec = r /\ text[i].from <= b /\ b <= text[i].to

ShownSoFar ==
    /\ \A r \in 1..record, b \in 1..Bytes : r < record \/ b <= sent => Shown(r, b)
    /\ phase = "idle" /\ record > 0 => sent = Bytes

SoundInUse ==
    \E first, now \in Way :
        /\ Carries(Settled, first) /\ Carries(fns, now)
        /\ platform.conduct[first] \in Sound /\ platform.conduct[now] \in Sound

Whole == SoundInUse => ShownSoFar

\* A sound way that comes first takes it all on itself.
LEMMA FirstDelivers ==
    ASSUME NEW ch, NEW n \in Nat \ {0}, NEW a \in Send(ch, n), NEW i \in DOMAIN Ways(ch),
           Open(Ways(ch)[i]), \A j \in 1..(i - 1) : ~Open(Ways(ch)[j]),
           platform.conduct[Ways(ch)[i]] \in Sound, DOMAIN Ways(ch) \subseteq Nat \ {0}
    PROVE  a.moved > 0 /\ a.shown = a.moved
<1> DEFINE way == Ways(ch)[i]
<1>1. ~MayRefuse(way, n) /\ way \in ToSet(Ways(ch))
  BY SoundTakes DEF ToSet
<1>2. \A w \in Reached(ch, n) : w = way
  <2> SUFFICES ASSUME NEW k \in DOMAIN Ways(ch), Open(Ways(ch)[k]),
                      \A j \in 1..(k - 1) : Open(Ways(ch)[j]) => MayRefuse(Ways(ch)[j], n)
               PROVE  k = i
    BY DEF Reached
  <2>1. i \in Nat \ {0} /\ k \in Nat \ {0}
    OBVIOUS
  <2>2. ~(k < i)
    BY <2>1
  <2>3. ~(i < k)
    BY <1>1, <2>1
  <2> QED
    BY <2>1, <2>2, <2>3
<1>3. a # Refused \/ a \in UNION {Through(w, n) : w \in Reached(ch, n)}
  BY <1>1 DEF Send
<1>4. a \in UNION {Through(w, n) : w \in Reached(ch, n)}
  BY <1>3 DEF Send
<1>5. a \in Through(way, n)
  BY <1>2, <1>4
<1>6. PICK b \in Answers(way, n) : b.moved > 0 /\ a.moved = b.moved /\ a.shown = b.shown
  BY <1>5 DEF Through
<1>7. b.shown = b.moved
  BY DEF Answers, Sound
<1> QED
  BY <1>6, <1>7

\* What was moved and seen is appended to what is seen.
LEMMA MovedShows ==
    ASSUME IInv, ShownSoFar, phase = "send", NEW a, a.moved \in 1..(Bytes - sent),
           a.shown = a.moved, a.way \in Way, Moved(a), record' = record
    PROVE  ShownSoFar'
<1> DEFINE chunk == [way |-> a.way, rec |-> record, from |-> sent + 1, to |-> sent + a.shown]
<1>1. /\ record \in Nat /\ sent \in Nat /\ Bytes \in Nat /\ a.moved \in Nat /\ a.shown # 0
      /\ sent + a.moved <= Bytes /\ text \in Seq(ShownChunk)
  BY ConstantsAssumption DEF IInv, Bounds
<1>2. /\ sent' = sent + a.moved /\ text' = Append(text, chunk)
      /\ phase' = "idle" => sent' = Bytes
  <2>1. sent' < Bytes \/ sent' = Bytes
    BY <1>1 DEF Moved
  <2> QED
    BY <1>1, <2>1 DEF Moved
<1>3. chunk.rec = record /\ chunk.from = sent + 1 /\ chunk.to = sent + a.moved
      /\ chunk \in ShownChunk
  BY <1>1 DEF ShownChunk
<1> HIDE DEF chunk
<1>4. /\ Len(text) \in Nat /\ Len(text') = Len(text) + 1
      /\ text'[Len(text) + 1] = chunk
      /\ \A i \in 1..Len(text) : text'[i] = text[i]
  BY <1>1, <1>2, <1>3, AppendProperties
<1>5. \A r, b : Shown(r, b) => Shown(r, b)'
  <2>1. \A i \in 1..Len(text) : i \in 1..Len(text')
    BY <1>4
  <2> QED
    BY <1>4, <2>1 DEF Shown
<1>6. \A b \in 1..Bytes : sent < b /\ b <= sent + a.moved => Shown(record, b)'
  <2>1. Len(text) + 1 \in 1..Len(text')
    BY <1>4
  <2> QED
    BY <1>1, <1>3, <1>4, <2>1 DEF Shown
<1>7. \A r \in 1..record, b \in 1..Bytes : r < record \/ b <= sent' => Shown(r, b)'
  <2> SUFFICES ASSUME NEW r \in 1..record, NEW b \in 1..Bytes, r < record \/ b <= sent'
               PROVE  Shown(r, b)'
    OBVIOUS
  <2>1. CASE r < record \/ b <= sent
    BY <1>5, <2>1 DEF ShownSoFar
  <2>2. CASE ~(r < record \/ b <= sent)
    <3>1. r = record /\ sent < b /\ b <= sent + a.moved
      BY <1>1, <1>2, <2>2
    <3> QED
      BY <1>6, <3>1
  <2> QED
    BY <2>1, <2>2
<1> QED
  BY <1>2, <1>7 DEF ShownSoFar

\* The ways of a channel are counted from one, and there are none before one is chosen or
\* after all are given up.
LEMMA WaysOfChannels ==
    ASSUME NEW ch \in Channel
    PROVE  /\ DOMAIN Ways(ch) \subseteq Nat \ {0}
           /\ ch \in {"UNTRIED", "NONE"} => DOMAIN Ways(ch) = {}
<1>1. ch \in {"UNTRIED", "NONE", "KERNEL_WRITE", "PUTS", "POSIX_WRITE", "PUTCHAR"}
  BY DEF Channel, Candidates, ToSet
<1> QED
  BY <1>1 DEF Ways

LEMMA NextWhole == IInv /\ Types /\ Chosen /\ Whole /\ [Next]_vars => Whole'
<1> SUFFICES ASSUME IInv, Types, Chosen, Whole, [Next]_vars PROVE Whole'
  OBVIOUS
<1> USE DEF boot, dests
<1>t. /\ record \in Nat /\ sent \in Nat /\ Bytes \in Nat \ {0} /\ channel \in Channel
      /\ phase = "send" => Bytes - sent \in Nat \ {0}
  BY ConstantsAssumption DEF IInv, Bounds, Types, TypeOK
<1>c. ASSUME UNCHANGED <<platform, fns, late, channel>>
      PROVE  SoundInUse' => SoundInUse
  BY <1>c DEF SoundInUse, Carries, Settled, OpenWith, RawImportsOk, ResolutionWorks, KernelOpens
<1>s. ASSUME UNCHANGED <<text, record, sent>>, phase' # "idle"
      PROVE  ShownSoFar => ShownSoFar'
  BY <1>s DEF ShownSoFar, Shown
<1>1. CASE PayloadBootstrap \/ TitleBootstrap
  <2>1. record = 0 /\ record' = record /\ phase' \in {"resolve", "idle"}
    BY <1>1 DEF PayloadBootstrap, TitleBootstrap, Chosen
  <2> QED
    BY <2>1 DEF Whole, ShownSoFar
<1>2. CASE \/ WriteTee \/ SinkWrite \/ DebugOutWrite \/ SetWriteTee \/ SinkOpen
           \/ SinkClose \/ InvokeSyscall
  <2>1. UNCHANGED <<text, record, sent>> /\ (phase' # "idle" \/ phase' = phase)
    BY <1>2 DEF WriteTee, SinkWrite, DebugOutWrite, SetWriteTee, SinkOpen, SinkClose,
                InvokeSyscall
  <2>2. ShownSoFar => ShownSoFar'
    BY <2>1 DEF ShownSoFar, Shown
  <2>3. SoundInUse' => SoundInUse
    <3>1. CASE InvokeSyscall
      <4>1. Settled = fns /\ Settled' = fns /\ UNCHANGED <<platform, channel>>
        BY <3>1 DEF InvokeSyscall, Settled
      <4>2. \A way : Carries(Settled, way)' => Carries(fns, way)
        BY <4>1 DEF Carries, OpenWith, RawImportsOk, ResolutionWorks, KernelOpens
      <4> QED
        BY <4>1, <4>2 DEF SoundInUse
    <3>2. CASE ~InvokeSyscall
      BY <1>2, <1>c, <3>2
         DEF WriteTee, SinkWrite, DebugOutWrite, SetWriteTee, SinkOpen, SinkClose
    <3> QED
      BY <3>1, <3>2
  <2> QED
    BY <2>2, <2>3 DEF Whole
<1>3. CASE Write
  <2>1. /\ UNCHANGED <<platform, fns, late, channel, text>>
        /\ record' = record + 1 /\ sent' = 0
        /\ phase = "idle" /\ phase' = "tee"
    BY <1>3 DEF Write
  <2>2. ASSUME ShownSoFar
        PROVE  ShownSoFar'
    <3> SUFFICES ASSUME NEW r \in 1..(record + 1), NEW b \in 1..Bytes,
                        r < record + 1 \/ b <= 0
                 PROVE  Shown(r, b)
      BY <2>1 DEF ShownSoFar, Shown
    <3>1. r \in 1..record /\ record > 0
      BY <1>t
    <3>2. sent = Bytes
      BY <2>1, <2>2, <3>1 DEF ShownSoFar
    <3> QED
      BY <1>t, <2>2, <3>1, <3>2 DEF ShownSoFar
  <2> QED
    BY <1>c, <2>1, <2>2 DEF Whole
<1>4. CASE HostSend
  <2>1. /\ UNCHANGED <<platform, record>> /\ phase = "send" /\ platform.build = "host"
    BY <1>4 DEF HostSend
  <2>2. PICK a \in Answers(Host, Bytes - sent) :
           IF a.moved > 0 THEN Moved([way |-> Host, moved |-> a.moved, shown |-> a.shown])
                          ELSE Return
    BY <1>4 DEF HostSend
  <2>3. ASSUME platform.conduct[Host] \in Sound
        PROVE  ShownSoFar'
    <3>1. a.moved > 0 /\ a.shown = a.moved
      BY <2>2, <2>3 DEF Answers, Sound
    <3>2. a.moved \in 1..(Bytes - sent)
      BY <1>t, <2>1, <3>1, AnswersFit
    <3> DEFINE b == [way |-> Host, moved |-> a.moved, shown |-> a.shown]
    <3>3. b.way \in Way /\ b.moved \in 1..(Bytes - sent) /\ b.shown = b.moved /\ Moved(b)
      BY <2>2, <3>1, <3>2 DEF Way, Host
    <3> HIDE DEF b
    <3>4. ShownSoFar
      BY <2>1, <2>3 DEF Whole, SoundInUse, Carries, Way
    <3> QED
      BY <2>1, <3>3, <3>4, MovedShows
  <2>4. SoundInUse' => platform.conduct[Host] \in Sound
    BY <2>1 DEF SoundInUse, Carries
  <2> QED
    BY <2>3, <2>4 DEF Whole
<1>5. ASSUME platform.build # "host", channel' \in {"UNTRIED", "NONE"},
             platform' = platform
      PROVE  Whole'
  <2>1. channel' \in Channel
    BY <1>5 DEF Channel
  <2>2. \A way : ~Carries(fns, way)'
    BY <1>5, <2>1, WaysOfChannels DEF Carries
  <2> QED
    BY <2>2 DEF Whole, SoundInUse
<1>6. CASE StaySilent
  BY <1>5, <1>6 DEF StaySilent
<1>7. ASSUME NEW ch \in ToSet(Candidates), NEW a \in Send(ch, Bytes - sent), a.moved > 0,
             phase = "send", platform.build # "host", channel' = ch, Moved(a),
             UNCHANGED <<platform, fns, record>>,
             SoundInUse' => ShownSoFar
      PROVE  Whole'
  <2>1. ch \in Channel /\ ch # "UNTRIED" /\ DOMAIN Ways(ch) \subseteq Nat \ {0}
    BY WaysOfChannels DEF Channel, Candidates, ToSet
  <2>2. a.moved \in 1..(Bytes - sent) /\ a.way \in Way
    BY <1>t, <1>7, <2>1, SendFits
  <2>3. ASSUME SoundInUse'
        PROVE  ShownSoFar'
    <3>0. PICK way \in Way : Carries(fns, way)' /\ platform.conduct[way] \in Sound
      BY <1>7, <2>3 DEF SoundInUse
    <3>1. PICK i \in DOMAIN Ways(ch) :
              /\ way = Ways(ch)[i] /\ Open(way)
              /\ \A j \in 1..(i - 1) : ~Open(Ways(ch)[j])
      BY <1>7, <3>0
         DEF Carries, Open, OpenWith, RawImportsOk, ResolutionWorks, KernelOpens
    <3>2. a.shown = a.moved
      BY <1>t, <1>7, <2>1, <3>0, <3>1, FirstDelivers
    <3>3. ShownSoFar
      BY <1>7, <2>3
    <3> QED
      BY <1>7, <2>2, <3>2, <3>3, MovedShows
  <2> QED
    BY <2>3 DEF Whole
<1>8. CASE TryCandidate
  <2>1. /\ phase = "send" /\ platform.build # "host" /\ channel = "UNTRIED"
        /\ UNCHANGED <<platform, fns, record>> /\ candidate \in 1..4
        /\ Candidates[candidate] \in ToSet(Candidates)
    BY <1>8 DEF TryCandidate, Types, TypeOK, Candidates, ToSet
  <2>2. PICK a \in Send(Candidates[candidate], Bytes - sent) :
           IF a.moved > 0
           THEN channel' = Candidates[candidate] /\ Moved(a) /\ UNCHANGED candidate
           ELSE IF candidate < Len(Candidates)
           THEN candidate' = candidate + 1 /\ UNCHANGED <<channel, phase, sent, text>>
           ELSE channel' = "NONE" /\ Return /\ UNCHANGED candidate
    BY <1>8 DEF TryCandidate
  <2>3. ShownSoFar
    <3>1. record <= 1 /\ sent = 0
      BY <2>1 DEF Chosen, IInv, Choice
    <3> QED
      BY <1>t, <2>1, <3>1 DEF ShownSoFar
  <2>4. CASE a.moved > 0
    BY <1>7, <2>1, <2>2, <2>3, <2>4
  <2>5. CASE ~(a.moved > 0)
    BY <1>5, <2>1, <2>2, <2>5
  <2> QED
    BY <2>4, <2>5
<1>9. CASE SendOnChannel
  <2>1. /\ phase = "send" /\ platform.build # "host" /\ channel \in ToSet(Candidates)
        /\ UNCHANGED <<platform, fns, late, record, channel>>
    BY <1>9 DEF SendOnChannel
  <2>2. PICK a \in Send(channel, Bytes - sent) : IF a.moved > 0 THEN Moved(a) ELSE Return
    BY <1>9 DEF SendOnChannel
  <2>3. SoundInUse' => ShownSoFar
    BY <1>c, <2>1 DEF Whole
  <2>4. CASE a.moved > 0
    BY <1>7, <2>1, <2>2, <2>3, <2>4
  <2>5. CASE ~(a.moved > 0)
    <3>1. DOMAIN Ways(channel) \subseteq Nat \ {0} /\ channel # "UNTRIED"
      BY <1>t, <2>1, WaysOfChannels DEF Candidates, ToSet
    <3>2. \A way : ~(Carries(fns, way) /\ platform.conduct[way] \in Sound)
      BY <1>t, <2>1, <2>5, <3>1, FirstDelivers DEF Carries, Open
    <3> QED
      BY <1>c, <2>1, <3>2 DEF Whole, SoundInUse
  <2> QED
    BY <2>4, <2>5
<1>10. CASE UNCHANGED vars
  BY <1>c, <1>10 DEF vars, Whole, ShownSoFar, Shown
<1> QED
  BY <1>1, <1>2, <1>3, <1>4, <1>6, <1>8, <1>9, <1>10 DEF Next, Program, Sending

\* With a writer in use that takes something at each call, every byte of every record is
\* seen once obs_write has returned, the record the channel was chosen with included.
THEOREM NothingIsLost == Spec => []NothingLost
<1>1. Init => Whole /\ Chosen
  BY DEF Init, Whole, ShownSoFar, Chosen
<1>2. IInv /\ Whole => NothingLost
  <2> SUFFICES ASSUME IInv, Whole, phase = "idle", SoundInUse, NEW r \in 1..record,
                      NEW b \in 1..Bytes
               PROVE  \E c \in Chunks : c.rec = r /\ c.from <= b /\ b <= c.to
    BY DEF NothingLost, SoundInUse
  <2>1. ShownSoFar /\ record > 0 /\ DOMAIN text = 1..Len(text)
    BY DEF Whole, IInv, Bounds
  <2>2. sent = Bytes /\ b <= Bytes
    BY <2>1, ConstantsAssumption DEF ShownSoFar
  <2>3. Shown(r, b)
    BY <2>1, <2>2 DEF ShownSoFar
  <2> QED
    BY <2>1, <2>3 DEF Shown, Chunks, ToSet
<1> QED
  BY <1>1, <1>2, NextChosen, NextWhole, InitTypes, NextTypes, Invariance, PTL DEF Spec
=============================================================================
