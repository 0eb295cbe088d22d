------------------------------ MODULE Protocol ------------------------------
(***************************************************************************)
(* The command protocol: a probe that serves it (src/probe/net.c) and the  *)
(* driver that asks (run_session of tool/src/drive.rs), over one TCP       *)
(* connection.  The driver sends one command, reads until it is answered,  *)
(* and sends the next.  A command may end the probe, or never come back;   *)
(* the driver has to say which, from what it did and did not receive.      *)
(***************************************************************************)
EXTENDS Transcript, FiniteSets

CONSTANTS
    Scripts,     \* the lists of commands a driver may be given
    Conducts,    \* what commands do here: functions from Verbs to sets of Effect
    Settings,    \* where the two run: a set of Setting
    MaxSessions  \* bound: how many drivers are started, one after the other

Verbs     == {"hello", "bye", "call", "report", "blob", "long"}
Announced == {"call", "read", "report"}  \* obs_net_capabilities of the default build
Effect    == {"returns", "dies", "stays"}

\* The commands that run code of the platform.
Work == {"call", "report"}

\* admits: the secret the driver offers is the probe's, or there is none; serves: "once"
\* (host_main.c) or "again" (the loop of start.c); pipe: sending to a peer that has left
\* raises SIGPIPE, as on the host; rival: another driver may hold the connection.
Setting == [admits: BOOLEAN, serves: {"once", "again"}, pipe: BOOLEAN, rival: BOOLEAN]

ASSUME ConstantsAssumption ==
    /\ \A s \in Scripts : s \in Seq(Verbs) /\ s # <<>>
    /\ Conducts \subseteq [Work -> SUBSET Effect]
    /\ Settings \subseteq Setting /\ MaxSessions \in Nat

VARIABLES
    setting,   \* never changes
    (* the connection *)
    link,      \* "none", "queued" behind the one being served, "open", "left" by the
               \* driver, "reset" after that, or "ended" by the probe
    requests,  \* lines on their way to the probe
    replies,   \* records on their way to the driver
    (* the probe *)
    probe,     \* what the process is doing
    greeted,   \* obs_session.greeted
    lastSeq,   \* obs_session.last_seq
    cmd,       \* the command in hand
    out,       \* the records it has still to send for it
    conduct,   \* what its commands do
    (* the driver *)
    driver,    \* "idle", "ready" to send, "waiting", "done", or "failed" with an error
    script,    \* the commands it was given
    index,     \* the command it is at
    caps,      \* session_capabilities: {} until a greeting names some
    lines,     \* the records it has read
    unsent,    \* not_sent
    timedOut,  \* timed_out_at, or 0
    corpus,    \* the exchanges it wrote down
    sessions,  \* how many drivers have been started
    (* history *)
    sent,      \* the sequence numbers this driver put on the wire
    said,      \* the records this session's probe sent
    ran,       \* the commands whose work came back
    fatal      \* the commands that ended the process

wire == <<link, requests, replies>>
self == <<setting, greeted, lastSeq, cmd, conduct>>
mind == <<driver, script, index, caps, lines, unsent, timedOut, corpus, sessions, sent>>
past == <<said, ran, fatal>>
vars == <<setting, link, requests, replies, probe, greeted, lastSeq, cmd, out, conduct, driver,
          script, index, caps, lines, unsent, timedOut, corpus, sessions, sent, said,
          ran, fatal>>

Nothing == [seq |-> 0, verb |-> "long"]

Init ==
    /\ setting \in Settings
    /\ link = "none" /\ requests = <<>> /\ replies = <<>>
    /\ probe = "listening" /\ greeted = FALSE /\ lastSeq = 0
    /\ cmd = Nothing /\ out = <<>>
    /\ conduct \in Conducts
    /\ driver = "idle" /\ script \in Scripts /\ index = 1
    /\ caps = {} /\ lines = <<>> /\ unsent = {} /\ timedOut = 0
    /\ corpus = {} /\ sessions = 0
    /\ sent = {} /\ said = <<>> /\ ran = {} /\ fatal = {}

-----------------------------------------------------------------------------
(* The probe. *)

\* obs_net_serve: one connection, with a session of its own.  It may be that of a driver
\* that has given up waiting and left its command behind.
Accept ==
    /\ probe = "listening" /\ link \in {"queued", "left"}
    /\ link' = IF link = "queued" THEN "open" ELSE "left"
    /\ probe' = "reading"
    /\ greeted' = FALSE /\ lastSeq' = 0
    /\ UNCHANGED <<setting, requests, replies, cmd, out, conduct, mind, past>>

\* One line.  A line over the limit is refused under sequence 0 and ends the session;
\* a sequence number that does not increase is refused without an acknowledgement.
ReadLine ==
    /\ probe = "reading" /\ link \in {"open", "left"} /\ requests # <<>>
    /\ requests' = Tail(requests)
    /\ LET line == Head(requests)
       IN  IF line.verb = "long"
           THEN /\ out' = <<Refused(0)>> /\ cmd' = Nothing /\ probe' = "parting"
                /\ UNCHANGED lastSeq
           ELSE IF line.seq <= lastSeq
           THEN /\ out' = <<Refused(line.seq)>> /\ probe' = "replying"
                /\ UNCHANGED <<cmd, lastSeq>>
           ELSE /\ out' = <<Ack(line.seq)>> /\ probe' = "acking"
                /\ cmd' = line /\ lastSeq' = line.seq
    /\ UNCHANGED <<setting, link, replies, greeted, conduct, mind, past>>

\* Mutant: a failed read is tried again.
ReadEndRetries ==
    /\ probe = "reading"
    /\ link = "left" /\ requests = <<>>
    /\ probe' = "closing"
    /\ UNCHANGED <<wire, self, out, mind, past>>

\* The driver has left and every line it sent is read, or reading fails.
ReadEnd ==
    /\ probe = "reading"
    /\ (link = "left" /\ requests = <<>>) \/ link = "reset"
    /\ probe' = "closing"
    /\ UNCHANGED <<wire, self, out, mind, past>>

\* Mutant: the refusal of an ungreeted command falls through to its handler.
DispatchFallsThrough ==
    /\ probe = "running" /\ (cmd.verb \notin Work \/ ~greeted)
    /\ greeted' = (greeted \/ (cmd.verb = "hello" /\ setting.admits))
    /\ probe' = IF greeted /\ cmd.verb = "bye" THEN "parting" ELSE "replying"
    /\ out' = IF cmd.verb = "hello" /\ setting.admits
              THEN <<Greeting(Announced), Done(cmd.seq)>>
              ELSE IF cmd.verb = "bye"
              THEN (IF greeted THEN <<>> ELSE <<Refused(cmd.seq)>>) \o <<Done(cmd.seq)>>
              ELSE <<Refused(cmd.seq)>>
    /\ UNCHANGED <<setting, wire, lastSeq, cmd, conduct, mind, past>>

\* The verbs that do no work of the platform: the greeting, the farewell, and what
\* this build refuses.
Dispatch ==
    /\ probe = "running" /\ (cmd.verb \notin Work \/ ~greeted)
    /\ greeted' = (greeted \/ (cmd.verb = "hello" /\ setting.admits))
    /\ probe' = IF greeted /\ cmd.verb = "bye" THEN "parting" ELSE "replying"
    /\ out' = IF cmd.verb = "hello" /\ setting.admits
              THEN <<Greeting(Announced), Done(cmd.seq)>>
              ELSE IF greeted /\ cmd.verb = "bye"
              THEN <<Done(cmd.seq)>>
              ELSE <<Refused(cmd.seq)>>
    /\ UNCHANGED <<setting, wire, lastSeq, cmd, conduct, mind, past>>

\* The process is gone, and its end of the connection with it.
Die ==
    /\ probe' = "dead"
    /\ link' = IF link \in {"open", "queued"} THEN "ended" ELSE "none"
    /\ UNCHANGED <<requests, replies, said>>

\* obs_net_backend_send.  `then` is where the probe goes after a send that worked, `else`
\* after one that failed.  The first send to a peer that has left may still work; it
\* draws a reset, and the next one fails, where the signal does not end the process.
Send(r, then, else) ==
    \/ /\ link = "open"
       /\ replies' = Append(replies, r)
       /\ said' = Append(said, r)
       /\ probe' = then
       /\ UNCHANGED <<link, requests>>
    \/ /\ link = "left"
       /\ link' = "reset"
       /\ probe' \in {then, else}
       /\ UNCHANGED <<requests, replies, said>>
    \/ /\ link = "reset" /\ ~setting.pipe
       /\ probe' = else
       /\ UNCHANGED <<wire, said>>
    \/ /\ link = "reset" /\ setting.pipe
       /\ Die

SendAck ==
    /\ probe = "acking"
    /\ Send(Head(out), "running", "closing")
    /\ out' = <<>>
    /\ UNCHANGED <<self, mind, ran, fatal>>

\* One record of the reply.  After the last one the probe reads on, or leaves if this
\* was the farewell or a line it could not take.
Reply ==
    /\ probe \in {"replying", "parting"}
    /\ Send(Head(out),
            IF Tail(out) # <<>> THEN probe
            ELSE IF probe = "parting" THEN "closing" ELSE "reading",
            "closing")
    /\ out' = Tail(out)
    /\ UNCHANGED <<self, mind, ran, fatal>>

\* obs_run_all with the tee in place, to the end of its first record: obs_net_tee
\* swallows a send that fails.
SuiteRecord ==
    /\ probe = "running" /\ greeted /\ cmd.verb = "report"
    /\ Send(Data(cmd.seq), "suite", "suite")
    /\ UNCHANGED <<self, out, mind, ran, fatal>>

\* The command's work comes back, ends the process, or does neither.
Perform ==
    /\ \/ probe = "running" /\ greeted /\ cmd.verb = "call"
       \/ probe = "suite"
    /\ \/ /\ "returns" \in conduct[cmd.verb]
          /\ ran' = ran \cup {cmd.seq}
          /\ out' = <<Done(cmd.seq)>>
          /\ probe' = "replying"
          /\ UNCHANGED <<wire, said, fatal>>
       \/ /\ "dies" \in conduct[cmd.verb]
          /\ fatal' = fatal \cup {cmd.seq}
          /\ Die
          /\ UNCHANGED <<ran, out>>
       \/ /\ "stays" \in conduct[cmd.verb]
          /\ probe' = "stuck"
          /\ UNCHANGED <<wire, out, said, ran, fatal>>
    /\ UNCHANGED <<self, mind>>

\* The connection and the listener are closed; whoever waits in the backlog is reset.
Close ==
    /\ probe = "closing"
    /\ probe' = IF setting.serves = "again" THEN "listening" ELSE "over"
    /\ link' = IF link = "open" THEN "ended" ELSE "none"
    /\ out' = <<>>
    /\ UNCHANGED <<requests, replies, self, mind, past>>

\* Another driver is served, start to end.
RivalComes ==
    /\ setting.rival /\ probe = "listening" /\ link = "none"
    /\ probe' = "elsewhere"
    /\ UNCHANGED <<wire, self, out, mind, past>>

RivalLeaves ==
    /\ probe = "elsewhere"
    /\ probe' = IF setting.serves = "again" THEN "listening" ELSE "over"
    /\ link' = CASE link = "queued" -> "ended"
                 [] link = "left"   -> "none"
                 [] OTHER           -> link
    /\ UNCHANGED <<requests, replies, self, out, mind, past>>

\* Whatever restarts a probe is outside the protocol.  A probe that is stuck in a
\* command is ended first, which is put down to the command.
Restart ==
    /\ probe \in {"dead", "over", "stuck"}
    /\ probe' = "listening" /\ out' = <<>>
    /\ fatal' = IF probe = "stuck" THEN fatal \cup {cmd.seq} ELSE fatal
    /\ link' = CASE link \in {"open", "queued"} -> "ended"
                 [] link \in {"left", "reset"}  -> "none"
                 [] OTHER                       -> link
    /\ UNCHANGED <<requests, replies, self, mind, said, ran>>

Probe ==
    \/ Accept \/ ReadLine \/ ReadEnd \/ Dispatch \/ SendAck \/ Reply \/ SuiteRecord
    \/ Perform \/ Close

-----------------------------------------------------------------------------
(* The driver. *)

\* A driver starts on its list and connects; where nobody listens it fails.
Start ==
    /\ driver \in {"idle", "done", "failed"} /\ sessions < MaxSessions
    /\ link = "none" /\ probe \in {"listening", "elsewhere", "dead", "over"}
    /\ sessions' = sessions + 1
    /\ script' \in Scripts /\ index' = 1
    /\ caps' = {} /\ lines' = <<>> /\ unsent' = {} /\ timedOut' = 0 /\ corpus' = {}
    /\ sent' = {} /\ said' = <<>> /\ ran' = {} /\ fatal' = {}
    /\ requests' = <<>> /\ replies' = <<>>
    /\ IF probe \in {"listening", "elsewhere"}
       THEN driver' = "ready" /\ link' = "queued"
       ELSE driver' = "failed" /\ UNCHANGED link
    /\ UNCHANGED <<probe, self, out>>

\* verb_capability: `run` needs `blob`; every other verb here needs its own name.
MayAsk(verb) == caps = {} \/ verb \in {"hello", "bye"} \cup caps

\* The driver's side is closed, with whatever had not been read.
Leave ==
    /\ link' = IF link = "ended" THEN "none" ELSE "left"
    /\ replies' = <<>>

\* run_session after its loop, and the corpus it returns.
Conclude(closed, late) ==
    /\ driver' = "done"
    /\ timedOut' = late
    /\ corpus' =
          {IF e.seq = late /\ e.outcome = "lost" THEN [e EXCEPT !.outcome = "timeout"] ELSE e
              : e \in ParseSession(lines, closed)}
          \cup {[seq |-> n, outcome |-> "not-sent", records |-> {}] : n \in unsent}
    /\ Leave

Fail ==
    /\ driver' = "failed"
    /\ Leave
    /\ UNCHANGED <<timedOut, corpus>>

\* The command is not one the probe announced: it is written down as not sent.
Skip ==
    /\ driver = "ready" /\ index <= Len(script)
    /\ ~MayAsk(script[index])
    /\ unsent' = unsent \cup {index}
    /\ index' = index + 1
    /\ UNCHANGED <<wire, probe, self, out, driver, script, caps, lines, timedOut, corpus,
                   sessions, sent, past>>

\* A write into a connection the probe has closed fails, or is lost with the rest.
Ask ==
    /\ driver = "ready" /\ index <= Len(script)
    /\ MayAsk(script[index])
    /\ \/ /\ requests' = Append(requests, [seq |-> index, verb |-> script[index]])
          /\ sent' = sent \cup {index}
          /\ driver' = "waiting"
          /\ UNCHANGED <<link, replies, timedOut, corpus>>
       \/ /\ link = "ended"
          /\ Fail
          /\ UNCHANGED <<requests, sent>>
    /\ UNCHANGED <<probe, self, out, script, index, caps, lines, unsent, sessions, past>>

\* Mutant: every record counts as the answer to one command.
ReceiveCounts ==
    /\ driver = "waiting" /\ replies # <<>>
    /\ LET r == Head(replies)
       IN  /\ lines' = Append(lines, r)
           /\ caps' = IF r.kind = "hello" THEN r.caps ELSE caps
           /\ driver' = IF Terminal(r) THEN "ready" ELSE driver
    /\ index' = index + 1
    /\ replies' = Tail(replies)
    /\ UNCHANGED <<link, requests, probe, self, out, script, unsent, timedOut, corpus,
                   sessions, sent, past>>

\* A record arrives.  Any answer ends the wait, whatever its sequence number.
Receive ==
    /\ driver = "waiting" /\ replies # <<>>
    /\ LET r == Head(replies)
       IN  /\ lines' = Append(lines, r)
           /\ caps' = IF r.kind = "hello" THEN r.caps ELSE caps
           /\ IF Terminal(r)
              THEN driver' = "ready" /\ index' = index + 1
              ELSE UNCHANGED <<driver, index>>
    /\ replies' = Tail(replies)
    /\ UNCHANGED <<link, requests, probe, self, out, script, unsent, timedOut, corpus,
                   sessions, sent, past>>

\* The connection ends under the driver: read as its end, or as an error where the
\* probe left something unread.
Ended ==
    /\ driver = "waiting" /\ replies = <<>> /\ link = "ended"
    /\ \/ Conclude(TRUE, 0)
       \/ requests # <<>> /\ Fail
    /\ UNCHANGED <<requests, probe, self, out, script, index, caps, lines, unsent, sessions,
                   sent, past>>

\* Mutant: only a connection that was accepted times out.
TimeoutWhenOpen ==
    /\ driver = "waiting" /\ replies = <<>> /\ link = "open"
    /\ Conclude(FALSE, index)
    /\ UNCHANGED <<requests, probe, self, out, script, index, caps, lines, unsent, sessions,
                   sent, past>>

\* The budget runs out with the connection still there.
Timeout ==
    /\ driver = "waiting" /\ replies = <<>> /\ link # "ended"
    /\ Conclude(FALSE, index)
    /\ UNCHANGED <<requests, probe, self, out, script, index, caps, lines, unsent, sessions,
                   sent, past>>

Complete ==
    /\ driver = "ready" /\ index > Len(script)
    /\ Conclude(FALSE, 0)
    /\ UNCHANGED <<requests, probe, self, out, script, index, caps, lines, unsent, sessions,
                   sent, past>>

Driver == Skip \/ Ask \/ Receive \/ Ended \/ Timeout \/ Complete

Next == Probe \/ RivalComes \/ RivalLeaves \/ Restart \/ Driver \/ Start

Spec == Init /\ [][Next]_vars

\* The probe's loop and the driver's are prompt, and a read that never gets its record
\* runs into the budget (set_read_timeout).  Nothing is assumed of a rival, of what
\* restarts a probe, or of who starts a driver.
FairSpec == Spec /\ WF_vars(Probe) /\ WF_vars(Driver)

-----------------------------------------------------------------------------
(* Properties. *)

Record == [kind: {"ack", "done", "refused"}, seq: Nat]
          \cup [kind: {"hello"}, caps: {Announced}] \cup [kind: {"data"}, of: Nat]

\* All but the corpus, which is what a fold makes of the lines.
Types ==
    /\ setting \in Settings
    /\ link \in {"none", "queued", "open", "left", "reset", "ended"}
    /\ requests \in Seq([seq: Nat, verb: Verbs]) /\ replies \in Seq(Record)
    /\ probe \in {"listening", "reading", "acking", "running", "suite", "replying",
                  "parting", "closing", "stuck", "dead", "over", "elsewhere"}
    /\ greeted \in BOOLEAN /\ lastSeq \in Nat
    /\ cmd \in [seq: Nat, verb: Verbs] /\ out \in Seq(Record)
    /\ conduct \in Conducts
    /\ driver \in {"idle", "ready", "waiting", "done", "failed"}
    /\ script \in Scripts /\ index \in 1..(Len(script) + 1)
    /\ caps \in {{}, Announced} /\ lines \in Seq(Record)
    /\ unsent \subseteq Nat /\ timedOut \in Nat
    /\ sessions \in 0..MaxSessions
    /\ sent \subseteq Nat /\ said \in Seq(Record) /\ ran \subseteq Nat /\ fatal \subseteq Nat

TypeOK == Types /\ corpus \subseteq Exchange

Over == driver = "done"
Said(outcome) == {e.seq : e \in {x \in corpus : x.outcome = outcome}}

\* "A command that did not answer is never recorded as having answered" (drive.rs:16):
\* an answer in the corpus to a command that does work is that work having come back.
AnswersAreReal ==
    \A n \in Said("answered") : script[n] \in Work => n \in ran

\* "died": the command ended the process (PROTOCOL.md, Non-answers), or was in it when
\* it was ended for not coming back; never one whose answer was only late.
DiedIsDeath == Said("died") \subseteq fatal

\* A command whose acknowledgement arrived has exactly one line in the corpus, whatever
\* became of it (drive.rs: "An entry still here at the end was acknowledged and never
\* answered, which is the case this whole module exists for").
AcknowledgedAreWritten ==
    Over => \A i \in DOMAIN lines :
                lines[i].kind = "ack" =>
                    Cardinality({e \in corpus : e.seq = lines[i].seq}) = 1

\* "Every command produces exactly one ack and then exactly one done or refused"
\* (PROTOCOL.md:87): never a second of either, and no answer before the ack.
OneAnswerEach ==
    \A i, j \in DOMAIN said :
        (said[i].kind # "hello" /\ Terminal(said[j]) /\ said[j].seq # 0) =>
            /\ Terminal(said[i]) /\ said[i].seq = said[j].seq => i = j
            /\ said[i] = Ack(said[j].seq) => i < j
            /\ \E k \in 1..(j - 1) : said[k] = Ack(said[j].seq)

\* A driver always comes to an end (drive.rs: "A read timeout is the only way this end
\* can observe a command that has not come back").
DriverEnds == driver \in {"ready", "waiting"} ~> driver \in {"done", "failed"}

\* A probe that serves in a loop is there for the next driver (start.c:274), where no
\* command keeps it or ends it and a driver that leaves does not take it along.
Undisturbed ==
    setting.serves = "again" /\ ~setting.pipe /\ \A w \in Work : conduct[w] = {"returns"}
ServesAgain == Undisturbed => []<>(probe \in {"listening", "elsewhere"})
=============================================================================
