------------------------------- MODULE Output -------------------------------
(***************************************************************************)
(* Which way the report goes out: src/probe/runtime.c, obs_write and what  *)
(* it calls, from the entry point that resolves the writers                *)
(* (src/probe/start.c) to the last record.                                 *)
(*                                                                         *)
(* A record goes to the tee, the files and the system log, and then to one *)
(* text channel, chosen with the first record by trying the candidates on  *)
(* its own bytes and kept for the life of the process.  Some writers only  *)
(* claim to have written: a call may report bytes that nobody sees.  The   *)
(* files (src/probe/sink.c) are open for a part of the life of the process *)
(* and each may fail at any record.                                        *)
(* Records are shorter than the 512 bytes at which the copies are clipped. *)
(***************************************************************************)
EXTENDS Integers, Sequences, SequencesExt

CONSTANTS
    Platforms,  \* where the program may run: records, see Platform
    Records,    \* bound: how many records the run writes
    Bytes       \* bytes of a record, the last of which ends the line

\* What the code may call to move bytes: pointers the entry point resolves by name,
\* the raw imports of the image, and the host's write.
Resolved == {"s_fn_write", "s_fn_debug_out", "syscall_gadget"}
Imports  == {"sceKernelWrite", "sceKernelDebugOutText", "puts", "write", "putchar"}
Host     == "host_write"
Way      == Resolved \cup Imports \cup {Host}

Writers  == Way \ {Host, "sceKernelDebugOutText"}

\* A writer takes everything, takes something each time, takes the first record and no
\* more, or does as it likes.
Conduct == {"works", "short", "gone", "any"}
Sound   == {"works", "short"}

\* obs_sink_fd and obs_sink_ts_fd: the snapshot that the next run reads, and the archive.
Sink == {"snapshot", "archive"}

Platform == [build: {"host", "module", "eboot", "payload"},
             gen: {4, 5},                 \* OBSCENE_GEN
             \* payload_args: none, without kexport_table, without one but with kernel
             \* access, by which the entry point dumps one, or with it
             args: {"none", "plain", "dumped", "table"},
             unsafe: BOOLEAN,             \* OBS_UNSAFE_LIBRARIES names libkernel
             files: SUBSET Sink,          \* the sinks that find a path they can open
             resolves: SUBSET Resolved,   \* what the platform resolves by name
             binds: SUBSET Imports,       \* the imports that look callable
             conduct: [Way -> Conduct]]

ASSUME ConstantsAssumption ==
    /\ Platforms \subseteq Platform
    /\ Records \in Nat /\ Bytes \in Nat \ {0, 1}

VARIABLES
    platform,       \* never changes
    phase,          \* "entry", "resolve", "idle", and inside obs_write: "tee", "file",
                    \* "log", "send"
    fns,            \* the pointers that are not null, s_libkernel_syscall_gadget among them
    bootstrapped,   \* obs_payload_output_bootstrapped
    late,           \* the gadget was set by a check, after the channel was chosen
    tried, sinks,   \* obs_sink_tried, and the descriptors that are open
    since,          \* history: the records written before the sinks were opened
    tee,            \* obs_write_tee is set
    channel,        \* obs_output_channel
    candidate,      \* the loop variable of the selection
    record, sent,   \* the record being written and how much of it has gone
    teed, logged,   \* the records these destinations were given
    filed,          \* what each file got: of every record written to it, whether whole
    text            \* what a reader sees on the text channel: chunks [way, rec, from, to]

boot  == <<platform, fns, bootstrapped, late>>
files == <<tried, sinks, since, filed>>
dests == <<teed, logged>>
vars  == <<platform, phase, fns, bootstrapped, late, tried, sinks, since, tee, channel,
           candidate, record, sent, teed, logged, filed, text>>

-----------------------------------------------------------------------------
\* obs_module_open("libkernel") answers 0x2001 when nothing else knew the library, so
\* it fails only where the build calls libkernel unsafe.
KernelOpens == ~platform.unsafe

\* obs_module_resolution_works
ResolutionWorks == platform.args \in {"dumped", "table"} \/ KernelOpens

\* OBS_RAW_IMPORT_CHANNELS_OK
RawImportsOk == platform.build # "eboot" /\ ~ResolutionWorks

\* Mutant: the last resort is left out.
CandidatesThatCount == <<"KERNEL_WRITE", "PUTS", "POSIX_WRITE">>

\* The candidates in order, and the ways each of them tries in turn.
Candidates == <<"KERNEL_WRITE", "PUTS", "POSIX_WRITE", "PUTCHAR">>

Channel == {"UNTRIED", "NONE"} \cup ToSet(Candidates)

Ways(ch) ==
    CASE ch = "KERNEL_WRITE" -> <<"s_fn_write", "s_fn_debug_out", "syscall_gadget",
                                  "sceKernelWrite">>
      [] ch = "PUTS"         -> <<"puts">>
      [] ch = "POSIX_WRITE"  -> <<"write">>
      [] ch = "PUTCHAR"      -> <<"putchar">>
      [] OTHER               -> <<>>

\* A pointer must be set; a raw import must be permitted and look callable.
OpenWith(pointers, way) == IF way \in Resolved THEN way \in pointers
                           ELSE RawImportsOk /\ way \in platform.binds

Open(way) == OpenWith(fns, way)

\* The pointers the channel was chosen with.
Settled == IF late THEN fns \ {"syscall_gadget"} ELSE fns

\* What a way may report of n bytes: debug output has no count to report, puts and the
\* system call take all or nothing, putchar takes one.
Counts(way, n) ==
    IF way = "s_fn_debug_out" THEN {n}
    ELSE IF way = "putchar" THEN {0, 1}
    ELSE IF way \in {"puts", "syscall_gadget"} THEN {0, n}
    ELSE 0..n

\* What one call may do: [moved] is what the code believes went out, [shown] what a
\* reader sees of it, which is nothing when the writer only claims.
Answers(way, n) ==
    LET c     == platform.conduct[way]
        most  == IF way = "putchar" THEN 1 ELSE n
        takes == {k \in Counts(way, n) :
                     /\ c \in Sound => k > 0
                     /\ c = "works" => k = most
                     /\ c = "gone" /\ way # "s_fn_debug_out" => (k > 0 <=> record = 1)}
    IN {[moved |-> k, shown |-> k] : k \in takes}
       \cup (IF c = "any" THEN {[moved |-> most, shown |-> 0]} ELSE {})

MayRefuse(way, n) == \E a \in Answers(way, n) : a.moved = 0

\* The ways of a channel the code may come to: an open one after others that refuse.
Reached(ch, n) ==
    LET ways == Ways(ch)
    IN {ways[i] : i \in {i \in DOMAIN ways :
            /\ Open(ways[i])
            /\ \A j \in 1..(i - 1) : Open(ways[j]) => MayRefuse(ways[j], n)}}

\* What moves something by one way.
Through(way, n) ==
    {[way |-> way, moved |-> a.moved, shown |-> a.shown] :
        a \in {b \in Answers(way, n) : b.moved > 0}}

Refused == [way |-> "none", moved |-> 0, shown |-> 0]

\* obs_send: the first of the channel's ways that moves anything, or nothing when every
\* open way refused.
Send(ch, n) ==
    (UNION {Through(way, n) : way \in Reached(ch, n)}) \cup
    (IF \A way \in ToSet(Ways(ch)) : Open(way) => MayRefuse(way, n) THEN {Refused} ELSE {})

-----------------------------------------------------------------------------
Init ==
    /\ platform \in Platforms
    /\ phase = "entry"
    /\ fns = {} /\ bootstrapped = FALSE /\ late = FALSE /\ tee = FALSE
    /\ tried = FALSE /\ sinks = {} /\ since = 0 /\ filed = [s \in Sink |-> <<>>]
    /\ channel = "UNTRIED" /\ candidate = 1
    /\ record = 0 /\ sent = 0
    /\ teed = {} /\ logged = {} /\ text = <<>>

\* obs_bootstrap_payload_output, when the entry point was handed arguments: everything
\* is resolved through them, and the gadget is libkernel's getpid even if nothing is.
PayloadBootstrap ==
    /\ phase = "entry"
    /\ phase' = "resolve"
    /\ IF platform.args = "none" \/ platform.build = "host"
       THEN UNCHANGED <<fns, bootstrapped, tee>>
       ELSE /\ fns' = platform.resolves \cup
                          (IF platform.args # "table" THEN {"syscall_gadget"} ELSE {})
            /\ bootstrapped' = TRUE
            /\ tee' = FALSE
    /\ UNCHANGED <<platform, late, files, channel, candidate, record, sent, dests, text>>

\* obs_bootstrap_title_output: nothing after the other one, or where libkernel does not
\* open; otherwise each null pointer is filled.
TitleBootstrap ==
    /\ phase = "resolve"
    /\ phase' = "idle"
    /\ fns' = IF bootstrapped \/ ~KernelOpens \/ platform.build = "host" THEN fns
              ELSE fns \cup platform.resolves
    /\ UNCHANGED <<platform, bootstrapped, late, files, tee, channel, candidate, record,
                   sent, dests, text>>

\* obs_set_write_tee, by a command that wants the records and when it is done.
SetWriteTee ==
    /\ phase = "idle" /\ record < Records
    /\ tee' = ~tee
    /\ UNCHANGED <<boot, files, phase, channel, candidate, record, sent, dests, text>>

\* obs_sink_open, by the first run and not again by a second: each sink takes the first
\* of its paths that opens.
SinkOpen ==
    /\ phase = "idle" /\ ~tried
    /\ tried' = TRUE /\ sinks' = platform.files /\ since' = record
    /\ UNCHANGED <<boot, phase, tee, channel, candidate, record, sent, dests, filed, text>>

\* obs_sink_close, when the run is over.
SinkClose ==
    /\ phase = "idle" /\ sinks # {}
    /\ sinks' = {}
    /\ UNCHANGED <<boot, phase, tried, since, tee, channel, candidate, record, sent, dests,
                   filed, text>>

\* obs_invoke_syscall, called by a check: on a newer generation a null gadget is set to
\* the fixed address, whatever the output settled on before.
InvokeSyscall ==
    /\ phase = "idle" /\ record > 0
    /\ platform.gen = 5 /\ platform.build # "host" /\ "syscall_gadget" \notin fns
    /\ fns' = fns \cup {"syscall_gadget"} /\ late' = TRUE
    /\ UNCHANGED <<platform, bootstrapped, files, phase, tee, channel, candidate, record,
                   sent, dests, text>>

\* obs_write is called with the next record: the tee first,
Write ==
    /\ phase = "idle" /\ record < Records
    /\ record' = record + 1 /\ sent' = 0
    /\ phase' = "tee"
    /\ UNCHANGED <<boot, files, tee, channel, candidate, dests, text>>

WriteTee ==
    /\ phase = "tee"
    /\ teed' = IF tee THEN teed \cup {record} ELSE teed
    /\ phase' = "file"
    /\ UNCHANGED <<boot, files, tee, channel, candidate, record, sent, logged, text>>

\* Mutant: a snapshot that fails keeps the record from the archive.
SinkWriteStops ==
    /\ phase = "file"
    /\ \E whole \in SUBSET sinks :
          LET stops   == "snapshot" \in sinks \ whole
              written == IF stops THEN {"snapshot"} ELSE sinks
          IN  /\ sinks' = IF stops THEN sinks \ {"snapshot"} ELSE whole
              /\ filed' = [s \in Sink |->
                     IF s \in written
                     THEN Append(filed[s], [rec |-> record, whole |-> s \in whole])
                     ELSE filed[s]]
    /\ phase' = "log"
    /\ UNCHANGED <<boot, tried, since, tee, channel, candidate, record, sent, dests, text>>

\* the files next: a write that takes nothing ends the record there and closes that file
\* for good, and the other goes on,
SinkWrite ==
    /\ phase = "file"
    /\ \E whole \in SUBSET sinks :
          /\ sinks' = whole
          /\ filed' = [s \in Sink |->
                 IF s \in sinks
                 THEN Append(filed[s], [rec |-> record, whole |-> s \in whole])
                 ELSE filed[s]]
    /\ phase' = "log"
    /\ UNCHANGED <<boot, tried, since, tee, channel, candidate, record, sent, dests, text>>

\* and the system log: gadget, pointer or raw import, whatever it answers.
DebugOutWrite ==
    /\ phase = "log"
    /\ LET way == CASE platform.build = "host"      -> "none"
                    [] "syscall_gadget" \in fns     -> "syscall_gadget"
                    [] "s_fn_debug_out" \in fns     -> "s_fn_debug_out"
                    [] "sceKernelDebugOutText" \in platform.binds -> "sceKernelDebugOutText"
                    [] OTHER                        -> "none"
       IN logged' = IF way # "none" THEN logged \cup {record} ELSE logged
    /\ candidate' = 1
    /\ phase' = "send"
    /\ UNCHANGED <<boot, files, tee, channel, record, sent, teed, text>>

-----------------------------------------------------------------------------
\* Mutant: a short write is taken from the start of the record again.
MovedFromTheStart(a) ==
    /\ sent' = a.moved
    /\ phase' = IF sent' < Bytes THEN "send" ELSE "idle"
    /\ text' = IF a.shown = 0 THEN text
               ELSE Append(text, [way |-> a.way, rec |-> record, from |-> 1,
                                  to |-> a.shown])

\* The bytes a call moved are gone; obs_write returns after the last of them.
Moved(a) ==
    /\ sent' = sent + a.moved
    /\ phase' = IF sent' < Bytes THEN "send" ELSE "idle"
    /\ text' = IF a.shown = 0 THEN text
               ELSE Append(text, [way |-> a.way, rec |-> record, from |-> sent + 1,
                                  to |-> sent + a.shown])

Return == phase' = "idle" /\ UNCHANGED <<sent, text>>

\* The host's loop.
HostSend ==
    /\ phase = "send" /\ platform.build = "host"
    /\ \E a \in Answers(Host, Bytes - sent) :
           IF a.moved > 0 THEN Moved([way |-> Host, moved |-> a.moved, shown |-> a.shown])
                          ELSE Return
    /\ UNCHANGED <<boot, files, tee, channel, candidate, record, dests>>

\* Nothing ever worked: do not try again.
StaySilent ==
    /\ phase = "send" /\ platform.build # "host" /\ channel = "NONE"
    /\ Return
    /\ UNCHANGED <<boot, files, tee, channel, candidate, record, dests>>

\* The next candidate is tried with the real bytes; the first that moves some is kept.
TryCandidate ==
    /\ phase = "send" /\ platform.build # "host" /\ channel = "UNTRIED"
    /\ \E a \in Send(Candidates[candidate], Bytes - sent) :
           IF a.moved > 0
           THEN channel' = Candidates[candidate] /\ Moved(a) /\ UNCHANGED candidate
           ELSE IF candidate < Len(Candidates)
           THEN candidate' = candidate + 1 /\ UNCHANGED <<channel, phase, sent, text>>
           ELSE channel' = "NONE" /\ Return /\ UNCHANGED candidate
    /\ UNCHANGED <<boot, files, tee, record, dests>>

\* Mutants: a channel that stops is replaced by another, is called once a record, or is
\* called until it moves something.
SendOrReselect ==
    /\ phase = "send" /\ platform.build # "host" /\ channel \in ToSet(Candidates)
    /\ \E a \in Send(channel, Bytes - sent) :
           IF a.moved > 0 THEN Moved(a) /\ UNCHANGED <<channel, candidate>>
           ELSE channel' = "UNTRIED" /\ candidate' = 1 /\ UNCHANGED <<phase, sent, text>>
    /\ UNCHANGED <<boot, files, tee, record, dests>>

SendOnce ==
    /\ phase = "send" /\ platform.build # "host" /\ channel \in ToSet(Candidates)
    /\ \E a \in Send(channel, Bytes - sent) :
           /\ sent' = sent + a.moved /\ phase' = "idle"
           /\ text' = IF a.shown = 0 THEN text
                      ELSE Append(text, [way |-> a.way, rec |-> record, from |-> sent + 1,
                                         to |-> sent + a.shown])
    /\ UNCHANGED <<boot, files, tee, channel, candidate, record, dests>>

SendUntilMoved ==
    /\ phase = "send" /\ platform.build # "host" /\ channel \in ToSet(Candidates)
    /\ \E a \in Send(channel, Bytes - sent) :
           IF a.moved > 0 THEN Moved(a) ELSE UNCHANGED <<phase, sent, text>>
    /\ UNCHANGED <<boot, files, tee, channel, candidate, record, dests>>

\* The chosen channel, until the record is out or nothing moves.
SendOnChannel ==
    /\ phase = "send" /\ platform.build # "host" /\ channel \in ToSet(Candidates)
    /\ \E a \in Send(channel, Bytes - sent) : IF a.moved > 0 THEN Moved(a) ELSE Return
    /\ UNCHANGED <<boot, files, tee, channel, candidate, record, dests>>

Sending == HostSend \/ StaySilent \/ TryCandidate \/ SendOnChannel

Program == \/ PayloadBootstrap \/ TitleBootstrap
           \/ Write \/ WriteTee \/ SinkWrite \/ DebugOutWrite \/ Sending

Next == Program \/ SetWriteTee \/ SinkOpen \/ SinkClose \/ InvokeSyscall

Spec == Init /\ [][Next]_vars

\* The program goes on as long as the calls it makes return.
FairSpec == Spec /\ WF_vars(Program)

-----------------------------------------------------------------------------
Chunk == [way: Way, rec: 1..Records, from: 1..Bytes, to: 1..Bytes]

Entry == [rec: 1..Records, whole: BOOLEAN]

\* Every variable has a value the code can give it.
TypeOK ==
    /\ platform \in Platform
    /\ phase \in {"entry", "resolve", "idle", "tee", "file", "log", "send"}
    /\ fns \subseteq Resolved /\ bootstrapped \in BOOLEAN /\ tee \in BOOLEAN
    /\ late \in BOOLEAN /\ tried \in BOOLEAN /\ sinks \subseteq Sink
    /\ since \in 0..record /\ filed \in [Sink -> Seq(Entry)]
    /\ channel \in Channel /\ candidate \in 1..4
    /\ record \in 0..Records /\ sent \in 0..Bytes
    /\ teed \subseteq 1..record /\ logged \subseteq 1..record
    /\ text \in Seq(Chunk)

Chunks == ToSet(text)

\* What a reader sees on the text channel is never out of order and nothing is in it
\* twice, across short writes, failed candidates and writers that only claim: obs_write
\* sends each candidate the bytes that are left and counts what each call moved.
InOrder ==
    /\ \A c \in Chunks : c.from <= c.to
    /\ \A i \in DOMAIN text : i > 1 =>
           \/ text[i - 1].rec < text[i].rec
           \/ text[i - 1].rec = text[i].rec /\ text[i - 1].to < text[i].from

\* Every byte a reader sees came through one channel, the one the report names in its
\* last record: exactly one is chosen and it is chosen once.
OneWayOut ==
    platform.build # "host" =>
        \A c \in Chunks : c.way \in ToSet(Ways(channel))

\* puts ends the line itself, so what goes through it is a whole record, never the
\* rest of one that another channel began.
PutsTakesWholeRecords ==
    \A c \in Chunks : c.way = "puts" => c.from = 1 /\ c.to = Bytes

\* Announce before attempting: a call that never comes back cannot cost a record that
\* shows on the text channel (sink.c:20-30).  Each file has every record from the one it
\* was opened with up to its last, none left out and nothing after one that was cut
\* short; a file that has not failed has all that a reader has seen since; and so has the
\* driver, of the record in hand.
DurableFirst ==
    /\ \A s \in Sink : \A i \in DOMAIN filed[s] :
           filed[s][i].rec = since + i /\ (i < Len(filed[s]) => filed[s][i].whole)
    /\ \A c \in Chunks :
           /\ \A s \in sinks : c.rec > since =>
                  \E i \in DOMAIN filed[s] : filed[s][i] = [rec |-> c.rec, whole |-> TRUE]
           /\ tee /\ phase # "idle" /\ c.rec = record => c.rec \in teed

\* The first of the ways of the channel in use that is open with these pointers.
Carries(pointers, way) ==
    IF platform.build = "host" THEN way = Host
    ELSE \E i \in DOMAIN Ways(channel) :
             /\ way = Ways(channel)[i] /\ OpenWith(pointers, way)
             /\ \A j \in 1..(i - 1) : ~OpenWith(pointers, Ways(channel)[j])

\* A writer that takes something at each call, however little, gets every record out
\* whole, the one the channel was chosen with included.  Where a late gadget has stepped
\* before the writer the channel was chosen for, both are such writers.
NothingLost ==
    \A first, now \in Way :
        /\ phase = "idle" /\ Carries(Settled, first) /\ Carries(fns, now)
        /\ platform.conduct[first] \in Sound /\ platform.conduct[now] \in Sound
        => \A r \in 1..record, b \in 1..Bytes :
               \E c \in Chunks : c.rec = r /\ c.from <= b /\ b <= c.to

\* The code stops trying only when every way it could use had refused: no writer that
\* always takes something is left behind.  A gadget that is set after that is not tried.
GivesUpLast ==
    channel = "NONE" =>
        \A w \in Writers : OpenWith(Settled, w) => platform.conduct[w] \notin Sound

\* A write returns, whatever the writers answer: a channel that moves nothing ends the
\* record instead of spinning on it.
WriteReturns == phase = "send" ~> phase = "idle"

\* The comments at runtime.c:365-368 and 466-468: where names cannot be resolved at run
\* time, the raw imports carry the report.  With a raw writer that looks callable and
\* takes bytes, a module does not stay silent.
ReportGetsOut ==
    /\ phase = "idle" /\ record > 0
    /\ platform.build = "module" /\ platform.args = "none" /\ platform.resolves = {}
    /\ \E w \in platform.binds \cap Writers : platform.conduct[w] \in Sound
    => channel # "NONE"

=============================================================================
