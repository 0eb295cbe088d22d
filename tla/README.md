# obSCEne in TLA+

obSCEne is a probe that runs on a console, on an emulator of one, or on a host
with recording stubs. It makes platform calls that nobody has documented, one
check at a time, and writes down what each one did. A call may return garbage,
fault, end the process, or never come back, and the probe's whole design is about
losing as little as possible when it does: a report flushed record by record, a
next run that reads the last report before it truncates it, a fault guard around
each call, and a driver at the other end of a socket that has to say what
happened from what it did and did not hear.

The specifications here are of that machinery. They leave out what the checks
measure, and model a check by what it may do to the run.

## Inventory

| component | source | state | operations | modelled in |
|---|---|---|---|---|
| run loop | `src/probe/harness.c` (`obs_run_all`, heartbeat) | section and check reached, capabilities, two tallies, frontier | announce, attempt, record, grant, tally, finish | `Suite`; `Resume` for what a run teaches the next |
| resume | `src/probe/sink.c` (`obs_resume_*`) | skip and watch tables, overflow flag, pending announcement | load, consider a line, promote, watch | `Resume`, promise in `TwoStrikes` |
| sink | `sink.c` (`obs_sink_*`), `sink_host.c`, `sink_target.c` | two descriptors, tried flag, the files | open, write, close on failure, close | `Resume` for the snapshot that the next run reads; `Output` for both files beside the text channel (save-data mount left out) |
| fault guard | `fault.c`, `fault.h` | table of pads without a lock, signal masks | register, unregister, handler, jump | `FaultGuard` |
| protocol server | `net.c`, `net_posix.c` | session (greeted, last sequence), connection, tee | accept, read a line, dispatch, acknowledge, perform, reply, close | `Protocol` (without `blob`, `run`, `reset`) |
| driver | `tool/src/drive.rs`, `main.rs` | script position, capabilities, lines, corpus | connect, ask or skip, receive, time out, conclude | `Protocol`, `Transcript` |
| report reader | `tool/src/report.rs`, `verify.rs`, `compat.rs` | fold over the lines | parse, verify, compatibility row | `Reader` (without census, timing, symbols) |
| capability gate | `tool/src/caps.rs` | none | unsatisfiable requirements of a table | `Suite` |
| output channels | `runtime.c` | writers resolved, channel chosen, tee | bootstrap, write, try candidates, fall back | `Output` |
| report comparison | `tool/src/diff.rs` | none | compare, classify, regression | `Diff` (statuses; no values, symbols or targets) |
| module and symbol resolution | `runtime.c`, `min.c`, `imports.c` | caches | load, look up, bind | its verdicts: the names a platform resolves in `Output`, `unresolved` in `Suite` |
| sections and checks | `registry.c`, `sections/` | none of the run's | platform calls | not modelled; a check is any outcome, the registry a constant |
| report formatting | `report.c` | line buffer | one record per call | records only; escaping left out |
| entry points | `start.c`, `host_main.c`, `injector_entry.c`, `crt.c` | none | serve in a loop, serve once, run and exit | as settings of `Protocol` and `Resume` |
| display | `display.c` | output handle, buffers, state, evidence of presentation | open, draw, flip, reopen, close | `Display` |
| screen | `screen.c` | rows, entries, page, pad | begin, attempt, record, end a section, present | `Screen` |
| system information, tool analysers, scripts, data | `sysinfo.c`, `tool/src`, `scripts`, `data` | none of the above | reading, parsing, building | not modelled: pure functions or I/O |

How they interact. `obs_run_all` calls the sink through `report.c`, one write per
record, so the file is the state that survives a run; `obs_resume_load` is the
only reader of it in the probe, and the tool's readers come after. A check runs
between a `try` and a `res` record, inside an arm of the fault guard, whose
handler leaves by a jump. A session calls the same `obs_run_all` for `report`,
with a tee that copies each record to the driver. The driver folds what it
received into a corpus once its session is over. `obs_write` hands every record to
the tee, the file and the system log before the one text channel it settled on. The
loop also draws its summary after each section, on an output that a check may borrow.

What is hard here: a process may stop between any two records and its successor
has only the file; two build outputs may share the file; disks come and go
between boots; threads use the pad table without a lock; a faulting thread jumps
out of a signal handler; an answer can be late, lost, or never made, and the
driver sees silence in every case; a second driver waits where nobody tells it to.
A writer may claim bytes that nobody sees, and a flip is shown at a frame of its own
or never.
`PROJECT.json` lists these as hazards, each at its line.

What makes each component correct: for resume, that exactly the checks which twice
in a row did not return are avoided, and that the sequence of runs gets past all of
them; for the run loop, that what is skipped, announced, counted and granted agree;
for the guard, that a fault lands in a live frame of its own thread or in none; for
the protocol, that no line of the corpus claims what did not happen, and that each
end comes to an end; for the output, that what is on the text channel is durable
elsewhere, in order, and not given up while a writer takes it; for the screen, that
nobody is told the output is free when it is not, that no frame is torn, and that what
is on screen is where the run has got to.

## Modules

| module | models | notes |
|---|---|---|
| `TwoStrikes` | what the learning of exclusions promises | abstract: subjects, strikes, what a run avoids; no file |
| `Resume` | many runs over one report | `EXTENDS Integers, FiniteSets`; refines `TwoStrikes` (`LearnsByTwoStrikes`) |
| `Resume_proofs` | theorems about `Resume` | with one steady file, with any disks, and for runs that nobody kills |
| `FaultGuard` | the pad table and the handlers | one step is one look at a slot or one store to it |
| `FaultGuard_proofs` | theorems about `FaultGuard` | |
| `Reader` | `Report::parse`, `verify::check`, the row of `compat.rs` | operators: a loop over a report, as a recursive function of how many records are read |
| `Suite` | one run, and `caps.rs` over its table | extends `Reader` |
| `Suite_proofs` | theorems about `Suite`, `Reader` and `Diff` | |
| `Diff` | `diff.rs` over two runs of one table | extends `Suite`: `SpecTwice` runs it again |
| `Output`, `Output_proofs` | `obs_write`, its writers and both bootstraps; theorems | |
| `Display` | the framebuffer on the target | operators on the pair (code, platform), and actions |
| `Screen`, `Screen_proofs` | the report on screen, composed with the display; theorems | extends `Display` |
| `Transcript` | `parse_session` | operators: a loop over the lines of a session |
| `Transcript_proofs` | theorems about `Transcript` | for every list of lines |
| `Protocol` | probe and driver over one connection | extends `Transcript` |
| `Protocol_proofs` | theorems about `Protocol` | |
| `Induction` | nothing of the program | induction over numbers and sequences, and the laws of a loop over a sequence, proved once |
| `MCResume`, `MCFaultGuard`, `MCSuite`, `MCProtocol`, `MCOutput`, `MCScreen` | instances | definitions for the `.cfg` files |

Definitions commented *Mutant* are plausible mistakes in the code, and take no part
in any specification. Each property is known to fail when one of them replaces
the definition it mutates.

### Resume

A file is represented by what `obs_resume_consider` makes of its records. The
loader is a left fold, so two files with the same digest are the same file to
every later run; `Digest` has its fields: build id, number of checks, the
announcement that has no answer yet, and the two tables. One action is one record
of a run (`ReportMeta`, `ReportBuild`, `ReportResume`, `SkipLearned`, `Decline`,
`Attempt`, `Answer`, `Finish`) or one transition of the process (`Boot`,
`StopInCheck`, `Kill`, `Exit`, `RunAgain`). `Write` is `obs_sink_write`: the file
grows by the record, or the write fails having left some front of it, the sink is
closed, and the run goes on without. What a torn record can mean to the loader is
given with each record. `conduct` fixes what each check may do when it is reached:
answer, answer with the loader's own phrase in its detail, stop the process, or
be declined.

`RunAgain` is a process that serves `report` a second time: its statics keep
`tried`, so it loads, truncates nothing, opens no sink and leaves its report to
the socket alone.

### FaultGuard

A slot has two fields, `tid` and `buf`, looked at and stored to in separate steps.
`depth` counts the open arms of a thread, and a pad is the pair of a thread and
the depth of the call that set it; it is good while that call is open, and jumping
to any other one is `process = "wild"`. `Unregister` serves its three callers, the
call that returned (`"leave"`), the handler (`"clear"`) and the landing
(`"settle"`). The thread ids are those of `scePthreadSelf` when it resolved.
Which threads nest arms (`nesting`) and whether threads are in the table at once
(`overlap`) are chosen in the initial state, so that one run compares them.

### Suite and Reader

`Suite` writes the records that `Reader` reads. A check is a string; `suite` gives
the sections and what each check requires and provides. Of the three ways to skip, an excluded and an unresolved check are one action,
`SkipAbsent`: their branches differ in the wording alone. `Heartbeat` may end the process (`"stopped"`): its calls into the
platform are not announced, and the guard around them does nothing for one that does
not return, or where its primitives were not found. `Reader!Read` is one arm of
`Report::parse` per kind of record, `Verifies` is `verify::check` without the
census, and `DiedIn` is the account of `compat.rs`.

### Protocol and Transcript

`link` is the connection as both ends can see it: queued in the backlog, open,
left by the driver, reset by a send after that, or ended by the probe. `requests`
and `replies` are in order and lossless while it is open, as TCP is; what is lost
is lost with the connection. `Send` is `obs_net_backend_send`. `out` holds the
records still to be sent for a command, so that a driver may time out, leave or be
replaced between any two of them. The driver's fold runs when its session is over
(`Conclude`), with the two facts it has besides the lines: whether the connection
ended, and at which command the budget ran out. A driver that gave up while it was still in
the backlog leaves its command there: the probe accepts the connection all the same
(`Accept` with `link = "left"`), carries the command out, and learns that nobody is there
when it sends.

`conduct` fixes whether the work of a command returns, ends the process, or stays.
The four fields of `setting` are where the two run: `serves` (`host_main.c` serves
once, `start.c` in a loop), `pipe` (whether the second send to a driver that left
raises SIGPIPE: it does on the host, which neither ignores the signal nor passes
`MSG_NOSIGNAL`), `admits` (the secret), and `rival` (another driver).

### Diff

`Compare` is `compare` and `classify` over the statuses of two parsed reports. `Again`
starts the program a second time on the same table, when the first run is over, however
it ended, on a platform that may resolve other checks; `before` keeps the first report.

### Output

A platform is a record: how the program was built and started, which names resolve,
which raw imports look callable, and how each writer conducts itself. `Answers` is one
call of a writer, with what it reports and what a reader sees of it apart, since
`sceKernelDebugOutText` reports nothing and any writer may only claim. A record is
`Bytes` long; what a reader sees is a sequence of chunks, each a stretch of one record
by one way. `obs_write` is five steps in the code's order (tee, files, log, and the
two loops of the text channel), so that a run may stop between any two of them.

`obs_write` hands the record to `obs_sink_write`, which has two files, the snapshot and the
archive. `SinkOpen` is `obs_sink_open`, by the first run and between any two records (the
boot and network records come before it, `harness.c:2583`), and takes what the platform's
`files` lets it open; a second run finds `tried` and opens nothing. `SinkClose` ends the run
(`harness.c:2793`), and records after it reach the text channel only. In `SinkWrite` each open
file may fail, which leaves it a record cut short and closes it for good, and the other goes
on. `filed` is what each file got, and `since` how many records came before the files.

Entry points differ by what they were handed: no arguments, arguments without a table of
exports, arguments with one, and arguments without one but with kernel access, by which
`start.c:195-207` dumps a table between the two bootstraps (`"dumped"`): names are resolved
without it, and `obs_module_resolution_works` is true because of it. `InvokeSyscall` is the assignment in
`obs_invoke_syscall` (`runtime.c:183-187`): on the newer generation a check that makes a system
call sets a null gadget, and the channel `KERNEL_WRITE` has one more way from then on. Where
the channel was settled on `NONE` before, that way is never tried, so `GivesUpLast` speaks of
the ways that were open when it was settled (`Settled`).

### Display and Screen

`d` is what the code keeps of the display and `out` what the platform keeps of its
output; `Opened`, `GaveUp`, `Reopened` map one pair to the pairs the code may
bring it to, with every refusal. `NextFrame` is the platform's own process: it takes up
a queued flip whenever it likes, or in time (`counts`). `obs_display_flip` is `Submit`,
then `Accepted` or `RefusedFlip`, with the wait between them.

In a build for the newer generation the display is a library's, which is not in the
repository (its submodule is empty). All that the code asks of its flip is the return code, so
the model has both libraries that fit: one that answers when the frame is up (`backend =
"waits"`) and one that queues the flip like `sceVideoOutSubmitFlip` (`"queues"`, where
`BackendTakes` appends to the same queue). What the properties say of either is in their
definitions: `NoTearing` speaks of the flips in use being over in time (`InTime`), and
`PresentedIsSeen` of the program's own flips and of a library that waits. The code draws
the conclusion for any library; see below. That the library stays ready for as long as it is open
(`oops_display_is_ready`, `display.c:172`) is taken for granted in `HoldsOutput`.

`Screen` is the run loop as the screen sees it, the checks that draw on the display,
reopen it or borrow its output (`085-videobuf`, `layout`, `agc`), and the pages after
the run. A frame keeps what a person could tell apart: its kind, the sections it shows,
its page, and what the status line says. `driven` is the code's latch, which `Latch` sets;
`touched` is a history variable that no action reads, true once any button has been pressed,
so that `TheirsToTurn` can say what the latch is for without trusting it.

A frame that a check, the HUD or the calibration draws shows no sections, and counts as being
of the place the run has got to while it is drawn. `FreshOrBlank` says nothing else of it, and no more of
the flat colours that `085-videobuf/flip-alternates` leaves on the screen in a `DISPLAY_PROBE`
build (`videobuf.c:387-410`) than that the summary at the end of the section replaces them.

## Runs

| run | instance | shows |
|---|---|---|
| `resume_safety` | two checks with any outcome each time, two builds on one file, tables and loader line of one entry, one kill | the file names the check in flight; skips and watches are carried; the two-strike rule, as an invariant and as a refinement; other builds teach nothing |
| `resume_media` | a stick in front of an internal disk, absent, present or write-protected at each boot; failing writes | a skip still rests on two reports that ended with the check |
| `resume_converges` | five checks, each constantly answering, stopping or declined; two kills at any record; one id that is the front of another | no third attempt when nobody kills; from some point on nothing stops a run and every run ends |
| `resume_quoted` | a check that quotes the loader's phrase | *violated*: skipped without a strike |
| `fault_guard` | suite thread, a worker that may hang, and a thread of the platform or a worker too many; two slots, two faults of two signals; nested and flat, overlapping or in turns | one slot per thread; no stale pad; landings at home; a fault inside an arm is caught unless the slots are all taken |
| `fault_nested` | arms two deep, in turns, one fault | *violated*: a fault after an inner arm is not caught |
| `suite_all` | four tables of checks with grants in order, too late, missing and in a chain; any status; one check absent; guard or none; two tables run twice and compared | the frontier, grants and attempts agree; the report verifies, adds up and names its death; no regression in a comparison means what it says; the gate is right |
| `protocol` | two drivers in turn, four scripts, one kind of command that dies or stays, host with either secret, console with a rival | the corpus says what happened; one answer each; the driver ends; the console's probe is there again |
| `output` | two records of three bytes; host, payload, title and module with every set of names or imports, with and without a table, a gadget that comes late; writers that take all, some, nothing, one record, or only claim; one file or two, opened, closed and failing at any record | the text is in order, by one channel, not lost while a good writer is there, and given up last; what shows there is in every file that still takes records, and a file has no hole; a write returns |
| `output_silent` | a title whose raw imports look callable, one record | *violated*: nothing gets out where module resolution answers without asking the platform |
| `screen` | two sections of one and two checks; platforms of every conduct of the flip count, that refuse nothing or anything at any time; with a display library that waits, one that queues, or none; checks that draw, reopen and borrow; the pad | the output is answered for; no torn frame; what is on screen is fresh; presented means seen, but for a library that queues; complete means done; once a button was pressed only buttons turn a page, and to one there is; every page comes round |
| `screen_flips` | the newer pair of entry points, nothing refused | *violated*: a flip names a buffer that was never registered |

### Bounds, and why they are enough

- **Strikes are counted to two** (`StrikeCap`), as the rule knows no third.
- **Tables of one entry** in `resume_safety` make both tables and the loader's line
  overflow with two checks, which is every capacity path of the code;
  `resume_converges` has room for three of five. Two checks are enough for the loader
  to tell an announcement from the one before it, three for two hangs to
  alternate, which is the oscillation `sink.c` describes at line 291.
- **Kills** from outside give a run that ends where no check stopped it: one in
  `resume_safety`, and two in `resume_converges`, since two of them in one check are a
  skip. The theorems cover every number.
- **Fitting** conducts in `resume_converges` leave room in the table for every hanging check
  and for what the kills put there. Without the room the runs do not converge: see
  below.
- **Two paths** are a removable disk and a fallback; a third repeats the second.
- **Two slots** for three threads, of which one arms nothing or all three arm: there is a
  free slot before a thread's own, and there is none at all. The theorems cover every
  number.
- **Two faults** of two signals let the same signal come twice to one thread, and a
  second fault find what the first left.
- **One absent check** in `suite_all`: excluded and unresolved checks are independent
  of each other in the loop.
- **Two drivers** one after the other, each of up to four commands: what a session leaves
  behind is seen by the next, and after one unanswered command nothing more is asked.
- **Two records of three bytes** in `output`: a writer may take none, one, two or all of a
  record, and the second record finds the channel the first settled on. Files open before the
  first record, between the two or after, and fail in one, in the other or in both. Of the ways
  a platform offers, one at a time does better than whatever it likes, and up to three where the
  gadget comes late. The theorems have every combination.
- **Sections of one and two checks, pages of one row** in `screen` make a section with
  more entries than a page holds and one without, and a summary of two pages. `QueueMax` is the
  number of flips the platform holds: with two, one is waiting while another is submitted.
  `SummaryIdle`, `DetailIdle`, `RepeatDelay`, `RepeatEvery` are the code's pacing in polls,
  shortened, in the same order. The theorems cover every value.

`CHECK_DEADLOCK FALSE` is said where the system stops: a fault that nothing catches ends
its thread (`FaultGuard`), a run is over (`Suite`), the last driver is done (`Protocol`),
the last record is written (`Output`), the program has ended (`Screen`).
`Resume` never stops and is checked for deadlock.

The type invariants of `Resume`, `FaultGuard`, `Suite`, `Output` and `Screen` are proved
and not checked again by a run; that of `Protocol` is proved, and checked by `protocol`.

## Fairness

`Resume!FairSpec`: the loop, a reboot, a check that stops the process, and an exit are
each weakly fair. `scripts/repeat.sh` and the sweeps run the binary again when it ended
and time it out when it hangs, which is `StopInCheck`. Nothing is assumed of kills, and a
check with a choice is not assumed to take the better one: `Converges` is checked where
each check's conduct is constant.

`Protocol!FairSpec`: the probe's loop and the driver's are each weakly fair. The driver's
waiting always ends since `Timeout` is part of its loop and stays enabled until something
else ends the wait (`set_read_timeout`). Nothing is assumed of a rival, of what restarts
a probe, or of anybody starting a driver. `ServesAgain` has the premises that its
name needs: a probe that serves in a loop, work that returns, no SIGPIPE.

`Output!FairSpec`: the program is weakly fair, that is, a call into a writer returns. That
the loops around the calls end is what `WriteReturns` shows.

`Screen!FairSpec`: the loop that polls, the program inside a flip, and the platform's
frames are each weakly fair. The loop of `obs_screen_present` sleeps a fixed time
between polls and waits for nothing else, and a flip waits a bounded number of frames.

## Theorems

`Resume_proofs`, from `ConstantsAssumption` alone, for every number of checks, builds,
paths, kills, and every capacity:

- `TypeCorrect`: `Spec => []TypeOK`. The lemmas `HeaderClosed` to `EndClosed` say
  that each operator of the loader maps digests to digests; `WriteKeepsTypes` and
  `DownKeepsTypes` serve all the actions that write or end.
- `TwoStrikesHold`: `Spec => []TwoStrikes`, that no check is skipped in fewer than two
  strikes. Its premises are part of the property: no check quotes the loader, the loader
  can tell the builds apart, every run uses one file and writes do not fail, and no id
  is a prefix of another. `TwoStrikes` speaks of the run's table, which comes from
  the file, which an earlier process wrote; so the induction needs `IInv(p)`: what
  the file at `p` teaches *any* build that would believe it is true (`FileTold`), what
  the tables hold is true (`TableTold`), a file being written follows its run
  (`Writing`), a closed one is complete (`Written`), and a dangling announcement
  counts as a strike except while its check is still in flight (`LastTold`).
- `ImplementsTwoStrikes`: under the same premises, every step of `Resume` is a step of
  `TwoStrikes` or a stutter, with the mapping of `Learner`.

The same module, with any number of paths, disks that come and go at every
boot and writes that fail anywhere in a record:

- `FileNamesTheCheck`: `Spec => []AnnouncedFirst`; `SkipsAreCarried`: `Spec => []SkipsCarried`;
  `WatchIsCarried`: `Spec => []WatchCarried`. What the next run of the build makes of the file is
  an operator of its digest, so the invariant `Keeping` says of the file being written how its
  header reads (`Headed`), how far its records have come (`Following`), which part of what the run
  knew it already carries (`Carrying`), and whose announcement is the last (`Attempting`).
- `TwoSightingsHold`: `Spec => []TwoSightings`, that a check is skipped only after two reports
  ended with it in flight. This is weaker than `TwoStrikes`, which has the strikes come in a
  row, and holds without a steady file: `Sighted` counts the reports at every path.
- `OwnReportsOnly`: `OtherBuildsIgnored` always holds, from two assumptions on the constants
  named in its statement: no check quotes the loader (`NothingQuotes`), and no id is cut into
  another (`IdsCutClean`).

And in one file that one binary writes (`OneSteadyFile`, `OneBuildOnly`), where no check quotes
the loader and one that may stop always does (`HangsEveryTime`):

- `HangsSkippedAtTwo`: `Spec => []HangsAreSkipped`, that no check is attempted after two strikes,
  for as long as nobody kills a run and the tables and the loader's line have room for the
  checks that hang. The invariant `Turns` says exactly what is known: the skip table is the set
  of checks struck twice and the watch table that of those struck once, in the run (`Learned`) and
  in what a closed file teaches (`Teaching`); a file being written has the part that is behind
  (`Telling`). What keeps a file that ends early from forgetting skips it has not come to is that
  checks are struck in turn (`InTurn`): none is struck before all that hang ahead of it are
  skipped. Ids may be prefixes of each other here, since no line is cut. `resume_converges` is an
  instance that meets all the premises.

`FaultGuard_proofs`, for every set of threads, nesting of arms, number of slots and
faults:

- `TypeCorrect`: `Spec => []TypeOK`, with `Scanned`: a thread that claims or stores has
  found a slot, and one that unregisters has an arm open.
- `OneSlotForEach`: `Spec => []OneSlotEach`, with threads in the table at once. A slot's
  owner may change: a thread takes any slot whose pad is clear, the id of its last owner
  notwithstanding. What carries the induction (`Owning`) is that nobody else writes a
  thread's id, so a thread that scans owns none of the slots it has passed, and one that
  claims owns none at all.
- `PadsStayOpen`: `Spec => []PadsAreOpen`, where threads can name themselves. A thread that
  goes clears its slot before it leaves the arm whose pad is in it, whatever interrupted it.
- `LandingIsHome`: `Spec => []LandsAtHome`, where threads can name themselves and take
  turns in the table. With threads in the table at once it is false, which is why
  the property has that premise (see below).

Where threads can also name themselves, the jump restores the mask and the threads are finitely
many:

- `FlatIsCaught`: `Spec => []FlatArmsAreCaught`, that a fault inside an arm is caught where arms
  do not nest and threads take turns, unless as many other threads arm as there are slots. The
  invariant `Caught` gives every armed thread its pad in the table, at or after the place its
  handler has looked at, unless it armed into a full table; then the slots have as many other
  owners, which is a pigeonhole (`FullIsCrowded`).

`Suite_proofs`, for every table, every outcome and every absent check, from `OneRowEach` (no
check is in two places of a table):

- `TypeCorrect`: `Spec => []TypeOK`.
- `AttemptsBacked`: a check is announced only if passes earlier in the same report
  established all that it requires, and a check that could have run and was skipped
  lacked something. The invariant `Inv` says that `available` is, at every record,
  exactly what the passes so far back.
- `TalliesTrue`: the tallies of a section, and of the run, are those of the records in the
  report.
- `FrontierTrue`: the frontier counts the capabilities that passes in the report
  established, and as blocked the checks that were there to be run and were not.
- `GateTellsRuns`: what `caps.rs` says of a table is so of every run of it: a check whose
  requirements it calls unsatisfiable is never announced. Its premise is `AsksOfChecks`, that
  nothing requires the one capability that the loop grants by itself; in the code
  `OBS_CAP_OUTPUT` is named once, as something provided (`base.c:10179`).
- `WholeReportIsBelieved`: `Spec => []WholeReportVerifies`. What the parser has after so many
  records is said of the report as it stands (`ReadBack`): its list of results is the records of
  results, once each, its sums are the tallies so far, and its open section is the loop's. The
  last record is then a tally that agrees with both.
- `DeathsAreNamed`: `Spec => []DeathIsNamed`, that both readers name the check a report stopped
  in, and none where it stopped elsewhere. Each announcement but the last, and but that of the
  census control, has been answered (`Trying`).
- `NoRegressionNoRetreat`: `SpecTwice => []FrontierHolds`, for a second run over any table on a
  platform that resolves other checks. All that is true of a run (`AllInv`) is true of the
  second one, which starts from the same initial states (`Restarts`); what is kept of the first
  (`Past`) is what its report reads back as, that it is backed, and that its records follow the
  table (`InOrder`). A comparison without a regression gives every result at least its old rank
  (`NoWorse`), so what passed passes; an attempted check had its requirements from passes that are
  as early in the second report, since both are in the order of the table.
- `EachRunIsTrue`, `GateTellsEachRun`: under `SpecTwice` the properties above hold of both runs.

`Protocol_proofs`, for every list of commands, every conduct of theirs, every setting and any
number of drivers:

- `TypesHold`: `Spec => []Types`, which is `TypeOK` without the corpus, and with it that a driver
  that waits is at a command of its script.
- `OneAnswer`: `Spec => []OneAnswerEach`. What is on its way to the probe comes in order and
  after what it has read (`Queued`), nothing was said under a number it has not read
  (`SaidSoFar`), and what it has still to say is an acknowledgement nobody was told, or an answer
  to a command acknowledged and not answered (`ToSay`). `Wired` has the cases in which a send
  reaches nobody: then no later one of the session does.
- `HeardIsReal`: no record the driver reads says that a command which does work was done, unless
  its work came back.
- `CorpusTyped`, `AnswersWrittenAreReal`, `DeathsWrittenAreReal`, `EachAcknowledgedIsWritten`:
  `Spec => []TypeOK`, `[]AnswersAreReal`, `[]DiedIsDeath`, `[]AcknowledgedAreWritten`, what the corpus
  says once a session is over. What a driver has heard, followed by what is on its way, is what the
  probe said (`Heard`); what is acknowledged and not answered is the command the probe is in, or
  the one that ended it (`Owing`). The fold over the lines carries this into the corpus by
  `Accounting`.

`Transcript_proofs`, for every list of lines:

- `ParsedByStep`: the fold ends, is of its type, and takes one more line by one more step.
- `Accounting`: of lines with one acknowledgement for a number, no answer before it and no
  second one, what is pending at the end is what is owed an answer, and what is
  written down is what was answered, once each.

`Output_proofs`, for every set of platforms, any number of records of any length:

- `TypeCorrect`; `TextInOrder`: what a reader sees on the text channel is in order, with
  nothing twice; `OneChannel`: all of it came through one channel; `DurableBeforeText`:
  what is seen there is in every file that was open for it and has not failed, a file that failed
  ends with the record it failed in, and the record in hand went down the tee before; `WholeByPuts`:
  `puts`, which ends what it is given with a line, is handed whole records only. The invariant behind
  `DurableBeforeText` says how far each file has come by the step `obs_write` is at (`Filed` and its
  lemma `FiledKept`), since a record is written to the files before any of it is sent.
- `GivenUpLast`: `Spec => []GivesUpLast`. A candidate is passed over only when each of its open
  ways refused (`PassedOver`), and a sound writer refuses nothing.
- `NothingIsLost`: `Spec => []NothingLost`. A way that is open, sound and first in its channel
  takes every call, so with one in use what is seen reaches as far as the loop has come
  (`Whole`); a channel is chosen within the first record and from its first byte.

`Screen_proofs`, for every set of platforms, table of sections, pacing and length of the flip
queue:

- `TypeCorrect`; `Answered`: a display that has the output open says so; `Untorn`: no frame
  is drawn into a buffer that is shown or waits to be, where the flips in use are over in time;
  `Evident`: a frame is called presented only when one was on screen, unless it was a flip that a
  library queued; `Theirs`: the loop stays on the pages there are, and once a button has been
  pressed only a button turns a page, because the latch is set with the first press and kept
  (`Latched`).
- `FreshAlways`: what is on screen after a section is the frame of that section, or nothing is.
  The invariant says what each frame under way was drawn from (`Drawings`), what the
  status line was told (`Told`), and which frame a still display is left with (`Stilled`, `Lit`).
- `CompleteWhenDone`: `Spec => []CompleteIsDone`. The checks that are done are at most those of the
  sections begun, and fewer than all of them until the last has ended. That is so only
  where the last section has a check (`LastHasChecks`): with an empty one the count would
  be complete before it begins. In the code the last section is `obs_section_bulk`
  (`registry.c:171`), whose table has one row (`bulk.c:318`).

`Induction` has what the readers' theorems rest on. The library states induction with an operator
for the property, which no prover at hand can instantiate, so it is stated here of sets, from the
well-foundedness of `<`: a set with 0 that is closed under the next number has all
numbers (`NumbersByStep`), and likewise for sequences (`SequencesByStep`); a nonempty set of numbers has a
least one (`Least`). Its lemmas `LoopByStep` and `LoopKeeps` say of any step that a loop over a
sequence, written as a recursive function of how far it has come, takes one more element by one more
step and keeps what each step keeps. They say nothing of the program by themselves: `Transcript_proofs`, `Suite_proofs` and `Screen_proofs` take the module as an
instance for each of their loops, with its own step. This is why those loops are functions and not folds of the
library: TLC computes the same, and they can be reasoned about.

Only model-checked: liveness (`Converges`, `DriverEnds`, `ServesAgain`, `WriteReturns`,
`EveryPageComesRound`), which the prover does not handle under fairness. Every invariant and
every action property that a passing run checks is a theorem, under the assumptions named with
it.

## Where the code and its words differ

Four runs end in a counterexample; `PROJECT.json` has each with its lines. Further
divergences that the models contain, and that a premise or the choice of instance
keeps out of the passing runs:

Of what a run teaches the next:

- `sink.c:556-561` names the target as a discriminator between reports, but the loader reads
  only the id of the `build` record (`sink.c:559`). A host and a module build of the
  default id `dev` with the same number of checks believe each other
  (`BuildsDistinct` is the premise).
- A promotion into a full skip table sets the overflow flag and drops the watch all the
  same (`sink.c:652-653`), so the run after that one says `ok` and attempts the check
  again: every other run of such a series hides what `sink.c:302` promises to say.
- The loader's line holds 383 bytes (`sink.c:610`) and the resume record of many watched ids
  is longer; an id cut to the id of another check puts that one under watch
  (`IdsCutClean`).
- Where the skip table or the loader's line is too small for the checks that hang, the runs do
  not converge, and `sink.c` says that N runs get past N.
- A run that is killed before it reaches a check that was skipped leaves a report without
  it, and the next run attempts that check a third time (`sink.c:332`).
- A write that fails part of the way leaves the front of a record without its newline.

Of the fault guard:

- `fault.h:25-27` says a worker's fault lands on the worker. `obs_fault_register`
  (`fault.c:96`) scans and stores without a lock: a worker that arms late can share a slot
  with the suite's thread and jump into its frame (`overlap` in `LandsAtHome`).

Of the run, its report and the tool that reads it:

- The deepest green section is found from failures alone: a section with a crash or a pending
  check counts as green.
- `compat.rs` reads the result of the census control in an arm of its own (`compat.rs:171`) that does
  not count it as answered: a run that attempted the control is listed as having died in it.
- `harness.h:9-11` says the last line names the call that took the run down. The heartbeat's
  calls are not announced (`harness.c:2554`): such a report names none.
- A second run that stops in its last heartbeat has every check of the first and no end, and
  a comparison of the two shows no regression.
- A check's symbols that are gone from the second report are not compared.

Of the protocol:

- `drive.rs:488` says commands that never reached the wire still go in the corpus. Those after
  one that died or timed out do not (`drive.rs:471-473`).
- A command nobody answered is no failure to the `drive` command: it prints it and exits with success.
- `PROTOCOL.md:153` says an unannounced command is not sent. The driver skips the test until
  it has been greeted (`drive.rs:417`), so after a refused greeting it sends them all.
- `PROTOCOL.md:46` says a second connection is refused with `busy`. The backlog takes it
  (`net_posix.c:54-55`), and no line sends `busy`.
- `net.c:614` says a failed send of the tee is swallowed. On the host the second one raises
  SIGPIPE and ends the process (`net_posix.c:85-104`).

Of the output channels:

- For `KERNEL_WRITE` the writer falls back to `s_fn_debug_out`, which returns nothing and is
  taken to have written all of it; the comment at `runtime.c:675-700` (D233) is
  about not settling on a writer that only claims.
- `obs_debug_out_write` (`runtime.c:258`) calls the raw import without the gate that
  `runtime.c:469-475` puts in front of the others.
- The early return at `runtime.c:312-316` cannot be reached.
- A gadget that `obs_invoke_syscall` sets after the channel was settled on `NONE` is never
  tried (`runtime.c:712-714`), though it would carry the report.
- `sink.c:39-42` has the `sink` record remove the ambiguity whether a file was also written. A
  second `report` of a process that serves opens no file, and `obs_sink_open` still answers with
  the path of the first (`sink.c:114-116`), which the record then names; a file that fails on the
  way is not reported either.

Of the display and the screen:

- `screen.h:29` says an attempt is "drawn immediately so a hang names what it is inside", and
  `screen.c:304` that the name is on screen for the section that holds the hang. It is recorded
  without a redraw and cleared by the result (`screen.c:313`) before a section's end draws
  the summary, so no frame says RUNNING.
- "SUITE COMPLETE" does not come up when a check of the run crashed or is pending.
- `display.c:848-858` has it that an accepted flip is not a shown one and that the report must not
  conclude one from the other (D187). In the library's display the code does conclude it: `rc == 0` alone
  sets `obs_presented` (`display.c:803-817`). Whether that is a disagreement in effect
  depends on the library, which is not here: with one that waits for the frame
  it is right, with one that queues it says so before anything is on screen, and for good where
  nothing ever is. `PresentedIsSeen` and `Evident` leave that case out by name.
- The frame of a refused flip is not submitted again.
- Where `sceVideoOutClose` is absent the handle is forgotten and stays open; a mapping that
  fails after its allocation leaves the allocation.
- The entries of a section are capped at 256 under a comment that says "Sized past the current
  suite", and `obs_entry_count` is not reset when a serving process runs the suite again.

## Not modelled

- **The checks themselves** (`src/probe/sections`, the registry). Each is a few platform
  calls and a verdict on what they answered, and together they are more than half of the C
  code. What the run needs of a check is that it may end in any way, and every model lets it;
  the tables of rows are constants.
- **Generated tables**: `corpus.h`, `nids.h`, the tables of imports and of register names. They
  are data, some eighty thousand lines of it, which together with the sections account for nearly
  all lines of the C sources: the machinery modelled here is the small rest, and the share of
  the lines that the definitions stand for stays small however much of it is modelled.
- **System information, report formatting, drawing and text, the PNG of the host build**: what
  they do to a run is the order of records or frames, which `Suite` and `Screen` have.
- **The analysers of the tool**: parsers over sources, ELF files and name databases, pure
  functions of input that no property here speaks about. The census, timing and symbol
  records of a report are read by such functions only.
- **The commands `blob`, `run` and `reset`**, refused by the default build; **the network
  backend of the target**, the same five operations over another library.
- **The save-data mount**, and where the archive is put and how it is named: no run reads it.
- **`obs_refresh_kexport_table`** (`harness.c:1760-1773`), by which a check may stage a table of exports
  in the middle of a run of a payload with kernel access: from then on
  `obs_module_resolution_works` is true, and the raw imports are closed to a channel that had
  settled on one. `Output` has the table from the entry point only.
- **Scripts, data, documentation, patches.** That scripts start the probe again is `Boot` of `Resume`.

## What is left

1. A bound behind `Converges` as an invariant: that a series of runs without kills has at most two
   that stop for each check that hangs.
2. `Resume` with hangs and two builds: each truncates the file the other learns from, so
   `HangsAreSkipped` needs a premise on how they take turns.
3. `FaultGuard` with several workers that nobody joins and all sixteen slots taken, composed
   with `Suite`, so that a crash that nothing catches ends a run.
4. The census in `Reader`, and values and symbols in `Diff`.
