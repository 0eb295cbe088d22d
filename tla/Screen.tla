------------------------------- MODULE Screen -------------------------------
(***************************************************************************)
(* The report as a person sees it: src/probe/screen.c over the display, as *)
(* the run loop (src/probe/harness.c) and the entry point drive it.        *)
(*                                                                         *)
(* The summary is drawn when the run begins and after every section; a     *)
(* check may meanwhile use the same output.  Afterwards the pages go round *)
(* by themselves until somebody touches the pad.                           *)
(***************************************************************************)
EXTENDS Display

CONSTANTS
    Sections,                   \* how many checks each section has
    CheckMax, PageRows,         \* OBS_CHECKS_MAX and OBS_PAGE_ROWS
    SummaryIdle, DetailIdle,    \* polls before the next page: OBS_PAD_..._IDLE
    RepeatDelay, RepeatEvery,   \* OBS_PAD_REPEAT_DELAY and _EVERY
    Inputs,                     \* what a poll may read: sets of buttons
    Modes                       \* the builds: "suite", "serve", "headless"

Button == {"forward", "backward", "triangle", "circle", "other"}

ASSUME ScreenAssumption ==
    /\ Sections \in Seq(Nat)
    /\ {CheckMax, PageRows, SummaryIdle, DetailIdle, RepeatEvery} \subseteq Nat \ {0}
    /\ RepeatDelay \in Nat
    /\ Inputs \subseteq SUBSET Button
    /\ Modes \subseteq {"suite", "serve", "headless"}

\* OBS_SCREEN_MAX is asserted to exceed the number of sections (registry.c).
Rows    == 0..Len(Sections)
Entries == 0..CheckMax
PageMax == CheckMax + 1

\* One frame: what kind, the rows of the summary or the page of the details, and, on a
\* summary, the words in its status line.
Frame == [kind: {"ground", "hud", "summary", "detail", "check", "calibration"},
          rows: Rows, page: 0..PageMax, says: {"", "RUNNING", "COMPLETE"}]

Plain(kind, rows) == [kind |-> kind, rows |-> rows, page |-> 0, says |-> ""]

Ground == Plain("ground", 0)

VARIABLES
    mode,         \* never changes
    pc,           \* "start", "hud", "between", "inside", "lent", "paging", "calibrating",
                  \* "leaving", "end"
    check,        \* the check the run is at, in its section
    live,         \* obs_live
    rows, done,   \* obs_row_count, and the checks its tallies count
    ran,          \* the checks of this section that came out in a counted status
    inflight,     \* obs_in_flight is set
    entries,      \* obs_entry_count
    frames,       \* frames of the HUD still to draw
    page, previous, idle, held, driven,  \* the locals of obs_screen_present
    touched       \* history: a button has been pressed since it began

pager == <<page, previous, idle, held, driven, touched>>
run   == <<check, rows, done, ran, inflight, entries, frames>>
vars  == <<platform, d, out, content, step, presented, seen, mode, pc, check, live, rows,
           done, ran, inflight, entries, frames, page, previous, idle, held, driven,
           touched>>

-----------------------------------------------------------------------------
\* How many checks the sections have.
ChecksIn(sections) ==
    LET upTo[i \in 0..Len(sections)] == IF i = 0 THEN 0 ELSE upTo[i - 1] + sections[i]
    IN  upTo[Len(sections)]

\* obs_total_checks
TotalChecks == ChecksIn(Sections)

\* Mutant: complete when the last section has begun.
SaysEarly == IF inflight THEN "RUNNING"
             ELSE IF rows + 1 >= Len(Sections) THEN "COMPLETE" ELSE ""

\* The status line of obs_screen_redraw.
Says == IF inflight THEN "RUNNING"
        ELSE IF done >= TotalChecks /\ TotalChecks > 0 THEN "COMPLETE" ELSE ""

Summary == [Plain("summary", rows) EXCEPT !.says = Says]

DetailOr(p) == IF p = 0 THEN Summary
               ELSE [Plain("detail", rows) EXCEPT !.page = p]

Init ==
    /\ DisplayInit(Ground)
    /\ mode \in Modes
    /\ pc = IF mode = "serve" THEN "hud" ELSE "start"
    /\ check = 0 /\ live = FALSE /\ rows = 0 /\ done = 0 /\ ran = 0
    /\ inflight = FALSE /\ entries = 0 /\ frames = 3
    /\ page = 0 /\ previous = {} /\ idle = 0 /\ held = 0 /\ driven = FALSE
    /\ touched = FALSE

\* obs_screen_hud, before a build that serves waits for a driver: three frames.
Hud ==
    /\ pc = "hud"
    /\ IF frames = 0
       THEN /\ pc' = "start"
            /\ step = "idle" /\ UNCHANGED <<dvars, live, frames>>
       ELSE /\ Draw(IF frames = 3 THEN Opened(d, out) ELSE Current, Plain("hud", rows))
            /\ live' = IF frames = 3 THEN d'.state = "ready" ELSE live
            /\ frames' = IF live' THEN frames - 1 ELSE 0
            /\ UNCHANGED pc
    /\ UNCHANGED <<mode, check, rows, done, ran, inflight, entries, pager>>

\* obs_screen_begin; the entries of an earlier run stay.
Begin ==
    /\ pc = "start" /\ step = "idle"
    /\ rows' = 0 /\ done' = 0 /\ check' = 0 /\ ran' = 0
    /\ pc' = "between"
    /\ UNCHANGED <<mode, inflight, entries, frames, pager>>
    /\ IF mode = "headless"
       THEN live' = FALSE /\ UNCHANGED dvars
       ELSE Draw(Opened(d, out), Summary') /\ live' = (d'.state = "ready")

\* The sections before this one are on the screen; this one is being run.
InSection == rows < Len(Sections) /\ check < Sections[rows + 1]

\* obs_screen_check, after every check whether it was attempted or not; a crash and a
\* pending answer are in none of the four counts of the summary.
Record(counted) ==
    /\ inflight' = FALSE
    /\ entries' = IF entries < CheckMax THEN entries + 1 ELSE entries
    /\ ran' = IF counted THEN ran + 1 ELSE ran
    /\ check' = check + 1
    /\ pc' = "between"
    /\ UNCHANGED <<mode, live, rows, done, frames, pager>>

\* Excluded, without its symbol or without a capability: a skip.
Skip == pc = "between" /\ InSection /\ step = "idle" /\ Record(TRUE) /\ UNCHANGED dvars

\* obs_screen_attempt: recorded, not redrawn.
Attempt ==
    /\ pc = "between" /\ InSection /\ step = "idle"
    /\ inflight' = TRUE /\ pc' = "inside"
    /\ UNCHANGED <<dvars, mode, check, live, rows, done, ran, entries, frames, pager>>

\* The check answers, or faults and is brought back; one that has the output in its own
\* hands then never gives it back.
Answer ==
    /\ step = "idle" /\ UNCHANGED dvars
    /\ \/ pc = "inside" /\ \E counted \in BOOLEAN : Record(counted)
       \/ pc = "lent" /\ Record(FALSE)

Inside == pc = "inside" /\ step = "idle" /\ UNCHANGED <<mode, live, run, pager>>

\* 085-videobuf/flip-alternates: pictures of the check's own.
CheckDraws == Inside /\ d.state = "ready" /\ Draw(Current, Plain("check", rows))
              /\ UNCHANGED pc

\* A check that has unregistered the buffers on screen opens the display again.
CheckReopens == Inside /\ HoldsOutput(d) /\ Reopen /\ UNCHANGED pc

\* A check that opens an output of its own closes the display first, by its handle and
\* then as a display.
CheckBorrows ==
    /\ Inside /\ HoldsOutput(d)
    /\ d' = Closed(d)
    /\ LET freed == Freed(d, out)
       IN  \/ freed.owner = "nobody" /\ out' = [Vacant EXCEPT !.owner = "check"]
           \/ (freed.owner # "nobody" \/ Refused("open")) /\ out' = freed
    /\ pc' = "lent"
    /\ UNCHANGED <<platform, content, step, presented, seen>>

\* And hands it back.
CheckReturns ==
    /\ pc = "lent" /\ step = "idle"
    /\ Becomes(Opened(d, IF out.owner = "check" /\ platform.closes THEN Vacant ELSE out))
    /\ pc' = "inside"
    /\ UNCHANGED <<mode, live, run, pager>>

\* Mutant: drawn before the section is in the list.
EndSectionBefore ==
    /\ pc = "between" /\ rows < Len(Sections) /\ ~InSection /\ step = "idle"
    /\ rows' = rows + 1 /\ done' = done + ran /\ ran' = 0 /\ check' = 0
    /\ UNCHANGED <<mode, pc, live, inflight, entries, frames, pager>>
    /\ IF live THEN Draw(Readied, Summary) ELSE UNCHANGED dvars

\* obs_screen_section: its row, and the summary with it, on a display that is opened
\* again if something took it down.
EndSection ==
    /\ pc = "between" /\ rows < Len(Sections) /\ ~InSection /\ step = "idle"
    /\ rows' = rows + 1 /\ done' = done + ran /\ ran' = 0 /\ check' = 0
    /\ UNCHANGED <<mode, pc, live, inflight, entries, frames, pager>>
    /\ IF live THEN Draw(Readied, Summary') ELSE UNCHANGED dvars

RunOver == pc = "between" /\ rows = Len(Sections) /\ step = "idle"

\* A build that serves runs again when it is asked again.
Served ==
    /\ RunOver /\ mode = "serve" /\ pc' = "start"
    /\ UNCHANGED <<dvars, mode, live, run, pager>>

\* obs_screen_present up to its loop, with sceKernelUsleep to pace it.
Present ==
    /\ RunOver /\ mode # "serve" /\ live
    /\ Draw(Readied, Summary)
    /\ pc' = IF d'.state = "ready" THEN "paging" ELSE "leaving"
    /\ UNCHANGED <<mode, live, run, pager>>

\* The entry point after a run without a screen, or one that is gone.
Leave ==
    /\ step = "idle"
    /\ pc = "leaving" \/ (RunOver /\ mode # "serve" /\ ~live)
    /\ Close
    /\ pc' = "end"
    /\ UNCHANGED <<mode, live, run, pager>>

-----------------------------------------------------------------------------
\* page_count
Pages == IF entries = 0 THEN 1 ELSE 1 + (entries + PageRows - 1) \div PageRows

TurnTo(p) == page' = p /\ Draw(Current, DetailOr(p))

Stay == UNCHANGED <<page, dvars>>

\* Mutant: the last page is taken for one past the end.
PageAfterShort(p) == IF Pages = 1 THEN 0 ELSE (p + 1) % (Pages - 1)

PageAfter(p) == (p + 1) % Pages

PageBefore(p) == (p + Pages - 1) % Pages

\* Polls of a held direction; beyond the delay only their place in the repeat matters.
Longer == IF held >= RepeatDelay + RepeatEvery THEN held + 1 - RepeatEvery ELSE held + 1

\* A direction pressed, or held long enough, turns the page.
Turn(pressed, now) ==
    IF pressed \cap {"forward", "backward"} # {}
    THEN /\ TurnTo(IF "forward" \in pressed THEN PageAfter(page) ELSE PageBefore(page))
         /\ UNCHANGED <<held, idle>>
    ELSE /\ held' = Longer
         /\ IF held' > RepeatDelay /\ held' % RepeatEvery = 0
            THEN TurnTo(IF "forward" \in now THEN PageAfter(page) ELSE PageBefore(page))
            ELSE Stay
         /\ UNCHANGED idle

\* Nothing is held: the cycle goes on, until somebody has touched the pad.
Rest ==
    /\ held' = 0
    /\ IF driven' THEN UNCHANGED idle /\ Stay
       ELSE IF idle + 1 < (IF page = 0 THEN SummaryIdle ELSE DetailIdle)
       THEN idle' = idle + 1 /\ Stay
       ELSE idle' = 0 /\ TurnTo(PageAfter(page))

\* Mutant: the latch holds only while a button goes down.
LatchForgets(pressed) == pressed # {}

\* The cycle is over for good once somebody has pressed something.
Latch(pressed) == driven \/ pressed # {}

\* One turn of the loop of obs_screen_present.
Poll ==
    /\ pc = "paging" /\ step = "idle"
    /\ \E now \in Inputs :
          LET pressed == now \ previous
          IN  /\ previous' = now
              /\ driven' = Latch(pressed)
              /\ touched' = (touched \/ pressed # {})
              /\ IF "triangle" \in pressed
                 THEN /\ pc' = "calibrating" /\ page' = 0
                      /\ UNCHANGED <<dvars, held, idle>>
                 ELSE /\ UNCHANGED pc
                      /\ IF "circle" \in pressed
                            /\ pressed \cap {"forward", "backward"} = {}
                         THEN TurnTo(0) /\ held' = 0 /\ UNCHANGED idle
                         ELSE IF now \cap {"forward", "backward"} # {}
                         THEN Turn(pressed, now)
                         ELSE Rest
    /\ UNCHANGED <<mode, live, run>>

\* obs_guided_pad_calibration: frames of its own, then the summary.
Calibrate ==
    /\ pc = "calibrating" /\ step = "idle"
    /\ \/ Draw(Current, Plain("calibration", rows)) /\ Usable(d) /\ UNCHANGED pc
       \/ Draw(Current, Summary) /\ pc' = "paging"
    /\ UNCHANGED <<mode, live, run, pager>>

Program == \/ Hud \/ Begin \/ Skip \/ Attempt \/ Answer \/ CheckDraws \/ CheckReopens
           \/ CheckBorrows \/ CheckReturns \/ EndSection \/ Served \/ Present \/ Leave
           \/ Poll \/ Calibrate

\* The flip is the program's too.
Flipping == Flip /\ UNCHANGED <<mode, pc, live, run, pager>>

Frames == NextFrame /\ UNCHANGED <<mode, pc, live, run, pager>>

Next == Program \/ Flipping \/ Frames

Spec == Init /\ [][Next]_vars

\* The loop and the flips go on, and the platform takes up what is queued.
Fairness == WF_vars(Poll) /\ WF_vars(Flipping) /\ WF_vars(Frames)

FairSpec == Spec /\ Fairness

-----------------------------------------------------------------------------
\* What each variable holds.
TypeOK ==
    /\ DisplayTypeOK /\ content \in [Buffer -> Frame]
    /\ mode \in Modes
    /\ pc \in {"start", "hud", "between", "inside", "lent", "paging", "calibrating",
               "leaving", "end"}
    /\ check \in Nat /\ ran \in 0..check
    /\ live \in BOOLEAN /\ inflight \in BOOLEAN /\ driven \in BOOLEAN
    /\ touched \in BOOLEAN
    /\ rows \in Rows /\ done \in Nat /\ entries \in Entries /\ frames \in 0..3
    /\ page \in 0..PageMax /\ previous \in SUBSET Button /\ idle \in Nat /\ held \in Nat

\* What the screen shows between two frames is nothing at all or the place the run has
\* got to, never an older one: the picture a dead run leaves is how far it got
\* (screen.h:4-8); and while it pages, the page the loop is on.  A frame of the HUD, of a
\* check or of the calibration shows no sections: of those it says only that they have
\* given way by the next summary, which is the one that ends the section.
FreshOrBlank ==
    step = "idle" /\ d.state = "ready" /\ out.queue = <<>> /\ out.scan # None =>
        /\ content[out.scan].rows = rows
        /\ pc = "paging" => content[out.scan].page = page

\* A summary that says SUITE COMPLETE is drawn only when every section has ended
\* (screen.c:549-559).
CompleteIsDone ==
    step = "submit" /\ content[d.fb].says = "COMPLETE" => rows = Len(Sections)

\* The loop never leaves the pages there are, and once anybody has pressed a button,
\* however long ago and whatever was pressed since, only a button turns them: a direction
\* that is down, or one of the two that go back to the first page as it goes down
\* (screen.c:1271-1277, 1290-1334).
ByHand == \/ previous' \cap {"forward", "backward"} # {}
          \/ (previous' \ previous) \cap {"circle", "triangle"} # {}

TheirsToTurn ==
    [][page' # page => page' < Pages /\ (touched' => ByHand)]_vars

\* Nothing on this platform fails or is late, and both buffers are registered.
Calm == /\ platform.refuses = {} /\ platform.closes
        /\ platform.counts = "moves" /\ ~UsesCurrent

Shown(p) == out.scan # None /\ content[out.scan] = DetailOr(p)

\* Left alone, the screen shows every page again and again (screen.c:613-625).
EveryPageComesRound ==
    Calm => [](pc = "paging" /\ []~driven =>
                   \A p \in 0..PageMax : p < Pages => []<>Shown(p))
=============================================================================
