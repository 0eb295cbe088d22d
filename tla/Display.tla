------------------------------ MODULE Display ------------------------------
(***************************************************************************)
(* The framebuffer the report is drawn into: src/probe/display.c, the      *)
(* build for the target.                                                   *)
(*                                                                         *)
(* The display opens the main video output, registers its buffers and      *)
(* draws into the one that is not on screen.  A flip is a request: the     *)
(* platform takes it up at its next frame, as a process of its own, and    *)
(* the program waits for that only so long.  A refused flip has the whole  *)
(* display closed and opened again.                                        *)
(***************************************************************************)
EXTENDS Integers, Sequences, SequencesExt

CONSTANTS
    Platforms,  \* what the program may run on: records, see Platform
    QueueMax    \* flips the platform lets wait

\* What the platform may refuse, at one time and not at another.
Refusable == {"backend", "user", "open", "memory", "register", "flip"}

Platform == [gen: {4, 5},             \* OBSCENE_GEN
             \* The library's own display: not there, or one whose flip answers when the
             \* frame is up, or when the flip is queued.
             backend: {"absent", "waits", "queues"},
             pairs: SUBSET {"previous", "current"},  \* the entry points that resolve
             closes: BOOLEAN,         \* sceVideoOutClose is callable
             \* sceVideoOutGetFlipStatus: a count that moves within the wait or after
             \* it, that never moves because nothing is presented, or no such call.
             counts: {"moves", "late", "still", "silent"},
             refuses: SUBSET Refusable]

ASSUME DisplayAssumption == Platforms \subseteq Platform /\ QueueMax \in Nat

VARIABLES
    platform,   \* never changes
    d,          \* what the code keeps of the display, see Code
    out,        \* what the platform keeps of the output, see Output
    content,    \* the two buffers
    step,       \* inside obs_display_flip: "submit", "accepted", "refused"; or "idle"
    presented,  \* obs_presented, and whether it was tested
    seen        \* history: a frame of this program has been on screen

dvars == <<platform, d, out, content, step, presented, seen>>

None   == -1
Buffer == 0..1

\* obs_state; obs_video_handle > 0; s_oops_disp; the buffer obs_fb points into, if any;
\* and whether obs_fb_base and obs_fb_physical are set.
Code == [state: {"untried", "ready", "absent", "failed"}, handle: BOOLEAN,
         oops: BOOLEAN, fb: Buffer \cup {None}, mapped: BOOLEAN]

\* Who has the main output open, how many buffers are registered with it, the flips that
\* wait to be taken up, and the buffer on screen.
Output == [owner: {"nobody", "display", "check"}, buffers: 0..2,
           queue: Seq(Buffer), scan: Buffer \cup {None}]

Vacant == [owner |-> "nobody", buffers |-> 0, queue |-> <<>>, scan |-> None]

DisplayInit(ground) ==
    /\ platform \in Platforms
    /\ d = [state |-> "untried", handle |-> FALSE, oops |-> FALSE, fb |-> None,
            mapped |-> FALSE]
    /\ out = Vacant
    /\ content = [b \in Buffer |-> ground]
    /\ step = "idle"
    /\ presented = "untested"
    /\ seen = FALSE

Refused(what) == what \in platform.refuses

-----------------------------------------------------------------------------
\* obs_display_holds_output, where the library's display is up for as long as the code
\* has it (oops_display_is_ready).
HoldsOutput(c) == c.oops \/ c.handle

\* The platform after the code has closed what it had: nothing happens to an output that
\* is another's.
Freed(c, o) ==
    IF o.owner = "display" /\ (c.oops \/ (c.handle /\ platform.closes)) THEN Vacant ELSE o

\* obs_release_output; what it does to the platform is Freed.
Released(c) == [c EXCEPT !.oops = FALSE, !.handle = FALSE]

\* obs_display_close
Closed(c) == [Released(c) EXCEPT !.fb = None, !.state = "untried"]

\* Mutant: the handle is dropped and the output never closed.
GaveUpForgetting(c, o, state) == <<[Released(c) EXCEPT !.state = state], o>>

\* obs_give_up and obs_give_up_code
GaveUp(c, o, state) == <<[Released(c) EXCEPT !.state = state], Freed(c, o)>>

\* use_current: only the newer pair resolves, or the build's generation breaks the tie.
UsesCurrent ==
    /\ "current" \in platform.pairs
    /\ "previous" \notin platform.pairs \/ platform.gen >= 5

\* obs_display_open on an output of one's own: the outcomes, each a pair of what the code
\* and what the platform then has.
OpenedByBackend(c, o) ==
    IF platform.gen >= 5 /\ platform.backend # "absent" /\ o.owner = "nobody"
    THEN {<<[c EXCEPT !.state = "ready", !.oops = TRUE, !.fb = 0],
            [Vacant EXCEPT !.owner = "display", !.buffers = 2]>>}
    ELSE {}

OpenedByCalls(c, o) ==
    LET handle == [c EXCEPT !.handle = TRUE]
        opened == [Vacant EXCEPT !.owner = "display"]
        mapped == [handle EXCEPT !.mapped = TRUE]
    IN  IF platform.pairs = {} THEN {GaveUp(c, o, "absent")}
        ELSE (IF Refused("user") THEN {GaveUp(c, o, "absent")} ELSE {})
             \cup (IF o.owner # "nobody" THEN {GaveUp(c, o, "failed")}
                   ELSE (IF Refused("open") THEN {GaveUp(c, o, "failed")} ELSE {})
                        \cup (IF Refused("memory") /\ ~c.mapped
                              THEN {GaveUp(handle, opened, "failed")} ELSE {})
                        \cup (IF Refused("register")
                              THEN {GaveUp(mapped, opened, "failed")} ELSE {})
                        \cup {<<[mapped EXCEPT !.state = "ready", !.fb = 0],
                                [opened EXCEPT !.buffers = IF UsesCurrent THEN 1 ELSE 2]>>})

\* obs_display_open: once it has come to anything, that is the answer.
Opened(c, o) ==
    IF c.state # "untried" THEN {<<c, o>>}
    ELSE OpenedByBackend(c, o)
         \cup (IF OpenedByBackend(c, o) = {} \/ Refused("backend")
               THEN OpenedByCalls(c, o) ELSE {})

\* obs_display_reopen
Reopened(c, o) == Opened(Closed(c), Freed(c, o))

-----------------------------------------------------------------------------
Becomes(results) ==
    /\ \E r \in results : d' = r[1] /\ out' = r[2]
    /\ UNCHANGED <<platform, content, step, presented, seen>>

\* obs_display_open, obs_display_reopen and obs_display_close.  The clear that ends the
\* backend's open is left out: every frame begins with one.
Open   == Becomes(Opened(d, out))
Reopen == Becomes(Reopened(d, out))
Close  == Becomes({<<Closed(d), Freed(d, out)>>})

\* What a caller may draw on: the display as it is, or opened anew when it is not ready.
Current == {<<d, out>>}
Readied == IF d.state = "ready" THEN Current ELSE Reopened(d, out)

Usable(c) == c.state = "ready" /\ c.fb # None

\* Clear, rectangles and text, one whole frame, and the flip that follows it: nothing,
\* where there is no display to draw on.
Draw(results, frame) ==
    /\ step = "idle"
    /\ \E r \in results :
          /\ d' = r[1] /\ out' = r[2]
          /\ content' = IF Usable(r[1]) THEN [content EXCEPT ![r[1].fb] = frame]
                        ELSE content
          /\ step' = IF Usable(r[1]) THEN "submit" ELSE "idle"
    /\ UNCHANGED <<platform, presented, seen>>

\* Mutant: one buffer, drawn into while it is on screen.
NextBufferOfOne(b) == b

NextBuffer(b) == (b + 1) % 2

\* What the library's display may make of a flip it accepts.
BackendTakes ==
    \/ platform.backend = "waits" /\ out' = [out EXCEPT !.scan = d.fb] /\ seen' = TRUE
    \/ platform.backend = "queues" /\ Len(out.queue) < QueueMax
       /\ out' = [out EXCEPT !.queue = Append(@, d.fb)] /\ UNCHANGED seen

\* obs_display_flip in the library's display: an accepted flip is all the code asks for
\* here, and it takes the first one for a frame that was shown.
FlipByBackend ==
    /\ step = "submit" /\ d.oops
    /\ \/ /\ BackendTakes
          /\ d' = [d EXCEPT !.fb = NextBuffer(@)]
          /\ step' = "idle"
          /\ presented' = IF presented = "untested" THEN "presenting" ELSE presented
       \/ /\ Refused("flip") \/ (platform.backend = "queues" /\ Len(out.queue) >= QueueMax)
          /\ step' = "refused"
          /\ UNCHANGED <<d, out, presented, seen>>
    /\ UNCHANGED <<platform, content>>

\* sceVideoOutSubmitFlip: a buffer nobody registered is refused, and so is a flip while
\* the queue is full; anything else is accepted, where the platform is not in the mood.
Submit ==
    /\ step = "submit" /\ ~d.oops
    /\ d' = [d EXCEPT !.fb = NextBuffer(@)]
    /\ LET takes == d.fb < out.buffers /\ Len(out.queue) < QueueMax
       IN  \/ /\ takes
              /\ out' = [out EXCEPT !.queue = Append(@, d.fb)]
              /\ step' = "accepted"
           \/ /\ ~takes \/ Refused("flip")
              /\ step' = "refused"
              /\ UNCHANGED out
    /\ UNCHANGED <<platform, content, presented, seen>>

\* Mutant: no waiting.
WaitsOutNot == TRUE

\* obs_wait_for_flip: over when the count has moved, or when its polls are.
WaitsOut == platform.counts = "moves" => out.queue = <<>>

\* Mutant: an accepted flip is taken for a shown one.
EvidenceOfAcceptance == "presenting"

\* What the count says of the first accepted flip: it moved, it did not, or there is no
\* count to ask.
Evidence ==
    IF platform.counts = "silent" THEN "unestablished"
    ELSE IF out.queue = <<>> /\ platform.counts # "still" THEN "presenting"
    ELSE "blind"

\* The rest of obs_display_flip after an accepted flip.
Accepted ==
    /\ step = "accepted" /\ WaitsOut
    /\ step' = "idle"
    /\ presented' = IF presented = "untested" THEN Evidence ELSE presented
    /\ UNCHANGED <<platform, d, out, content, seen>>

\* And after a refused one: the display is opened anew, and given up when that fails.
\* The frame is not submitted again.
RefusedFlip ==
    /\ step = "refused" /\ (d.oops \/ WaitsOut)
    /\ \E r \in Reopened(d, out) :
          LET final == IF r[1].state = "ready" THEN r ELSE GaveUp(r[1], r[2], "failed")
          IN  d' = final[1] /\ out' = final[2]
    /\ step' = "idle"
    /\ UNCHANGED <<platform, content, presented, seen>>

Flip == FlipByBackend \/ Submit \/ Accepted \/ RefusedFlip

\* The platform's next frame: the oldest flip is taken up.
NextFrame ==
    /\ out.queue # <<>>
    /\ out' = [out EXCEPT !.queue = Tail(@),
                          !.scan = IF platform.counts = "still" THEN @
                                   ELSE Head(out.queue)]
    /\ seen' = (seen \/ platform.counts # "still")
    /\ UNCHANGED <<platform, d, content, step, presented>>

-----------------------------------------------------------------------------
\* What each part holds.
DisplayTypeOK ==
    /\ platform \in Platforms
    /\ d \in Code
    /\ out \in Output
    /\ DOMAIN content = Buffer
    /\ step \in {"idle", "submit", "accepted", "refused"}
    /\ presented \in {"untested", "presenting", "blind", "unestablished"}
    /\ seen \in BOOLEAN

\* While the platform has the output open for this display, the display says that it
\* holds it: no check is told the output is free and then finds it refused (D250,
\* display.c:167-190).  A platform without sceVideoOutClose cannot be given it back.
OutputAnswered ==
    platform.closes /\ out.owner = "display" => HoldsOutput(d)

\* Every flip in use is over before the next frame is drawn: the library waits for its
\* own, and the program for those the platform takes up within the wait.
InTime == IF d.oops THEN platform.backend = "waits" ELSE platform.counts = "moves"

\* A frame is drawn into a buffer that is neither on screen nor waiting to be, where
\* flips are over in time (D256 and D257, display.c:118-137 and 765-796).
NoTearing ==
    step = "submit" /\ InTime => d.fb # out.scan /\ d.fb \notin ToSet(out.queue)

\* The report says that a frame reached the display only when one has: not because the
\* calls were accepted (D187, display.c:750-763 and 849-894).  Of a library that answers
\* before the frame is up it says so all the same (display.c:803-817), and this does not
\* hold there.
PresentedIsSeen == presented = "presenting" => seen \/ platform.backend = "queues"

\* Every flip names a buffer that the display registered: OBS_FB_COUNT is how many are
\* registered, and the flips alternate between them (display.c:118-137).
FlipsAreRegistered == step = "submit" => d.fb < out.buffers
=============================================================================
