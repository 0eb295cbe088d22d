--------------------------- MODULE Screen_proofs ---------------------------
(***************************************************************************)
(* Theorems of Screen: what holds of the display whatever the run, the     *)
(* checks and the viewer do with it.                                       *)
(*                                                                         *)
(* All that Screen does to the display is in DisplayStep.  An open ends in *)
(* a display and an output that agree (Agree), with nothing of its own on  *)
(* screen or queued (Clear); the flip keeps the buffer it hands to the     *)
(* drawing code apart from the one it submitted.  The types, and that the  *)
(* screen is never behind the run, follow at the end.                      *)
(***************************************************************************)
EXTENDS Screen, SequenceTheorems, TLAPS

Agree(c, o) ==
    /\ c \in Code /\ o \in Output
    /\ c.state = "ready" => c.fb \in Buffer /\ (c.oops \/ c.handle)
    /\ c.state # "ready" => ~c.oops /\ ~c.handle /\ c.fb = None
    /\ platform.closes /\ o.owner = "display" => c.oops \/ c.handle

Prompt(c) == IF c.oops THEN platform.backend = "waits" ELSE platform.counts = "moves"

Apart(c, o) == o.queue = <<>> /\ c.fb # o.scan

Clear(c, o) == c.state = "ready" /\ Prompt(c) => Apart(c, o)

Good(r) == Agree(r[1], r[2]) /\ Clear(r[1], r[2])

Steps == {"idle", "submit", "accepted", "refused"}

IInv ==
    /\ platform \in Platform
    /\ step \in Steps
    /\ Agree(d, out)
    /\ step # "idle" => d.state = "ready"
    /\ step \in {"idle", "submit"} \/ d.oops => Clear(d, out)
    /\ step = "accepted" /\ platform.counts = "moves" =>
          out.queue = <<NextBuffer(d.fb)>> \/ Apart(d, out)
    /\ step = "accepted" /\ out.queue = <<>> /\ platform.counts # "still" => seen
    /\ seen \in BOOLEAN
    /\ PresentedIsSeen

Drawn(results) ==
    /\ step = "idle"
    /\ \E r \in results :
          /\ d' = r[1] /\ out' = r[2]
          /\ step' = IF Usable(r[1]) THEN "submit" ELSE "idle"
    /\ UNCHANGED <<platform, presented, seen>>

\* Everything that happens to the display.
DisplayStep ==
    \/ UNCHANGED dvars
    \/ Drawn(Current) \/ Drawn(Readied) \/ Drawn(Opened(d, out))
    \/ step = "idle" /\ Reopen
    \/ step = "idle" /\ Close
    \/ CheckBorrows \/ CheckReturns
    \/ Flip \/ NextFrame

LEMMA OnlyDisplaySteps == [Next]_vars => DisplayStep
<1> SUFFICES ASSUME [Next]_vars PROVE DisplayStep
    OBVIOUS
<1>1. CASE UNCHANGED vars
    BY <1>1 DEF vars, dvars, DisplayStep
<1>2. CASE Hud
    BY <1>2 DEF Hud, DisplayStep, Draw, Drawn, dvars
<1>3. CASE Begin
    BY <1>3 DEF Begin, DisplayStep, Draw, Drawn, dvars
<1>4. CASE Skip \/ Attempt \/ Answer \/ Served
    BY <1>4 DEF Skip, Attempt, Answer, Served, DisplayStep, dvars
<1>5. CASE CheckDraws
    BY <1>5 DEF CheckDraws, DisplayStep, Draw, Drawn
<1>6. CASE CheckReopens
    BY <1>6 DEF CheckReopens, Inside, DisplayStep
<1>7. CASE CheckBorrows \/ CheckReturns
    BY <1>7 DEF DisplayStep
<1>8. CASE EndSection
    BY <1>8 DEF EndSection, DisplayStep, Draw, Drawn, dvars
<1>9. CASE Present
    BY <1>9 DEF Present, DisplayStep, Draw, Drawn
<1>10. CASE Leave
    BY <1>10 DEF Leave, DisplayStep
<1>11. CASE Poll
    BY <1>11 DEF Poll, Turn, TurnTo, Rest, Stay, DisplayStep, Draw, Drawn, dvars
<1>12. CASE Calibrate
    BY <1>12 DEF Calibrate, DisplayStep, Draw, Drawn
<1>13. CASE Flipping \/ Frames
    BY <1>13 DEF Flipping, Frames, DisplayStep
<1> QED
    BY <1>1, <1>2, <1>3, <1>4, <1>5, <1>6, <1>7, <1>8, <1>9, <1>10, <1>11, <1>12, <1>13
    DEF Next, Program

-----------------------------------------------------------------------------
LEMMA VacantType == Vacant \in Output /\ Vacant.queue = <<>> /\ Vacant.scan = None
                    /\ Vacant.owner = "nobody"
BY DEF Vacant, Output, Buffer, None

LEMMA Values == 0 \in Buffer \cup {None} /\ 1 \in 0..2 /\ 2 \in 0..2
BY DEF Buffer

\* What a give-up leaves, wherever an open gives up.
LEMMA GaveUpGood ==
    ASSUME NEW c \in Code, NEW o \in Output, NEW state \in {"absent", "failed"},
           c.fb = None, platform.closes /\ o.owner = "display" => c.oops \/ c.handle
    PROVE  Good(GaveUp(c, o, state))
<1>1. Released(c) \in Code /\ ~Released(c).oops /\ ~Released(c).handle
      /\ Released(c).fb = None
    BY DEF Released, Code
<1> DEFINE g == [Released(c) EXCEPT !.state = state]
<1>2. g \in Code /\ ~g.oops /\ ~g.handle /\ g.fb = None /\ g.state = state
    BY <1>1 DEF Code
<1>3. Freed(c, o) \in Output
    BY VacantType DEF Freed
<1>4. platform.closes => Freed(c, o).owner # "display"
    BY VacantType DEF Freed
<1> QED
    BY <1>2, <1>3, <1>4 DEF GaveUp, Good, Agree, Clear

LEMMA ClosedGood ==
    ASSUME NEW c, NEW o, Agree(c, o)
    PROVE  /\ Agree(Closed(c), Freed(c, o)) /\ Clear(Closed(c), Freed(c, o))
           /\ Closed(c).state = "untried"
<1>1. Closed(c) \in Code /\ ~Closed(c).oops /\ ~Closed(c).handle
      /\ Closed(c).fb = None /\ Closed(c).state = "untried"
    BY DEF Closed, Released, Code, Agree, None
<1>2. Freed(c, o) \in Output /\ (platform.closes => Freed(c, o).owner # "display")
    BY VacantType DEF Freed, Agree
<1> QED
    BY <1>1, <1>2 DEF Agree, Clear

LEMMA OpenedGood ==
    ASSUME NEW c, NEW o, Agree(c, o), Clear(c, o), NEW r \in Opened(c, o)
    PROVE  Good(r)
<1>1. CASE c.state # "untried"
    BY <1>1 DEF Opened, Good
<1>2. CASE c.state = "untried" /\ r \in OpenedByBackend(c, o)
    <2> DEFINE c1 == [c EXCEPT !.state = "ready", !.oops = TRUE, !.fb = 0]
               o1 == [Vacant EXCEPT !.owner = "display", !.buffers = 2]
    <2>1. r = <<c1, o1>>
        BY <1>2 DEF OpenedByBackend
    <2>2. c \in Code
        BY DEF Agree
    <2>3. c1.state = "ready" /\ c1.oops = TRUE /\ c1.fb = 0
        BY <2>2 DEF Code
    <2>4. c1 \in Code
        BY <2>2, Values DEF Code
    <2>5. o1 \in Output /\ o1.queue = <<>> /\ o1.scan = None
        BY VacantType, Values DEF Output
    <2> HIDE DEF c1, o1
    <2>6. Agree(c1, o1) /\ Clear(c1, o1)
        BY <2>3, <2>4, <2>5 DEF Agree, Clear, Apart, None, Buffer
    <2> QED
        BY <2>1, <2>6 DEF Good
<1>3. CASE c.state = "untried" /\ r \in OpenedByCalls(c, o)
    <2> DEFINE handle == [c EXCEPT !.handle = TRUE]
               opened == [Vacant EXCEPT !.owner = "display"]
               mapped == [handle EXCEPT !.mapped = TRUE]
               c1 == [mapped EXCEPT !.state = "ready", !.fb = 0]
               o1 == [opened EXCEPT !.buffers = IF UsesCurrent THEN 1 ELSE 2]
    <2>1. handle \in Code /\ handle.handle = TRUE /\ handle.fb = None
        BY <1>3 DEF Agree, Code
    <2>2. mapped \in Code /\ mapped.handle = TRUE /\ mapped.fb = None
        BY <2>1 DEF Code
    <2>3. opened \in Output /\ opened.queue = <<>> /\ opened.scan = None
        BY VacantType DEF Output
    <2>4. c1 \in Code /\ c1.handle = TRUE /\ c1.state = "ready" /\ c1.fb = 0
        BY <2>2, Values DEF Code
    <2>5. o1 \in Output /\ o1.queue = <<>> /\ o1.scan = None
        BY <2>3, Values DEF Output
    <2>6. Good(<<c1, o1>>)
        <3> HIDE DEF c1, o1
        <3>1. Agree(c1, o1) /\ Clear(c1, o1)
            BY <2>4, <2>5 DEF Agree, Clear, Apart, None, Buffer
        <3> QED
            BY <3>1 DEF Good
    <2>7. c.fb = None /\ c \in Code /\ o \in Output
          /\ (platform.closes /\ o.owner = "display" => c.oops \/ c.handle)
        BY <1>3 DEF Agree
    <2>8. Good(GaveUp(c, o, "absent")) /\ Good(GaveUp(c, o, "failed"))
        BY <2>7, GaveUpGood
    <2>9. Good(GaveUp(handle, opened, "failed")) /\ Good(GaveUp(mapped, opened, "failed"))
        BY <2>1, <2>2, <2>3, GaveUpGood
    <2>10. r \in {GaveUp(c, o, "absent"), GaveUp(c, o, "failed"),
                  GaveUp(handle, opened, "failed"), GaveUp(mapped, opened, "failed"),
                  <<c1, o1>>}
        BY <1>3 DEF OpenedByCalls
    <2> QED
        BY <2>6, <2>8, <2>9, <2>10
<1> QED
    BY <1>1, <1>2, <1>3 DEF Opened

LEMMA ReopenedGood ==
    ASSUME NEW c, NEW o, Agree(c, o), NEW r \in Reopened(c, o)
    PROVE  Good(r)
BY ClosedGood, OpenedGood DEF Reopened

-----------------------------------------------------------------------------
\* A step that leaves the display idle with a good result, or with a frame drawn on it.
LEMMA DrawnKeeps ==
    ASSUME IInv, NEW results, \A r \in results : Good(r), Drawn(results)
    PROVE  IInv'
<1>1. PICK r \in results : /\ d' = r[1] /\ out' = r[2]
                           /\ step' = IF Usable(r[1]) THEN "submit" ELSE "idle"
    BY DEF Drawn
<1>2. Agree(d', out') /\ Clear(d', out')
    BY <1>1 DEF Good
<1>3. Agree(d, out)' /\ Clear(d, out)'
    BY <1>2 DEF Drawn, Agree, Clear, Prompt, Apart
<1> QED
    BY <1>1, <1>3 DEF Drawn, IInv, Usable, Steps, PresentedIsSeen

LEMMA BecomesKeeps ==
    ASSUME IInv, step = "idle", NEW results, \A r \in results : Good(r), Becomes(results)
    PROVE  IInv'
<1>1. Agree(d', out') /\ Clear(d', out')
    BY DEF Good, Becomes
<1>2. Agree(d, out)' /\ Clear(d, out)'
    BY <1>1 DEF Becomes, Agree, Clear, Prompt, Apart
<1> QED
    BY <1>2 DEF Becomes, IInv, Steps, PresentedIsSeen

LEMMA NextBufferFact == \A b \in Buffer : NextBuffer(b) \in Buffer /\ NextBuffer(b) # b
                                          /\ NextBuffer(NextBuffer(b)) = b
BY DEF NextBuffer, Buffer

\* A lend: the display is closed, and the output perhaps the check's.
LEMMA BorrowKeeps == IInv /\ CheckBorrows => IInv'
<1> SUFFICES ASSUME IInv, CheckBorrows PROVE IInv'
    OBVIOUS
<1>1. /\ d' = Closed(d)
      /\ out' = Freed(d, out) \/ out' = [Vacant EXCEPT !.owner = "check"]
      /\ step = "idle" /\ UNCHANGED <<platform, step, presented, seen>>
    BY DEF CheckBorrows, Inside
<1>2. Agree(Closed(d), Freed(d, out)) /\ Closed(d).state = "untried"
    BY ClosedGood DEF IInv
<1>3. LET o == [Vacant EXCEPT !.owner = "check"]
      IN  o \in Output /\ o.owner = "check"
    BY VacantType DEF Output
<1>4. Agree(d, out)' /\ d'.state = "untried"
    BY <1>1, <1>2, <1>3 DEF Agree
<1> QED
    BY <1>1, <1>4 DEF IInv, Clear, PresentedIsSeen

LEMMA ReturnKeeps == IInv /\ CheckReturns => IInv'
<1> SUFFICES ASSUME IInv, CheckReturns PROVE IInv'
    OBVIOUS
<1> DEFINE o == IF out.owner = "check" /\ platform.closes THEN Vacant ELSE out
<1>1. step = "idle" /\ Becomes(Opened(d, o))
    BY DEF CheckReturns
<1>2. Agree(d, o) /\ Clear(d, o)
    <2>1. CASE o = out
        BY <2>1, <1>1 DEF IInv
    <2>2. CASE o = Vacant
        <3>1. Agree(d, Vacant)
            BY VacantType DEF IInv, Agree
        <3>2. d.state = "ready" /\ Prompt(d) => Apart(d, Vacant)
            BY VacantType DEF IInv, Agree, Apart, None, Buffer
        <3> QED
            BY <2>2, <3>1, <3>2 DEF Clear
    <2> QED
        BY <2>1, <2>2
<1>3. \A r \in Opened(d, o) : Good(r)
    BY <1>2, OpenedGood
<1> QED
    BY <1>1, <1>3, BecomesKeeps

LEMMA BackendKeeps == IInv /\ FlipByBackend => IInv'
<1> SUFFICES ASSUME IInv, FlipByBackend PROVE IInv'
    OBVIOUS
<1>1. CASE step' = "refused" /\ UNCHANGED <<d, out, presented, seen>>
    BY <1>1 DEF FlipByBackend, IInv, Steps, Agree, Clear, Prompt, Apart, PresentedIsSeen
<1>2. CASE /\ d' = [d EXCEPT !.fb = NextBuffer(@)] /\ step' = "idle"
           /\ BackendTakes /\ UNCHANGED platform
           /\ presented' = IF presented = "untested" THEN "presenting" ELSE presented
    <2>1. d \in Code /\ out \in Output /\ d.state = "ready" /\ d.fb \in Buffer /\ d.oops
          /\ Clear(d, out) /\ platform' = platform /\ out.queue \in Seq(Buffer)
        BY <1>2 DEF FlipByBackend, IInv, Agree, Output
    <2>2. NextBuffer(d.fb) \in Buffer /\ NextBuffer(d.fb) # d.fb
        BY <2>1, NextBufferFact
    <2>3. d' \in Code /\ d'.state = "ready" /\ d'.fb = NextBuffer(d.fb) /\ d'.oops = d.oops
          /\ d'.handle = d.handle
        BY <1>2, <2>1, <2>2 DEF Code
    <2>4. CASE platform.backend = "waits"
        <3>1. out' = [out EXCEPT !.scan = d.fb] /\ seen' = TRUE
            BY <1>2, <2>4 DEF BackendTakes
        <3>2. out' \in Output /\ out'.scan = d.fb /\ out'.queue = out.queue
              /\ out'.owner = out.owner
            BY <2>1, <3>1 DEF Output
        <3>3. Apart(d, out)
            BY <2>1, <2>4 DEF Clear, Prompt
        <3>4. Agree(d, out)' /\ Clear(d, out)'
            BY <2>1, <2>2, <2>3, <3>2, <3>3 DEF Agree, Clear, Apart
        <3> QED
            BY <1>2, <2>1, <3>1, <3>4 DEF IInv, Steps, PresentedIsSeen
    <2>5. CASE platform.backend = "queues"
        <3>1. out' = [out EXCEPT !.queue = Append(@, d.fb)] /\ seen' = seen
            BY <1>2, <2>5 DEF BackendTakes
        <3>2. Append(out.queue, d.fb) \in Seq(Buffer)
            BY <2>1
        <3>3. out' \in Output /\ out'.owner = out.owner
            BY <2>1, <3>1, <3>2 DEF Output
        <3>4. Agree(d, out)' /\ Clear(d, out)'
            BY <2>1, <2>2, <2>3, <2>5, <3>3 DEF Agree, Clear, Prompt
        <3> QED
            BY <1>2, <2>1, <2>5, <3>1, <3>4 DEF IInv, Steps, PresentedIsSeen
    <2> QED
        BY <1>2, <2>4, <2>5 DEF BackendTakes
<1> QED
    BY <1>1, <1>2 DEF FlipByBackend

LEMMA SubmitKeeps == IInv /\ Submit => IInv'
<1> SUFFICES ASSUME IInv, Submit PROVE IInv'
    OBVIOUS
<1>1. d \in Code /\ out \in Output /\ d.state = "ready" /\ d.fb \in Buffer /\ ~d.oops
      /\ platform' = platform /\ Clear(d, out) /\ out.queue \in Seq(Buffer)
    BY DEF Submit, IInv, Agree, Output
<1>2. NextBuffer(d.fb) \in Buffer /\ NextBuffer(NextBuffer(d.fb)) = d.fb
    BY <1>1, NextBufferFact
<1>3. d' \in Code /\ d'.state = "ready" /\ d'.fb = NextBuffer(d.fb) /\ d'.oops = d.oops
      /\ d'.handle = d.handle
    BY <1>1, <1>2 DEF Submit, Code
<1>4. CASE out' = [out EXCEPT !.queue = Append(@, d.fb)] /\ step' = "accepted"
    <2>1. Append(out.queue, d.fb) \in Seq(Buffer) /\ Append(out.queue, d.fb) # <<>>
        BY <1>1
    <2>2. out' \in Output /\ out'.owner = out.owner /\ out'.queue = Append(out.queue, d.fb)
        BY <1>1, <1>4, <2>1 DEF Output
    <2>3. Agree(d, out)'
        BY <1>1, <1>2, <1>3, <2>2 DEF Agree, IInv
    <2>4. platform.counts = "moves" => out'.queue = <<d.fb>>
        <3>1. platform.counts = "moves" => out.queue = <<>>
            BY <1>1 DEF Clear, Prompt, Apart
        <3>2. Append(<<>>, d.fb) = <<d.fb>>
            OBVIOUS
        <3> QED
            BY <2>2, <3>1, <3>2
    <2> QED
        BY <1>1, <1>2, <1>3, <1>4, <2>1, <2>2, <2>3, <2>4
        DEF Submit, IInv, Steps, PresentedIsSeen
<1>5. CASE UNCHANGED out /\ step' = "refused"
    <2>1. Agree(d, out)'
        BY <1>1, <1>2, <1>3, <1>5 DEF Agree, IInv
    <2> QED
        BY <1>1, <1>3, <1>5, <2>1 DEF Submit, IInv, Steps, PresentedIsSeen
<1> QED
    BY <1>4, <1>5 DEF Submit

LEMMA AcceptedKeeps == IInv /\ Accepted => IInv'
<1> SUFFICES ASSUME IInv, Accepted PROVE IInv'
    OBVIOUS
<1>1. /\ step = "accepted" /\ step' = "idle" /\ UNCHANGED <<platform, d, out, seen>>
      /\ platform.counts = "moves" => out.queue = <<>>
    BY DEF Accepted, WaitsOut
<1>2. Agree(d, out)' /\ (platform.counts = "moves" => Apart(d, out))
    BY <1>1 DEF IInv, Agree
<1>3. Clear(d, out)'
    BY <1>1, <1>2 DEF IInv, Clear, Prompt, Apart
<1>4. PresentedIsSeen'
    BY <1>1 DEF Accepted, Evidence, IInv, PresentedIsSeen
<1> QED
    BY <1>1, <1>2, <1>3, <1>4 DEF IInv, Steps

LEMMA RefusedKeeps == IInv /\ RefusedFlip => IInv'
<1> SUFFICES ASSUME IInv, RefusedFlip PROVE IInv'
    OBVIOUS
<1>1. PICK r \in Reopened(d, out) :
         LET final == IF r[1].state = "ready" THEN r ELSE GaveUp(r[1], r[2], "failed")
         IN  d' = final[1] /\ out' = final[2]
    BY DEF RefusedFlip
<1>2. Good(r)
    BY ReopenedGood DEF IInv
<1>3. r[1].state # "ready" => Good(GaveUp(r[1], r[2], "failed"))
    BY <1>2, GaveUpGood DEF Good, Agree
<1>4. Agree(d', out') /\ Clear(d', out')
    BY <1>1, <1>2, <1>3 DEF Good
<1>5. Agree(d, out)' /\ Clear(d, out)'
    BY <1>4 DEF RefusedFlip, Agree, Clear, Prompt, Apart
<1> QED
    BY <1>5 DEF RefusedFlip, IInv, Steps, PresentedIsSeen

LEMMA FrameKeeps == IInv /\ NextFrame => IInv'
<1> SUFFICES ASSUME IInv, NextFrame PROVE IInv'
    OBVIOUS
<1>1. out.queue # <<>> /\ UNCHANGED <<platform, d, step, presented>> /\ out \in Output
      /\ out.queue \in Seq(Buffer) /\ seen' = (seen \/ platform.counts # "still")
    BY DEF NextFrame, IInv, Agree, Output
<1>2. Tail(out.queue) \in Seq(Buffer) /\ Head(out.queue) \in Buffer
    BY <1>1
<1>3. out' \in Output /\ out'.owner = out.owner /\ out'.queue = Tail(out.queue)
      /\ (platform.counts # "still" => out'.scan = Head(out.queue))
    BY <1>1, <1>2 DEF NextFrame, Output
<1>4. Agree(d, out)'
    BY <1>1, <1>3 DEF IInv, Agree
<1>5. step \in {"idle", "submit"} \/ d.oops => ~(d.state = "ready" /\ Prompt(d))
    BY <1>1 DEF IInv, Clear, Apart
<1>6. step = "accepted" /\ platform.counts = "moves" => Apart(d, out)'
    <2> HAVE step = "accepted" /\ platform.counts = "moves"
    <2>1. out.queue = <<NextBuffer(d.fb)>> /\ d.fb \in Buffer
        BY <1>1 DEF IInv, Apart, Agree
    <2>2. Tail(out.queue) = <<>> /\ Head(out.queue) = NextBuffer(d.fb)
        BY <2>1
    <2> QED
        BY <1>1, <1>3, <2>1, <2>2, NextBufferFact DEF Apart
<1> QED
    BY <1>1, <1>3, <1>4, <1>5, <1>6 DEF IInv, Clear, Prompt, PresentedIsSeen

-----------------------------------------------------------------------------
LEMMA InitIInv == Init => IInv
<1> SUFFICES ASSUME Init PROVE IInv
    OBVIOUS
<1>1. platform \in Platform /\ step = "idle" /\ presented = "untested" /\ seen = FALSE
    BY DisplayAssumption DEF Init, DisplayInit
<1>2. d \in Code /\ d.state = "untried" /\ ~d.oops /\ ~d.handle /\ d.fb = None
    BY DEF Init, DisplayInit, Code
<1>3. out \in Output /\ out.owner = "nobody"
    BY VacantType DEF Init, DisplayInit
<1> QED
    BY <1>1, <1>2, <1>3 DEF IInv, Steps, Agree, Clear, PresentedIsSeen

LEMMA NextIInv == IInv /\ [Next]_vars => IInv'
<1> SUFFICES ASSUME IInv, [Next]_vars PROVE IInv'
    OBVIOUS
<1>1. Agree(d, out) /\ (step = "idle" => Clear(d, out))
    BY DEF IInv
<1>2. CASE UNCHANGED dvars
    BY <1>2 DEF dvars, IInv, Agree, Clear, Prompt, Apart, PresentedIsSeen
<1>3. CASE Drawn(Current)
    <2>1. \A r \in Current : Good(r)
        BY <1>1, <1>3 DEF Current, Good, Drawn
    <2> QED
        BY <1>3, <2>1, DrawnKeeps
<1>4. CASE Drawn(Readied)
    <2>1. \A r \in Readied : Good(r)
        BY <1>1, <1>4, ReopenedGood DEF Readied, Current, Good, Drawn
    <2> QED
        BY <1>4, <2>1, DrawnKeeps
<1>5. CASE Drawn(Opened(d, out))
    <2>1. \A r \in Opened(d, out) : Good(r)
        BY <1>1, <1>5, OpenedGood DEF Drawn
    <2> QED
        BY <1>5, <2>1, DrawnKeeps
<1>6. CASE step = "idle" /\ Reopen
    <2>1. \A r \in Reopened(d, out) : Good(r)
        BY <1>1, ReopenedGood
    <2> QED
        BY <1>6, <2>1, BecomesKeeps DEF Reopen
<1>7. CASE step = "idle" /\ Close
    <2>1. \A r \in {<<Closed(d), Freed(d, out)>>} : Good(r)
        BY <1>1, ClosedGood DEF Good
    <2> QED
        BY <1>7, <2>1, BecomesKeeps DEF Close
<1>8. CASE CheckBorrows \/ CheckReturns \/ Flip \/ NextFrame
    BY <1>8, BorrowKeeps, ReturnKeeps, BackendKeeps, SubmitKeeps, AcceptedKeeps,
       RefusedKeeps, FrameKeeps DEF Flip
<1> QED
    BY <1>2, <1>3, <1>4, <1>5, <1>6, <1>7, <1>8, OnlyDisplaySteps DEF DisplayStep

LEMMA Invariance == Spec => []IInv
BY InitIInv, NextIInv, PTL DEF Spec

\* The display never forgets an output it has open (display.c:167-190): whatever is
\* refused, and whatever a check does to it.
THEOREM Answered == Spec => []OutputAnswered
<1>1. IInv => OutputAnswered
    BY DEF IInv, Agree, OutputAnswered, HoldsOutput
<1> QED
    BY <1>1, Invariance, PTL

\* No frame is drawn into a buffer on screen or on its way there (display.c:118-137):
\* two buffers are enough, where the flips in use are over in time.
THEOREM Untorn == Spec => []NoTearing
<1>1. IInv => NoTearing
    BY DEF IInv, Clear, Prompt, Apart, NoTearing, InTime, ToSet
<1> QED
    BY <1>1, Invariance, PTL

\* "A frame reached the display" is said of a frame that did (display.c:750-763), whatever
\* is refused, opened again or lent in between: of the flips the program submits itself,
\* and of a library's that answer when the frame is up.  Nothing is said here of a library
\* that answers before.
THEOREM Evident == Spec => []PresentedIsSeen
<1>1. IInv => PresentedIsSeen
    BY DEF IInv
<1> QED
    BY <1>1, Invariance, PTL

-----------------------------------------------------------------------------
(* The types.  Only a draw changes a buffer, and only a poll turns a page. *)

Places == {"start", "hud", "between", "inside", "lent", "paging", "calibrating",
           "leaving", "end"}

\* What TypeOK says of the screen's own variables, the buffers apart.
ScreenTypes ==
    /\ mode \in Modes /\ pc \in Places
    /\ check \in Nat /\ ran \in 0..check
    /\ live \in BOOLEAN /\ inflight \in BOOLEAN /\ driven \in BOOLEAN
    /\ touched \in BOOLEAN
    /\ rows \in Rows /\ done \in Nat /\ entries \in Entries /\ frames \in 0..3
    /\ page \in 0..PageMax /\ previous \in SUBSET Button /\ idle \in Nat /\ held \in Nat

Drawings == content \in [Buffer -> Frame]

\* However many entries, there are pages for all of them and never one too many.
LEMMA PagesFit ==
    ASSUME entries \in Entries
    PROVE  Pages \in 1..PageMax
<1>1. CheckMax \in Nat \ {0} /\ PageRows \in Nat \ {0} /\ entries \in 0..CheckMax
    BY ScreenAssumption DEF Entries
<1>2. CASE entries = 0
    BY <1>1, <1>2 DEF Pages, PageMax
<1>3. CASE entries # 0
    <2> DEFINE q == (entries + PageRows - 1) \div PageRows
    <2>1. entries + PageRows - 1 \in Nat
        BY <1>1
    <2>2. q \in Int /\ PageRows * q <= entries + PageRows - 1
          /\ entries + PageRows - 1 < PageRows * (q + 1)
        BY <1>1, <2>1
    <2>3. q >= 0
        BY <1>1, <2>1, <2>2
    <2>4. q <= entries
        BY <1>1, <2>2
    <2> QED
        BY <1>1, <1>3, <2>2, <2>3, <2>4 DEF Pages, PageMax
<1> QED
    BY <1>2, <1>3

LEMMA TurnsFit ==
    ASSUME entries \in Entries, page \in 0..PageMax
    PROVE  /\ 0 < Pages /\ PageAfter(page) < Pages /\ PageBefore(page) < Pages
           /\ PageAfter(page) \in 0..PageMax /\ PageBefore(page) \in 0..PageMax
<1>1. Pages \in 1..PageMax /\ PageMax \in Nat
    BY PagesFit, ScreenAssumption DEF PageMax
<1>2. \A a \in Nat, b \in Nat \ {0} : a % b \in 0..(b - 1)
    OBVIOUS
<1> HIDE DEF Pages, PageMax
<1>3. page + 1 \in Nat /\ page + Pages - 1 \in Nat /\ Pages \in Nat \ {0}
      /\ 0..(Pages - 1) \subseteq 0..PageMax
    BY <1>1
<1>4. PageAfter(page) \in 0..(Pages - 1) /\ PageBefore(page) \in 0..(Pages - 1)
    BY <1>2, <1>3 DEF PageAfter, PageBefore
<1> QED
    BY <1>1, <1>3, <1>4

LEMMA PlainFrame ==
    ASSUME NEW kind \in {"ground", "hud", "summary", "detail", "check", "calibration"},
           NEW r \in Rows
    PROVE  Plain(kind, r) \in Frame
BY ScreenAssumption DEF Plain, Frame, PageMax

LEMMA SummaryFrame == ASSUME rows \in Rows PROVE Summary \in Frame
<1>1. Plain("summary", rows) \in Frame
    BY PlainFrame
<1>2. Says \in {"", "RUNNING", "COMPLETE"}
    BY DEF Says
<1> QED
    BY <1>1, <1>2 DEF Summary, Frame

LEMMA DetailFrame ==
    ASSUME rows \in Rows, NEW p \in 0..PageMax
    PROVE  DetailOr(p) \in Frame
<1>1. Plain("detail", rows) \in Frame
    BY PlainFrame
<1> QED
    BY <1>1, SummaryFrame DEF DetailOr, Frame

\* A frame goes into one of the buffers, whatever an open came to.
LEMMA DrawTypes ==
    ASSUME Drawings, IInv', NEW results, NEW frame \in Frame, Draw(results, frame)
    PROVE  Drawings'
<1>1. PICK r \in results :
         /\ d' = r[1]
         /\ content' = IF Usable(r[1]) THEN [content EXCEPT ![r[1].fb] = frame]
                       ELSE content
    BY DEF Draw
<1>2. d' \in Code
    BY DEF IInv, Agree
<1> QED
    BY <1>1, <1>2 DEF Drawings

LEMMA ScreenTypesKept == IInv' /\ ScreenTypes /\ [Next]_vars => ScreenTypes'
<1> SUFFICES ASSUME IInv', ScreenTypes, [Next]_vars PROVE ScreenTypes'
    OBVIOUS
<1> USE ScreenAssumption DEF ScreenTypes, Places
<1>1. CASE UNCHANGED vars
    BY <1>1 DEF vars
<1>2. CASE Hud
    <2>1. live' \in BOOLEAN
        BY <1>2 DEF Hud
    <2>2. frames' \in 0..3 /\ pc' \in Places
        BY <1>2 DEF Hud
    <2>3. UNCHANGED <<mode, check, rows, done, ran, inflight, entries, pager>>
        BY <1>2 DEF Hud
    <2> QED
        BY <2>1, <2>2, <2>3 DEF pager
<1>3. CASE Begin
    <2>1. live' \in BOOLEAN
        BY <1>3 DEF Begin
    <2>2. rows' \in Rows /\ done' \in Nat /\ check' \in Nat /\ ran' \in 0..check'
          /\ pc' \in Places
        BY <1>3 DEF Begin, Rows
    <2>3. UNCHANGED <<mode, inflight, entries, frames, pager>>
        BY <1>3 DEF Begin
    <2> QED
        BY <2>1, <2>2, <2>3 DEF pager
<1>4. CASE Skip \/ Answer
    <2>1. /\ inflight' = FALSE /\ check' = check + 1 /\ pc' = "between"
          /\ entries' = (IF entries < CheckMax THEN entries + 1 ELSE entries)
          /\ ran' = ran + 1 \/ ran' = ran
          /\ UNCHANGED <<mode, live, rows, done, frames, pager>>
        BY <1>4 DEF Skip, Answer, Record
    <2>2. entries' \in Entries /\ ran' \in 0..check'
        BY <2>1 DEF Entries
    <2>3. inflight' \in BOOLEAN
        BY <2>1, Zenon
    <2>4. check' \in Nat /\ pc' \in Places
        BY <2>1
    <2>5. UNCHANGED <<mode, live, rows, done, frames, page, previous, idle, held, driven,
                      touched>>
        BY <2>1 DEF pager
    <2> QED
        BY <2>2, <2>3, <2>4, <2>5
<1>5. CASE Attempt
    BY <1>5 DEF Attempt, pager
<1>6. CASE CheckDraws \/ CheckReopens \/ CheckBorrows \/ CheckReturns
    BY <1>6 DEF CheckDraws, CheckReopens, CheckBorrows, CheckReturns, Inside, run, pager
<1>7. CASE EndSection
    <2>1. rows' \in Rows
        BY <1>7 DEF EndSection, Rows
    <2> QED
        BY <1>7, <2>1 DEF EndSection, pager
<1>8. CASE Served \/ Present \/ Leave \/ Calibrate \/ Flipping \/ Frames
    BY <1>8 DEF Served, Present, Leave, Calibrate, Flipping, Frames, run, pager
<1>9. CASE Poll
    <2>1. /\ PageAfter(page) \in 0..PageMax /\ PageBefore(page) \in 0..PageMax
          /\ 0 \in 0..PageMax
        BY TurnsFit DEF PageMax
    <2>2. previous' \in SUBSET Button
        BY <1>9 DEF Poll
    <2>a. driven' \in BOOLEAN /\ touched' \in BOOLEAN
        BY <1>9 DEF Poll, Latch
    <2>3. pc' \in Places /\ UNCHANGED <<mode, live, run>>
        BY <1>9 DEF Poll
    <2>4. page' \in 0..PageMax
        BY <1>9, <2>1 DEF Poll, Turn, TurnTo, Rest, Stay
    <2>5. idle' \in Nat
        BY <1>9 DEF Poll, Turn, TurnTo, Rest, Stay
    <2>6. held' \in Nat
        <3>1. Longer \in Nat
            BY DEF Longer
        <3> QED
            BY <1>9, <3>1 DEF Poll, Turn, Rest
    <2> QED
        BY <2>2, <2>a, <2>3, <2>4, <2>5, <2>6 DEF run
<1> QED
    BY <1>1, <1>2, <1>3, <1>4, <1>5, <1>6, <1>7, <1>8, <1>9 DEF Next, Program

LEMMA DrawingsKept ==
    IInv' /\ ScreenTypes /\ ScreenTypes' /\ Drawings /\ [Next]_vars => Drawings'
<1> SUFFICES ASSUME IInv', ScreenTypes, ScreenTypes', Drawings, [Next]_vars PROVE Drawings'
    OBVIOUS
<1>1. rows \in Rows /\ rows' \in Rows /\ page \in 0..PageMax /\ page' \in 0..PageMax
      /\ 0 \in 0..PageMax
    <2>1. rows \in Rows /\ rows' \in Rows /\ page \in 0..PageMax /\ page' \in 0..PageMax
        BY DEF ScreenTypes
    <2>2. 0 \in 0..PageMax
        BY ScreenAssumption DEF PageMax
    <2> QED
        BY <2>1, <2>2
<1>2. Summary \in Frame
    BY <1>1, SummaryFrame
<1>3. Summary' \in Frame
    <2>1. Plain("summary", rows') \in Frame
        BY <1>1, PlainFrame
    <2>2. Says' \in {"", "RUNNING", "COMPLETE"}
        BY DEF Says
    <2> QED
        BY <2>1, <2>2 DEF Summary, Frame
<1>4. /\ Plain("hud", rows) \in Frame /\ Plain("check", rows) \in Frame
      /\ Plain("calibration", rows) \in Frame
    BY <1>1, PlainFrame
<1>5. ASSUME UNCHANGED content PROVE Drawings'
    BY <1>5 DEF Drawings
<1>6. CASE UNCHANGED vars
    BY <1>5, <1>6 DEF vars
<1>7. CASE Hud
    BY <1>4, <1>5, <1>7, DrawTypes DEF Hud, dvars
<1>8. CASE Begin
    BY <1>3, <1>5, <1>8, DrawTypes DEF Begin, dvars
<1>9. CASE Skip \/ Attempt \/ Answer \/ Served
    BY <1>5, <1>9 DEF Skip, Attempt, Answer, Served, dvars
<1>10. CASE CheckDraws
    BY <1>4, <1>10, DrawTypes DEF CheckDraws
<1>11. CASE CheckReopens \/ CheckReturns \/ Leave
    BY <1>5, <1>11 DEF CheckReopens, CheckReturns, Leave, Reopen, Close, Becomes
<1>12. CASE CheckBorrows
    BY <1>5, <1>12 DEF CheckBorrows
<1>13. CASE EndSection
    BY <1>3, <1>5, <1>13, DrawTypes DEF EndSection, dvars
<1>14. CASE Present
    BY <1>2, <1>14, DrawTypes DEF Present
<1>15. CASE Poll
    <2>1. ASSUME NEW p \in {0, PageAfter(page), PageBefore(page)}, TurnTo(p) PROVE Drawings'
        <3>1. entries \in Entries
            BY DEF ScreenTypes
        <3>2. p \in 0..PageMax
            BY <1>1, <3>1, TurnsFit
        <3> QED
            BY <1>1, <2>1, <3>2, DetailFrame, DrawTypes DEF TurnTo
    <2>2. ASSUME Stay PROVE Drawings'
        BY <1>5, <2>2 DEF Stay, dvars
    <2> QED
        BY <1>5, <1>15, <2>1, <2>2 DEF Poll, Turn, Rest, dvars
<1>16. CASE Calibrate
    BY <1>2, <1>4, <1>16, DrawTypes DEF Calibrate
<1>17. CASE Flipping \/ Frames
    BY <1>5, <1>17 DEF Flipping, Frames, Flip, FlipByBackend, Submit, Accepted, RefusedFlip,
       NextFrame
<1> QED
    BY <1>6, <1>7, <1>8, <1>9, <1>10, <1>11, <1>12, <1>13, <1>14, <1>15, <1>16, <1>17
    DEF Next, Program

\* What the display's own variables hold beyond IInv.
Told == platform \in Platforms /\ presented \in {"untested", "presenting", "blind",
                                                 "unestablished"}

LEMMA ToldKept == Told /\ [Next]_vars => Told'
<1> SUFFICES ASSUME Told, DisplayStep PROVE Told'
    BY OnlyDisplaySteps
<1>1. CASE UNCHANGED <<platform, presented>>
    BY <1>1 DEF Told
<1>2. CASE UNCHANGED dvars \/ Drawn(Current) \/ Drawn(Readied) \/ Drawn(Opened(d, out))
    BY <1>1, <1>2 DEF dvars, Drawn
<1>3. CASE Reopen \/ Close \/ CheckBorrows \/ CheckReturns
    BY <1>1, <1>3 DEF Reopen, Close, CheckBorrows, CheckReturns, Becomes
<1>4. CASE FlipByBackend
    BY <1>4 DEF FlipByBackend, Told
<1>5. CASE Submit \/ RefusedFlip \/ NextFrame
    BY <1>1, <1>5 DEF Submit, RefusedFlip, NextFrame
<1>6. CASE Accepted
    BY <1>6 DEF Accepted, Evidence, Told
<1> QED
    BY <1>2, <1>3, <1>4, <1>5, <1>6 DEF DisplayStep, Flip

LEMMA InitTypes == Init => ScreenTypes /\ Drawings /\ Told
<1> SUFFICES ASSUME Init PROVE ScreenTypes /\ Drawings /\ Told
    OBVIOUS
<1>1. Ground \in Frame
    BY PlainFrame, ScreenAssumption DEF Ground, Rows
<1>2. Drawings /\ Told
    BY <1>1 DEF Init, DisplayInit, Drawings, Told
<1>3. ScreenTypes
    <2>1. rows \in Rows /\ entries \in Entries /\ page \in 0..PageMax
        BY ScreenAssumption DEF Init, Rows, Entries, PageMax
    <2>2. mode \in Modes /\ pc \in Places /\ previous \in SUBSET Button
          /\ frames \in 0..3 /\ {check, done, idle, held} \subseteq Nat /\ ran \in 0..check
        BY DEF Init, Places
    <2>3. {live, inflight, driven, touched} \subseteq BOOLEAN
        BY DEF Init
    <2> QED
        BY <2>1, <2>2, <2>3 DEF ScreenTypes
<1> QED
    BY <1>2, <1>3

\* Every variable has a value the code can give it: each buffer holds one whole frame, the
\* page is one there may be, and the counts stay within what has been recorded.
THEOREM TypeCorrect == Spec => []TypeOK
<1>1. IInv /\ ScreenTypes /\ Drawings /\ Told => TypeOK
    BY DEF IInv, Agree, ScreenTypes, Places, Drawings, Told, Steps, TypeOK, DisplayTypeOK
<1> QED
    BY InitIInv, NextIInv, InitTypes, ScreenTypesKept, DrawingsKept, ToldKept, <1>1, PTL
    DEF Spec

-----------------------------------------------------------------------------
(* Whose the pages are.  Only a poll turns one, to a page there is; and    *)
(* once a button has been pressed the loop's own latch is set (Latched)    *)
(* and nothing takes it back.                                              *)

Latched == touched => driven

LEMMA OnlyPolls ==
    [Next]_vars => Poll \/ UNCHANGED <<page, driven, touched>>
BY DEF Next, Program, Hud, Begin, Skip, Attempt, Answer, Record, CheckDraws, CheckReopens,
   CheckBorrows, CheckReturns, Inside, EndSection, Served, Present, Leave, Calibrate,
   Flipping, Frames, pager, vars

LEMMA LatchedKept == Latched /\ [Next]_vars => Latched'
BY OnlyPolls DEF Latched, Poll, Latch

LEMMA PollTurns ==
    ASSUME ScreenTypes, Latched, Poll, page' # page
    PROVE  page' < Pages /\ (touched' => ByHand)
<1>1. 0 < Pages /\ PageAfter(page) < Pages /\ PageBefore(page) < Pages
    BY TurnsFit DEF ScreenTypes
<1> HIDE DEF Pages, PageAfter, PageBefore
<1>2. PICK now \in Inputs :
         LET pressed == now \ previous
         IN  /\ previous' = now /\ driven' = Latch(pressed)
             /\ touched' = (touched \/ pressed # {})
             /\ IF "triangle" \in pressed THEN page' = 0
                ELSE IF "circle" \in pressed /\ pressed \cap {"forward", "backward"} = {}
                     THEN page' = 0
                     ELSE IF now \cap {"forward", "backward"} # {} THEN Turn(pressed, now)
                     ELSE Rest
    BY DEF Poll, TurnTo
<1> DEFINE pressed == now \ previous
<1>3. touched' => driven'
    BY <1>2 DEF Latched, Latch
<1>4. CASE "triangle" \in pressed \/ "circle" \in pressed
    <2>1. ByHand
        BY <1>2, <1>4 DEF ByHand
    <2>2. page' \in {0, PageAfter(page), PageBefore(page)}
        BY <1>2 DEF Turn, TurnTo, Rest, Stay
    <2> QED
        BY <1>1, <2>1, <2>2
<1>5. CASE now \cap {"forward", "backward"} # {}
    <2>1. ByHand
        BY <1>2, <1>5 DEF ByHand
    <2>2. page' \in {0, PageAfter(page), PageBefore(page)}
        BY <1>2 DEF Turn, TurnTo, Rest, Stay
    <2> QED
        BY <1>1, <2>1, <2>2
<1>6. CASE ~("triangle" \in pressed \/ "circle" \in pressed)
           /\ now \cap {"forward", "backward"} = {}
    <2>1. Rest
        BY <1>2, <1>6
    <2>2. ~driven' /\ page' = PageAfter(page)
        BY <2>1 DEF Rest, TurnTo, Stay
    <2> QED
        BY <1>1, <1>3, <2>2
<1> QED
    BY <1>4, <1>5, <1>6

\* The loop stays on the pages there are, and a page somebody turned to stays: once any
\* button has been pressed, at any time since the screen came up, no rest of any length
\* turns the page again (screen.c:1271-1277).
THEOREM Theirs == Spec => TheirsToTurn
<1>1. Init => Latched
    BY DEF Init, Latched
<1>2. ScreenTypes /\ Latched /\ [Next]_vars
          => [page' # page => page' < Pages /\ (touched' => ByHand)]_vars
    BY OnlyPolls, PollTurns
<1> QED
    BY <1>1, <1>2, InitIInv, NextIInv, InitTypes, ScreenTypesKept, LatchedKept, PTL
    DEF Spec, TheirsToTurn

-----------------------------------------------------------------------------
(* What a person sees.  A frame is right (Right) when it is of the place   *)
(* the run has got to.  The one being submitted is, and so is the last in  *)
(* the queue, which ends on the screen; the count of rows moves only with  *)
(* a frame that shows it, or where there is nothing to see (Lit).          *)

Right(b) == content[b].rows = rows /\ (pc = "paging" => content[b].page = page)

Fresh ==
    /\ step = "submit" => Right(d.fb)
    /\ step \in {"idle", "accepted"} /\ d.state = "ready" =>
          /\ out.queue = <<>> /\ out.scan # None => Right(out.scan)
          /\ out.queue # <<>> => Right(out.queue[Len(out.queue)])

\* Where nothing is presented, nothing is on screen but what a library that waits put
\* there.
Stilled ==
    platform.counts = "still" /\ d.state = "ready" /\ ~(d.oops /\ platform.backend = "waits")
        => out.scan = None

Lit ==
    /\ live => mode # "headless"
    /\ d.state = "ready" => live \/ (pc \in {"start", "hud"} /\ mode = "serve")
    /\ pc = "hud" => mode = "serve"
    /\ pc \in {"lent", "paging", "calibrating"} => live
    /\ pc # "paging" => page = 0

\* Nothing is on screen or waiting.
Blank(o) == o.queue = <<>> /\ o.scan = None

\* An open leaves things alone, or comes to nothing, or begins with a blank screen.
Begun(c, o, r) == r = <<c, o>> \/ r[1].state # "ready" \/ Blank(r[2])

LEMMA GaveUpState ==
    ASSUME NEW c \in Code, NEW o, NEW state
    PROVE  GaveUp(c, o, state)[1].state = state
BY DEF GaveUp, Released, Code

LEMMA OpenedBegun ==
    ASSUME NEW c \in Code, NEW o, NEW r \in Opened(c, o)
    PROVE  Begun(c, o, r)
<1>1. CASE c.state # "untried"
    BY <1>1 DEF Opened, Begun
<1>2. CASE c.state = "untried" /\ r \in OpenedByBackend(c, o)
    <2> DEFINE o1 == [Vacant EXCEPT !.owner = "display", !.buffers = 2]
    <2>1. r[2] = o1
        BY <1>2 DEF OpenedByBackend
    <2>2. Blank(o1)
        BY VacantType DEF Output, Blank
    <2> QED
        BY <2>1, <2>2 DEF Begun
<1>3. CASE c.state = "untried" /\ r \in OpenedByCalls(c, o)
    <2> DEFINE handle == [c EXCEPT !.handle = TRUE]
               opened == [Vacant EXCEPT !.owner = "display"]
               mapped == [handle EXCEPT !.mapped = TRUE]
               c1 == [mapped EXCEPT !.state = "ready", !.fb = 0]
               o1 == [opened EXCEPT !.buffers = IF UsesCurrent THEN 1 ELSE 2]
    <2>1. handle \in Code /\ mapped \in Code
        BY DEF Code
    <2>2. Blank(o1)
        BY VacantType DEF Output, Blank
    <2>3. Begun(c, o, GaveUp(c, o, "absent")) /\ Begun(c, o, GaveUp(c, o, "failed"))
          /\ Begun(c, o, GaveUp(handle, opened, "failed"))
          /\ Begun(c, o, GaveUp(mapped, opened, "failed"))
        BY <2>1, GaveUpState DEF Begun
    <2>4. Begun(c, o, <<c1, o1>>)
        BY <2>2 DEF Begun
    <2>5. r \in {GaveUp(c, o, "absent"), GaveUp(c, o, "failed"),
                 GaveUp(handle, opened, "failed"), GaveUp(mapped, opened, "failed"),
                 <<c1, o1>>}
        BY <1>3 DEF OpenedByCalls
    <2> QED
        BY <2>3, <2>4, <2>5
<1> QED
    BY <1>1, <1>2, <1>3 DEF Opened

LEMMA ReopenedBegun ==
    ASSUME NEW c \in Code, NEW o, NEW r \in Reopened(c, o)
    PROVE  r[1].state # "ready" \/ Blank(r[2])
<1>1. Closed(c) \in Code /\ Closed(c).state = "untried"
    BY DEF Closed, Released, Code, None
<1>2. Begun(Closed(c), Freed(c, o), r)
    BY <1>1, OpenedBegun DEF Reopened
<1> QED
    BY <1>1, <1>2 DEF Begun

\* A draw of a frame that is right.
LEMMA DrawFresh ==
    ASSUME IInv', Drawings, NEW results, NEW frame, Draw(results, frame),
           frame.rows = rows', pc' = "paging" => frame.page = page'
    PROVE  Fresh'
<1>1. PICK r \in results :
         /\ d' = r[1]
         /\ content' = IF Usable(r[1]) THEN [content EXCEPT ![r[1].fb] = frame]
                       ELSE content
         /\ step' = IF Usable(r[1]) THEN "submit" ELSE "idle"
    BY DEF Draw
<1>2. CASE Usable(d')
    <2>1. d'.fb \in Buffer
        BY <1>2 DEF IInv, Agree, Usable
    <2>2. content'[d'.fb] = frame /\ step' = "submit"
        BY <1>1, <1>2, <2>1 DEF Drawings
    <2> QED
        BY <2>2 DEF Fresh, Right
<1>3. CASE ~Usable(d')
    <2>1. d'.state # "ready" /\ step' = "idle"
        BY <1>1, <1>3 DEF IInv, Agree, Usable, Buffer, None
    <2> QED
        BY <2>1 DEF Fresh
<1> QED
    BY <1>2, <1>3

\* A step that opens or closes the display, or leaves it, between frames.
LEMMA BegunFresh ==
    ASSUME Fresh, step = "idle", NEW r, Begun(d, out, r), d' = r[1], out' = r[2],
           UNCHANGED <<platform, content, step, rows>>, pc' # "paging"
    PROVE  Fresh'
<1>1. CASE r = <<d, out>>
    BY <1>1 DEF Fresh, Right
<1>2. CASE d'.state # "ready" \/ Blank(out')
    BY <1>2 DEF Fresh, Blank
<1> QED
    BY <1>1, <1>2 DEF Begun

LEMMA StaysFresh ==
    ASSUME Fresh, UNCHANGED <<platform, d, out, content, step, rows>>,
           pc' = "paging" => pc = "paging" /\ page' = page
    PROVE  Fresh'
BY DEF Fresh, Right

\* The flip, and the frame the platform takes up.
LEMMA FlipFresh ==
    ASSUME IInv, Stilled, Fresh, Flip \/ NextFrame, UNCHANGED <<pc, rows, page>>
    PROVE  Fresh'
<1>1. /\ d \in Code /\ out \in Output /\ out.queue \in Seq(Buffer)
      /\ step # "idle" => d.state = "ready" /\ d.fb \in Buffer
      /\ platform' = platform
      /\ content' = content
    BY DEF IInv, Agree, Output, Flip, FlipByBackend, Submit, Accepted, RefusedFlip, NextFrame
<1>2. UNCHANGED <<content, pc, rows, page>>
    BY <1>1
<1>3. CASE FlipByBackend
    <2>1. CASE step' = "refused"
        BY <2>1 DEF Fresh
    <2>2. CASE /\ d' = [d EXCEPT !.fb = NextBuffer(@)] /\ out' = [out EXCEPT !.scan = d.fb]
               /\ step' = "idle" /\ step = "submit" /\ d.oops
               /\ platform.backend = "waits"
        <3>1. out.queue = <<>>
            BY <1>1, <2>2 DEF IInv, Clear, Prompt, Apart
        <3>2. out'.queue = <<>> /\ out'.scan = d.fb /\ d'.oops = d.oops
            BY <1>1, <2>2, <3>1 DEF Output, Code
        <3>3. Right(d.fb)
            BY <2>2 DEF Fresh
        <3> QED
            BY <1>2, <2>2, <3>2, <3>3 DEF Fresh, Right
    <2>3. CASE out' = [out EXCEPT !.queue = Append(@, d.fb)] /\ step = "submit"
               /\ step' = "idle"
        <3> DEFINE q == Append(out.queue, d.fb)
        <3>1. d.fb \in Buffer
            BY <1>1, <2>3
        <3>2. q # <<>> /\ q[Len(q)] = d.fb
            BY <1>1, <3>1
        <3>3. out'.queue = q
            BY <1>1, <2>3 DEF Output
        <3>4. Right(q[Len(q)])
            BY <2>3, <3>2 DEF Fresh
        <3> HIDE DEF q
        <3> QED
            BY <1>2, <2>3, <3>2, <3>3, <3>4 DEF Fresh, Right
    <2> QED
        BY <1>3, <2>1, <2>2, <2>3 DEF FlipByBackend, BackendTakes
<1>4. CASE Submit
    <2>1. CASE step' = "refused"
        BY <2>1 DEF Fresh
    <2>2. CASE out' = [out EXCEPT !.queue = Append(@, d.fb)] /\ step' = "accepted"
        <3>1. d.fb \in Buffer /\ step = "submit" /\ d' = [d EXCEPT !.fb = NextBuffer(@)]
            BY <1>1, <1>4 DEF Submit
        <3> DEFINE q == Append(out.queue, d.fb)
        <3>2. q # <<>> /\ q[Len(q)] = d.fb
            BY <1>1, <3>1
        <3>3. out'.queue = q /\ out'.scan = out.scan
            BY <1>1, <2>2 DEF Output
        <3>4. Right(q[Len(q)])
            BY <3>1, <3>2 DEF Fresh
        <3> HIDE DEF q
        <3> QED
            BY <1>2, <2>2, <3>2, <3>3, <3>4 DEF Fresh, Right
    <2> QED
        BY <1>4, <2>1, <2>2 DEF Submit
<1>5. CASE Accepted
    <2>1. step' = "idle" /\ step = "accepted" /\ UNCHANGED <<d, out>>
        BY <1>5 DEF Accepted
    <2> QED
        BY <1>1, <1>2, <2>1 DEF Fresh, Right
<1>6. CASE RefusedFlip
    <2>1. step' = "idle"
        BY <1>6 DEF RefusedFlip
    <2>2. d'.state # "ready" \/ Blank(out')
        <3>1. PICK r \in Reopened(d, out) :
                 LET final == IF r[1].state = "ready" THEN r
                              ELSE GaveUp(r[1], r[2], "failed")
                 IN  d' = final[1] /\ out' = final[2]
            BY <1>6 DEF RefusedFlip
        <3>2. r[1].state = "ready" => Blank(r[2])
            BY <1>1, <3>1, ReopenedBegun
        <3>3. r[1] \in Code
            BY <3>1, ReopenedGood DEF IInv, Good, Agree
        <3> QED
            BY <3>1, <3>2, <3>3, GaveUpState
    <2> QED
        BY <2>1, <2>2 DEF Fresh, Blank
<1>7. CASE NextFrame
    <2> DEFINE q == out.queue
    <2>1. q # <<>> /\ q \in Seq(Buffer) /\ d' = d /\ step' = step
        BY <1>1, <1>7 DEF NextFrame
    <2>2. out'.queue = Tail(q)
          /\ out'.scan = (IF platform.counts = "still" THEN out.scan ELSE Head(q))
        BY <1>1, <1>7 DEF NextFrame, Output
    <2>3. Tail(q) # <<>> => Tail(q)[Len(Tail(q))] = q[Len(q)]
        BY <2>1
    <2>4. Tail(q) = <<>> => Head(q) = q[Len(q)]
        <3>1. Len(Tail(q)) = Len(q) - 1 /\ Len(q) >= 1 /\ Len(q) \in Nat
            BY <2>1
        <3>2. Tail(q) = <<>> => Len(q) = 1
            <4>1. Len(<<>>) = 0
                OBVIOUS
            <4>2. Tail(q) = <<>> => Len(Tail(q)) = 0
                BY <4>1, Zenon
            <4> QED
                BY <3>1, <4>2
        <3> QED
            BY <2>1, <3>2
    <2>5. d.state = "ready" => ~(d.oops /\ platform.backend = "waits")
        BY <2>1 DEF IInv, Clear, Prompt, Apart
    <2>6. CASE step = "submit"
        BY <1>2, <2>1, <2>6 DEF Fresh, Right
    <2>7. CASE step \in {"idle", "accepted"} /\ d.state = "ready"
        <3>1. Right(q[Len(q)])
            BY <2>1, <2>7 DEF Fresh
        <3>2. platform.counts = "still" => out'.scan = None
            BY <2>2, <2>5, <2>7 DEF Stilled
        <3> HIDE DEF q
        <3>3. Tail(q) # <<>> => Right(out'.queue[Len(out'.queue)])
            BY <2>2, <2>3, <3>1
        <3>4. Tail(q) = <<>> /\ out'.scan # None => Right(out'.scan)
            BY <2>2, <2>4, <3>1, <3>2
        <3> QED
            BY <1>2, <2>1, <2>2, <2>7, <3>3, <3>4 DEF Fresh, Right
    <2>8. CASE step # "submit" /\ ~(step \in {"idle", "accepted"} /\ d.state = "ready")
        BY <2>1, <2>8 DEF Fresh
    <2> QED
        BY <2>6, <2>7, <2>8
<1> QED
    BY <1>3, <1>4, <1>5, <1>6, <1>7 DEF Flip

LEMMA StilledKept == IInv /\ Stilled /\ [Next]_vars => Stilled'
<1> SUFFICES ASSUME IInv, Stilled, DisplayStep PROVE Stilled'
    BY OnlyDisplaySteps
<1>1. d \in Code /\ out \in Output
    BY DEF IInv, Agree
<1>2. ASSUME NEW r, Begun(d, out, r), d' = r[1], out' = r[2], platform' = platform
      PROVE  Stilled'
    BY <1>2 DEF Begun, Blank, Stilled
<1>3. CASE UNCHANGED dvars
    BY <1>3 DEF dvars, Stilled
<1>4. \A r \in Opened(d, out) : Begun(d, out, r)
    BY <1>1, OpenedBegun
<1>5. \A r \in Reopened(d, out) : Begun(d, out, r)
    BY <1>1, ReopenedBegun DEF Begun
<1>6. \A r \in Readied \cup Current : Begun(d, out, r)
    BY <1>5 DEF Readied, Current, Begun
<1>7. CASE Drawn(Current) \/ Drawn(Readied) \/ Drawn(Opened(d, out))
    <2>1. PICK r : Begun(d, out, r) /\ d' = r[1] /\ out' = r[2]
        BY <1>4, <1>6, <1>7 DEF Drawn
    <2> QED
        BY <1>2, <1>7, <2>1 DEF Drawn
<1>8. CASE Reopen
    BY <1>2, <1>5, <1>8 DEF Reopen, Becomes
<1>9. CASE Close \/ CheckBorrows
    <2>1. d' = Closed(d)
        BY <1>9 DEF Close, CheckBorrows, Becomes
    <2>2. Closed(d).state = "untried"
        BY ClosedGood DEF IInv
    <2> QED
        BY <2>1, <2>2 DEF Stilled
<1>10. CASE CheckReturns
    <2> DEFINE o == IF out.owner = "check" /\ platform.closes THEN Vacant ELSE out
    <2>1. PICK r \in Opened(d, o) : d' = r[1] /\ out' = r[2] /\ platform' = platform
        BY <1>10 DEF CheckReturns, Becomes
    <2>2. Begun(d, o, r)
        BY <1>1, <2>1, OpenedBegun
    <2>3. o = out \/ o.scan = None
        BY VacantType
    <2> QED
        BY <2>1, <2>2, <2>3 DEF Begun, Blank, Stilled
<1>11. CASE FlipByBackend
    <2>1. d.oops /\ d'.oops = d.oops /\ d'.state = d.state /\ platform' = platform
        BY <1>1, <1>11 DEF FlipByBackend, Code
    <2>2. platform.backend # "waits" => out'.scan = out.scan
        BY <1>1, <1>11 DEF FlipByBackend, BackendTakes, Output
    <2> QED
        BY <2>1, <2>2 DEF Stilled
<1>12. CASE Submit \/ NextFrame \/ Accepted
    <2>1. d'.oops = d.oops /\ d'.state = d.state /\ platform' = platform
        BY <1>1, <1>12 DEF Submit, NextFrame, Accepted, Code
    <2>2. platform.counts = "still" => out'.scan = out.scan
        BY <1>1, <1>12 DEF Submit, NextFrame, Accepted, Output
    <2> QED
        BY <2>1, <2>2 DEF Stilled
<1>13. CASE RefusedFlip
    <2>1. PICK r \in Reopened(d, out) :
             LET final == IF r[1].state = "ready" THEN r ELSE GaveUp(r[1], r[2], "failed")
             IN  d' = final[1] /\ out' = final[2]
        BY <1>13 DEF RefusedFlip
    <2>2. r[1].state = "ready" => Blank(r[2])
        BY <1>1, <2>1, ReopenedBegun
    <2>3. r[1] \in Code
        BY <2>1, ReopenedGood DEF IInv, Good, Agree
    <2>4. d'.state = "ready" => Blank(out')
        BY <2>1, <2>2, <2>3, GaveUpState
    <2> QED
        BY <2>4 DEF Stilled, Blank
<1> QED
    BY <1>3, <1>7, <1>8, <1>9, <1>10, <1>11, <1>12, <1>13 DEF DisplayStep, Flip

LEMMA LitKept == IInv /\ Lit /\ [Next]_vars => Lit'
<1> SUFFICES ASSUME IInv, Lit, [Next]_vars PROVE Lit'
    OBVIOUS
<1>1. /\ HoldsOutput(d) => d.state = "ready"
      /\ step # "idle" => d.state = "ready"
      /\ Closed(d).state = "untried"
    BY ClosedGood DEF IInv, Agree, HoldsOutput
<1>2. CASE UNCHANGED vars
    BY <1>2 DEF vars, Lit
<1>3. CASE Hud
    <2>1. UNCHANGED <<mode, page>> /\ pc = "hud" /\ pc' \in {"hud", "start"}
        BY <1>3 DEF Hud, pager
    <2>2. mode = "serve" /\ page = 0
        BY <2>1 DEF Lit
    <2> QED
        BY <2>1, <2>2 DEF Lit
<1>4. CASE Begin
    <2>1. UNCHANGED <<mode, page>> /\ pc = "start" /\ pc' = "between"
        BY <1>4 DEF Begin, pager
    <2>2. page = 0
        BY <2>1 DEF Lit
    <2>3. CASE mode = "headless"
        <3>1. d' = d /\ live' = FALSE
            BY <1>4, <2>3 DEF Begin, dvars
        <3>2. d.state # "ready"
            BY <2>1, <2>3 DEF Lit
        <3> QED
            BY <2>1, <2>2, <3>1, <3>2 DEF Lit
    <2>4. CASE mode # "headless"
        <3>1. live' = (d'.state = "ready")
            BY <1>4, <2>4 DEF Begin
        <3> QED
            BY <2>1, <2>2, <2>4, <3>1 DEF Lit
    <2> QED
        BY <2>3, <2>4
<1>5. CASE Skip \/ Attempt \/ Answer \/ Served
    <2>1. UNCHANGED <<d, mode, live, page>> /\ pc \in {"between", "inside", "lent"}
        BY <1>5 DEF Skip, Attempt, Answer, Served, RunOver, Record, pager, run, dvars
    <2>2. pc' \in {"between", "inside"} \/ pc' = "start"
        BY <1>5 DEF Skip, Attempt, Answer, Served, Record
    <2> QED
        BY <2>1, <2>2 DEF Lit
<1>6. CASE CheckDraws \/ CheckReopens \/ CheckBorrows \/ CheckReturns
    <2>1. /\ UNCHANGED <<mode, live, page>>
          /\ pc = "lent" \/ d.state = "ready"
          /\ pc \in {"inside", "lent"} /\ pc' \in {"inside", "lent"}
        BY <1>1, <1>6 DEF CheckDraws, CheckReopens, CheckBorrows, CheckReturns, Inside, pager
    <2>2. live /\ page = 0
        BY <2>1 DEF Lit
    <2> QED
        BY <2>1, <2>2 DEF Lit
<1>7. CASE Leave
    <2>1. UNCHANGED <<mode, live, page>> /\ d' = Closed(d) /\ pc' = "end" /\ pc # "paging"
        BY <1>7 DEF Leave, RunOver, Close, Becomes, pager
    <2> QED
        BY <1>1, <2>1 DEF Lit
<1>8. CASE EndSection
    <2>1. UNCHANGED <<mode, live, page, pc>> /\ pc = "between" /\ (live \/ d' = d)
        BY <1>8 DEF EndSection, pager, dvars
    <2> QED
        BY <2>1 DEF Lit
<1>9. CASE Present \/ Calibrate
    <2>1. UNCHANGED <<mode, live, page>> /\ pc \in {"between", "calibrating"}
          /\ pc' \in {"paging", "leaving", "calibrating"}
        BY <1>9 DEF Present, Calibrate, RunOver, pager
    <2>2. live
        BY <1>9 DEF Present, Calibrate, Lit
    <2>3. page = 0
        BY <2>1 DEF Lit
    <2> QED
        BY <2>1, <2>2, <2>3 DEF Lit
<1>10. CASE Poll
    <2>1. UNCHANGED <<mode, live>> /\ pc = "paging"
          /\ (pc' = "paging" \/ (pc' = "calibrating" /\ page' = 0))
        BY <1>10 DEF Poll, run
    <2> QED
        BY <2>1 DEF Lit
<1>11. CASE Flipping
    <2>1. UNCHANGED <<mode, live, page, pc>> /\ d.state = "ready"
        BY <1>1, <1>11 DEF Flipping, Flip, FlipByBackend, Submit, Accepted, RefusedFlip, pager
    <2> QED
        BY <2>1 DEF Lit
<1>12. CASE Frames
    BY <1>12 DEF Frames, NextFrame, Lit, pager
<1> QED
    BY <1>2, <1>3, <1>4, <1>5, <1>6, <1>7, <1>8, <1>9, <1>10, <1>11, <1>12 DEF Next, Program

LEMMA FreshKept ==
    IInv /\ IInv' /\ ScreenTypes /\ Drawings /\ Stilled /\ Lit /\ Fresh /\ [Next]_vars
        => Fresh'
<1> SUFFICES ASSUME IInv, IInv', ScreenTypes, Drawings, Stilled, Lit, Fresh, [Next]_vars
             PROVE  Fresh'
    OBVIOUS
<1>1. /\ d \in Code /\ (HoldsOutput(d) => d.state = "ready")
      /\ Closed(d).state = "untried"
    BY ClosedGood DEF IInv, Agree, HoldsOutput
<1>2. \A kind, r : Plain(kind, r).rows = r /\ Plain(kind, r).page = 0
    BY DEF Plain
<1>3. Summary.rows = rows /\ Summary.page = 0 /\ Summary'.rows = rows' /\ Summary'.page = 0
    BY <1>2 DEF Summary, Plain
<1>4. \A p : DetailOr(p).rows = rows /\ DetailOr(p).page = p
    BY <1>3 DEF DetailOr, Plain
<1>5. ASSUME d'.state # "ready", step' # "submit" PROVE Fresh'
    BY <1>5 DEF Fresh
<1>6. CASE UNCHANGED vars
    BY <1>6, StaysFresh DEF vars
<1>7. CASE Hud
    <2>1. UNCHANGED rows /\ pc = "hud" /\ pc' # "paging"
        BY <1>7 DEF Hud
    <2>2. CASE frames = 0
        BY <1>7, <2>1, <2>2, StaysFresh DEF Hud, dvars
    <2>3. CASE frames # 0
        BY <1>2, <1>7, <2>1, <2>3, DrawFresh DEF Hud
    <2> QED
        BY <2>2, <2>3
<1>8. CASE Begin
    <2>1. pc = "start" /\ pc' = "between"
        BY <1>8 DEF Begin
    <2>2. CASE mode = "headless"
        <3>1. d' = d /\ step' = step /\ step = "idle"
            BY <1>8, <2>1, <2>2 DEF Begin, dvars, IInv, Lit
        <3>2. d.state # "ready"
            BY <2>1, <2>2 DEF Lit
        <3> QED
            BY <1>5, <3>1, <3>2
    <2>3. CASE mode # "headless"
        BY <1>3, <1>8, <2>1, <2>3, DrawFresh DEF Begin
    <2> QED
        BY <2>2, <2>3
<1>9. CASE Skip \/ Attempt \/ Answer \/ Served
    BY <1>9, StaysFresh DEF Skip, Attempt, Answer, Served, Record, pager, run, dvars
<1>10. CASE CheckDraws
    <2>1. UNCHANGED rows /\ pc' # "paging"
        BY <1>10 DEF CheckDraws, Inside, run
    <2> QED
        BY <1>2, <1>10, <2>1, DrawFresh DEF CheckDraws
<1>11. CASE CheckReopens
    <2>1. PICK r \in Reopened(d, out) : d' = r[1] /\ out' = r[2]
        BY <1>11 DEF CheckReopens, Reopen, Becomes
    <2>2. Begun(d, out, r)
        BY <1>1, <2>1, ReopenedBegun DEF Begun
    <2>3. step = "idle" /\ UNCHANGED <<platform, content, step, rows>> /\ pc' # "paging"
        BY <1>11 DEF CheckReopens, Inside, Reopen, Becomes, run
    <2> QED
        BY <2>1, <2>2, <2>3, BegunFresh
<1>12. CASE CheckBorrows \/ Leave
    <2>1. d' = Closed(d) /\ step = "idle" /\ step' = step
        BY <1>12 DEF CheckBorrows, Inside, Leave, Close, Becomes
    <2> QED
        BY <1>1, <1>5, <2>1
<1>13. CASE CheckReturns
    <2> DEFINE o == IF out.owner = "check" /\ platform.closes THEN Vacant ELSE out
    <2>1. PICK r \in Opened(d, o) : d' = r[1] /\ out' = r[2]
        BY <1>13 DEF CheckReturns, Becomes
    <2>2. Begun(d, o, r)
        BY <1>1, <2>1, OpenedBegun
    <2>3. step = "idle" /\ UNCHANGED <<platform, content, step, rows>> /\ pc' # "paging"
        BY <1>13 DEF CheckReturns, Becomes, run
    <2>4. CASE r = <<d, Vacant>>
        <3>1. Blank(out')
            BY <2>1, <2>4, VacantType DEF Blank
        <3> QED
            BY <2>3, <3>1 DEF Fresh, Blank
    <2>5. CASE r # <<d, Vacant>>
        BY <2>1, <2>2, <2>3, <2>5, BegunFresh DEF Begun
    <2> QED
        BY <2>4, <2>5
<1>14. CASE EndSection
    <2>1. pc = "between" /\ pc' # "paging" /\ step = "idle"
        BY <1>14 DEF EndSection
    <2>2. CASE live
        BY <1>3, <1>14, <2>1, <2>2, DrawFresh DEF EndSection
    <2>3. CASE ~live
        <3>1. d' = d /\ step' = step
            BY <1>14, <2>3 DEF EndSection, dvars
        <3>2. d.state # "ready"
            BY <2>1, <2>3 DEF Lit
        <3> QED
            BY <1>5, <2>1, <3>1, <3>2
    <2> QED
        BY <2>2, <2>3
<1>15. CASE Present \/ Calibrate
    <2>1. UNCHANGED <<rows, page>> /\ pc # "paging"
        BY <1>15 DEF Present, Calibrate, RunOver, run, pager
    <2>2. page = 0
        BY <2>1 DEF Lit
    <2> QED
        BY <1>2, <1>3, <1>15, <2>1, <2>2, DrawFresh DEF Present, Calibrate
<1>16. CASE Poll
    <2>1. UNCHANGED rows /\ pc = "paging" /\ step = "idle"
        BY <1>16 DEF Poll, run
    <2>2. ASSUME NEW p, TurnTo(p) PROVE Fresh'
        BY <1>4, <2>1, <2>2, DrawFresh DEF TurnTo
    <2>3. ASSUME Stay PROVE Fresh'
        BY <2>1, <2>3, StaysFresh DEF Stay, dvars
    <2>4. CASE pc' = "calibrating" /\ UNCHANGED dvars
        BY <2>1, <2>4, StaysFresh DEF dvars
    <2> QED
        BY <1>16, <2>2, <2>3, <2>4 DEF Poll, Turn, Rest
<1>17. CASE Flipping \/ Frames
    BY <1>17, FlipFresh DEF Flipping, Frames, run, pager
<1> QED
    BY <1>6, <1>7, <1>8, <1>9, <1>10, <1>11, <1>12, <1>13, <1>14, <1>15, <1>16, <1>17
    DEF Next, Program

LEMMA InitFresh == Init => Stilled /\ Lit /\ Fresh
<1> SUFFICES ASSUME Init PROVE Stilled /\ Lit /\ Fresh
    OBVIOUS
<1>1. /\ d.state = "untried" /\ step = "idle" /\ live = FALSE /\ page = 0
      /\ pc = (IF mode = "serve" THEN "hud" ELSE "start")
    BY DEF Init, DisplayInit
<1> QED
    BY <1>1 DEF Stilled, Lit, Fresh

\* Between two frames the screen shows nothing, or the place the run has got to and the
\* page it is on (screen.h:4-8): the picture a dead run leaves is never an older one.
THEOREM FreshAlways == Spec => []FreshOrBlank
<1>1. Fresh => FreshOrBlank
    BY DEF Fresh, Right, FreshOrBlank
<1> QED
    BY InitIInv, NextIInv, InitTypes, ScreenTypesKept, DrawingsKept, InitFresh, StilledKept,
       LitKept, FreshKept, <1>1, PTL DEF Spec

-----------------------------------------------------------------------------
(* When the suite is complete.  The tallies count at most the checks of    *)
(* the sections that have ended, and those are all of them only at the end.*)

AddUp(n, m) == n + m

Summing == INSTANCE Induction WITH Step <- AddUp, Base <- 0

\* The checks of the first n sections.
Upto(n) == ChecksIn(SubSeq(Sections, 1, n))

LEMMA UptoNext ==
    /\ Upto(0) = 0 /\ Upto(Len(Sections)) = TotalChecks
    /\ \A n \in 0..Len(Sections) : Upto(n) \in Nat
    /\ \A n \in 1..Len(Sections) : Upto(n) = Upto(n - 1) + Sections[n]
<1>1. Sections \in Seq(Nat)
    BY ScreenAssumption
<1>2. \A xs : ChecksIn(xs) = Summing!Loop(xs)
    BY DEF ChecksIn, Summing!Loop, AddUp
<1>3. ChecksIn(<<>>) = 0
    BY <1>2, Summing!LoopByStep
<1>4. \A xs \in Seq(Nat), x \in Nat : ChecksIn(Append(xs, x)) = ChecksIn(xs) + x
    BY <1>2, Summing!LoopByStep DEF AddUp
<1>5. \A n, m \in Nat : AddUp(n, m) \in Nat
    BY DEF AddUp
<1>6. \A xs \in Seq(Nat) : ChecksIn(xs) \in Nat
    BY <1>2, <1>5, Summing!LoopKeeps
<1>7. \A n \in 0..Len(Sections) : SubSeq(Sections, 1, n) \in Seq(Nat)
    BY <1>1
<1>8. SubSeq(Sections, 1, 0) = <<>> /\ SubSeq(Sections, 1, Len(Sections)) = Sections
    BY <1>1
<1>9. ASSUME NEW n \in 1..Len(Sections)
      PROVE  Upto(n) = Upto(n - 1) + Sections[n]
    <2>1. /\ SubSeq(Sections, 1, n - 1) \in Seq(Nat) /\ Sections[n] \in Nat
          /\ SubSeq(Sections, 1, n) = Append(SubSeq(Sections, 1, n - 1), Sections[n])
        BY <1>1
    <2> QED
        BY <1>4, <2>1 DEF Upto
<1> QED
    BY <1>3, <1>6, <1>7, <1>8, <1>9 DEF Upto, TotalChecks

LEMMA UptoGrows == \A m \in 0..Len(Sections) : \A n \in 0..m : Upto(n) <= Upto(m)
<1> DEFINE S == {m \in Nat : m <= Len(Sections) => \A n \in 0..m : Upto(n) <= Upto(m)}
<1>0. Len(Sections) \in Nat /\ \A n \in 1..Len(Sections) : Sections[n] \in Nat
    BY ScreenAssumption
<1>1. 0 \in S
    BY <1>0, UptoNext
<1>2. ASSUME NEW m \in Nat, m \in S
      PROVE  m + 1 \in S
    <2> SUFFICES ASSUME m + 1 <= Len(Sections), NEW n \in 0..(m + 1)
                 PROVE  Upto(n) <= Upto(m + 1)
        OBVIOUS
    <2>1. m \in 0..Len(Sections) /\ m + 1 \in 1..Len(Sections) /\ n \in 0..Len(Sections)
        BY <1>0
    <2>2. Upto(m + 1) = Upto(m) + Sections[m + 1]
        BY <2>1, UptoNext
    <2>3. Upto(m) \in Nat /\ Upto(n) \in Nat /\ Sections[m + 1] \in Nat
        BY <1>0, <2>1, UptoNext
    <2>4. CASE n = m + 1
        BY <2>3, <2>4
    <2>5. CASE n # m + 1
        <3>1. n \in 0..m
            BY <2>5
        <3>2. Upto(n) <= Upto(m)
            BY <1>0, <1>2, <2>1, <3>1
        <3> QED
            BY <2>2, <2>3, <3>2
    <2> QED
        BY <2>4, <2>5
<1>3. Nat \subseteq S
    <2> HIDE DEF S
    <2> QED
        BY <1>1, <1>2, Summing!NumbersByStep
<1> QED
    BY <1>0, <1>3

\* The loop is at a check of a section or at the end of one, and inside a check only where
\* there is one; and no more has been counted than there was.
Counted ==
    /\ done <= Upto(rows)
    /\ rows < Len(Sections) => check <= Sections[rows + 1]
    /\ pc \in {"inside", "lent"} => rows < Len(Sections) /\ check < Sections[rows + 1]

LEMMA CountedInitially == Init => Counted
<1> SUFFICES ASSUME Init PROVE Counted
    OBVIOUS
<1>1. rows = 0 /\ done = 0 /\ check = 0 /\ pc \in {"hud", "start"}
    BY DEF Init
<1>2. \A n \in 1..Len(Sections) : Sections[n] \in Nat
    BY ScreenAssumption
<1>3. Len(Sections) \in Nat
    BY ScreenAssumption
<1> QED
    BY <1>1, <1>2, <1>3, UptoNext DEF Counted

LEMMA CountedKept == ScreenTypes /\ Counted /\ [Next]_vars => Counted'
<1> SUFFICES ASSUME ScreenTypes, Counted, [Next]_vars PROVE Counted'
    OBVIOUS
<1>1. /\ Len(Sections) \in Nat /\ \A n \in 1..Len(Sections) : Sections[n] \in Nat
      /\ rows \in 0..Len(Sections) /\ check \in Nat /\ ran \in 0..check /\ done \in Nat
    BY ScreenAssumption DEF ScreenTypes, Rows
<1>2. ASSUME UNCHANGED <<rows, done, check>>,
             pc' \in {"inside", "lent"} => pc \in {"inside", "lent"}
      PROVE  Counted'
    BY <1>2 DEF Counted, Upto
<1>3. CASE UNCHANGED vars
    BY <1>2, <1>3 DEF vars
<1>4. CASE Hud \/ Served \/ Present \/ Leave \/ Poll \/ Calibrate \/ Flipping \/ Frames
    BY <1>2, <1>4 DEF Hud, Served, Present, Leave, Poll, Calibrate, Flipping, Frames, run
<1>5. CASE CheckDraws \/ CheckReopens \/ CheckBorrows \/ CheckReturns
    BY <1>2, <1>5 DEF CheckDraws, CheckReopens, CheckBorrows, CheckReturns, Inside, run
<1>6. CASE Begin
    <2>1. rows' = 0 /\ done' = 0 /\ check' = 0 /\ pc' = "between"
        BY <1>6 DEF Begin
    <2> QED
        BY <1>1, <2>1, UptoNext DEF Counted
<1>7. CASE Skip \/ Answer
    <2>1. check' = check + 1 /\ pc' = "between" /\ UNCHANGED <<rows, done>>
        BY <1>7 DEF Skip, Answer, Record
    <2>2. check < Sections[rows + 1] /\ rows < Len(Sections)
        BY <1>7 DEF Skip, Answer, InSection, Counted
    <2>3. Sections[rows + 1] \in Nat
        BY <1>1, <2>2
    <2>4. check' <= Sections[rows' + 1]
        BY <1>1, <2>1, <2>2, <2>3
    <2> QED
        BY <2>1, <2>4 DEF Counted, Upto
<1>8. CASE Attempt
    <2>1. UNCHANGED <<rows, done, check>> /\ rows < Len(Sections) /\ check < Sections[rows + 1]
        BY <1>8 DEF Attempt, InSection
    <2> QED
        BY <2>1 DEF Counted, Upto
<1>9. CASE EndSection
    <2>1. /\ rows' = rows + 1 /\ done' = done + ran /\ check' = 0 /\ pc' = "between"
          /\ rows < Len(Sections)
        BY <1>9 DEF EndSection
    <2>2. /\ rows + 1 \in 1..Len(Sections) /\ rows + 1 - 1 = rows
          /\ check <= Sections[rows + 1] /\ done <= Upto(rows)
        BY <1>1, <2>1 DEF Counted
    <2> DEFINE n == rows + 1
    <2>a. Upto(n) = Upto(n - 1) + Sections[n]
        BY <2>2, UptoNext
    <2>3. Upto(rows + 1) = Upto(rows) + Sections[rows + 1]
        <3>1. n - 1 = rows
            BY <1>1
        <3> QED
            BY <2>a, <3>1, Zenon
    <2>4. Upto(rows) \in Nat /\ Sections[rows + 1] \in Nat
        BY <1>1, <2>2, UptoNext
    <2>5. done + ran <= Upto(rows + 1)
        BY <1>1, <2>2, <2>3, <2>4
    <2>6. rows + 1 < Len(Sections) => 0 <= Sections[rows + 1 + 1]
        BY <1>1
    <2> QED
        BY <2>1, <2>5, <2>6 DEF Counted, Upto
<1> QED
    BY <1>3, <1>4, <1>5, <1>6, <1>7, <1>8, <1>9 DEF Next, Program

\* The last section of the list has a check in it.
LastHasChecks == Sections = <<>> \/ Sections[Len(Sections)] > 0

\* What the status line says.
SaysSo == Says = "COMPLETE" => rows = Len(Sections)

LEMMA CompleteAtEnd == LastHasChecks /\ ScreenTypes /\ Counted => SaysSo
<1> SUFFICES ASSUME LastHasChecks, ScreenTypes, Counted, Says = "COMPLETE",
                    rows # Len(Sections)
             PROVE  FALSE
    BY DEF SaysSo
<1> DEFINE n == Len(Sections)
<1>1. n \in Nat /\ rows \in 0..n /\ done \in Nat
    BY ScreenAssumption DEF ScreenTypes, Rows
<1>2. done >= TotalChecks
    BY DEF Says
<1>3. n \in 1..n /\ n - 1 \in 0..n /\ rows \in 0..(n - 1)
    BY <1>1
<1>4. Sections # <<>>
    BY <1>3
<1>5. Sections[n] \in Nat /\ Sections[n] > 0
    BY <1>3, <1>4, ScreenAssumption DEF LastHasChecks
<1>6. Upto(n) = Upto(n - 1) + Sections[n] /\ Upto(n) = TotalChecks
    BY <1>3, UptoNext
<1>7. Upto(rows) <= Upto(n - 1)
    BY <1>3, UptoGrows
<1>8. Upto(n - 1) \in Nat /\ Upto(rows) \in Nat /\ Upto(n) \in Nat
    BY <1>1, <1>3, UptoNext
<1>9. done <= Upto(rows)
    BY DEF Counted
<1> HIDE DEF n
<1> QED
    BY <1>1, <1>2, <1>5, <1>6, <1>7, <1>8, <1>9

LEMMA CompleteThen ==
    ASSUME LastHasChecks
    PROVE  ScreenTypes' /\ Counted' => SaysSo'
<1>1. ScreenTypes /\ Counted => SaysSo
    BY CompleteAtEnd
<1> QED
    BY <1>1, PTL

\* A frame that says so is drawn where every section has ended.
Honest(frame) == frame.says = "COMPLETE" => rows' = Len(Sections)

LEMMA DrawHonest ==
    ASSUME IInv', Drawings, NEW results, NEW frame, Draw(results, frame), Honest(frame)
    PROVE  CompleteIsDone'
<1>1. PICK r \in results :
         /\ d' = r[1]
         /\ content' = IF Usable(r[1]) THEN [content EXCEPT ![r[1].fb] = frame]
                       ELSE content
         /\ step' = IF Usable(r[1]) THEN "submit" ELSE "idle"
    BY DEF Draw
<1>2. CASE Usable(d')
    <2>1. d'.fb \in Buffer
        BY <1>2 DEF IInv, Agree, Usable
    <2>2. content'[d'.fb] = frame
        BY <1>1, <1>2, <2>1 DEF Drawings
    <2> QED
        BY <2>2 DEF CompleteIsDone, Honest
<1>3. CASE ~Usable(d')
    BY <1>1, <1>3 DEF CompleteIsDone
<1> QED
    BY <1>2, <1>3

LEMMA CompleteKept ==
    LastHasChecks /\ IInv' /\ ScreenTypes /\ ScreenTypes' /\ Drawings /\ Counted
    /\ Counted' /\ CompleteIsDone /\ [Next]_vars => CompleteIsDone'
<1> SUFFICES ASSUME LastHasChecks, IInv', ScreenTypes, ScreenTypes', Drawings,
                    Counted, Counted', CompleteIsDone, [Next]_vars
             PROVE  CompleteIsDone'
    OBVIOUS
<1>1. Says = "COMPLETE" => rows = Len(Sections)
    BY CompleteAtEnd DEF SaysSo
<1>2. Says' = "COMPLETE" => rows' = Len(Sections)
    BY CompleteThen DEF SaysSo
<1>3. /\ \A kind, r : Honest(Plain(kind, r))
      /\ Summary.says = Says /\ Summary'.says = Says'
    BY DEF Honest, Plain, Summary
<1>4. Honest(Summary')
    BY <1>2, <1>3 DEF Honest
<1>5. rows' = rows => Honest(Summary) /\ \A p : Honest(DetailOr(p))
    BY <1>1, <1>3 DEF Honest, DetailOr, Plain
<1>6. ASSUME step' # "submit" PROVE CompleteIsDone'
    BY <1>6 DEF CompleteIsDone
<1>7. ASSUME UNCHANGED <<step, d, content, rows>> PROVE CompleteIsDone'
    BY <1>7 DEF CompleteIsDone
<1>8. CASE UNCHANGED vars
    BY <1>7, <1>8 DEF vars
<1>9. CASE Hud
    BY <1>3, <1>7, <1>9, DrawHonest DEF Hud, dvars
<1>10. CASE Begin
    <2>1. step = "idle"
        BY <1>10 DEF Begin
    <2> QED
        BY <1>4, <1>6, <1>10, <2>1, DrawHonest DEF Begin, dvars
<1>11. CASE Skip \/ Attempt \/ Answer \/ Served
    BY <1>7, <1>11 DEF Skip, Attempt, Answer, Served, Record, run, dvars
<1>12. CASE CheckDraws
    BY <1>3, <1>12, DrawHonest DEF CheckDraws
<1>13. CASE CheckReopens \/ CheckBorrows \/ CheckReturns \/ Leave
    BY <1>6, <1>13 DEF CheckReopens, CheckBorrows, CheckReturns, Inside, Leave, Reopen, Close,
       Becomes
<1>14. CASE EndSection
    <2>1. step = "idle"
        BY <1>14 DEF EndSection
    <2> QED
        BY <1>4, <1>6, <1>14, <2>1, DrawHonest DEF EndSection, dvars
<1>15. CASE Present \/ Calibrate
    <2>1. rows' = rows
        BY <1>15 DEF Present, Calibrate, run
    <2> QED
        BY <1>3, <1>5, <1>15, <2>1, DrawHonest DEF Present, Calibrate
<1>16. CASE Poll
    <2>1. rows' = rows
        BY <1>16 DEF Poll, run
    <2>2. ASSUME NEW p, TurnTo(p) PROVE CompleteIsDone'
        BY <1>5, <2>1, <2>2, DrawHonest DEF TurnTo
    <2>3. ASSUME UNCHANGED dvars PROVE CompleteIsDone'
        BY <1>7, <2>1, <2>3 DEF dvars
    <2> QED
        BY <1>16, <2>2, <2>3 DEF Poll, Turn, Rest, Stay
<1>17. CASE Flipping
    BY <1>6, <1>17 DEF Flipping, Flip, FlipByBackend, Submit, Accepted, RefusedFlip
<1>18. CASE Frames
    BY <1>7, <1>18 DEF Frames, NextFrame, run
<1> QED
    BY <1>8, <1>9, <1>10, <1>11, <1>12, <1>13, <1>14, <1>15, <1>16, <1>17, <1>18
    DEF Next, Program

\* A summary that says SUITE COMPLETE is drawn only when every section has ended
\* (screen.c:549-559), as long as there is a check in the last one: where there is none,
\* the tallies add up to the whole before that section has begun.
THEOREM CompleteWhenDone == ASSUME LastHasChecks PROVE Spec => []CompleteIsDone
<1>1. Init => CompleteIsDone
    BY DEF Init, DisplayInit, CompleteIsDone
<1> QED
    BY InitIInv, NextIInv, InitTypes, ScreenTypesKept, DrawingsKept, CountedInitially,
       CountedKept, CompleteKept, <1>1, PTL DEF Spec

=============================================================================
