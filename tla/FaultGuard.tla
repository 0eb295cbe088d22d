----------------------------- MODULE FaultGuard -----------------------------
(***************************************************************************)
(* The fault guard, src/probe/fault.c: a thread registers a landing pad,   *)
(* makes a risky call, and unregisters.  A fault in the call runs the      *)
(* handler on the thread that faulted, which looks for that thread's pad   *)
(* and jumps to it.                                                        *)
(*                                                                         *)
(* The pads are in a table all threads share without a lock.  One step of  *)
(* this module is one look at a slot or one store to it.                   *)
(***************************************************************************)
EXTENDS Integers, FiniteSets

CONSTANTS
    Threads,     \* the suite's threads and the platform's
    Main,        \* the thread that runs the suite
    Depths,      \* how deep each thread's arms may nest; a platform thread's is 0
    NSlots,      \* OBS_FAULT_SLOTS
    Signals,     \* the signals the handler is installed for
    SelfKnown,   \* scePthreadSelf resolved; otherwise all threads share one id
    ThreadExit,  \* scePthreadExit resolved; never on the host
    Unblocks,    \* the jump restores the mask, or sigprocmask resolved
    Overlaps,    \* whether threads may be in the table at the same time
    MaxFaults    \* bound: how many faults are raised

None == "none"   \* no thread id
NoPad == [thread |-> None, level |-> 0]

Slot == 1..NSlots
Pad  == [thread: Threads, level: Nat \ {0}]

ASSUME ConstantsAssumption ==
    /\ Main \in Threads /\ None \notin Threads
    /\ Depths \subseteq [Threads -> Nat]
    /\ NSlots \in Nat \ {0} /\ MaxFaults \in Nat
    /\ {SelfKnown, ThreadExit, Unblocks} \cup Overlaps \subseteq BOOLEAN

VARIABLES
    nesting,  \* how deep each thread's arms nest in this suite
    overlap,  \* whether its threads overlap in the table
    slots,    \* s_slots
    depth,    \* how many arms of each thread are open
    pc,       \* where in register, unregister or the handler each thread is
    at,       \* the loop counter of the scan it is in
    found,    \* `empty` of obs_fault_register, or the slot that matched; 0 for none
    pad,      \* what obs_fault_current gave the handler
    blocked,  \* each thread's signal mask
    process,  \* "up", "dead" by a signal, or "wild": in a frame of another thread
    missed,   \* history: threads that faulted inside an arm and were not caught
    faults    \* how many faults have been raised

local == <<at, found, pad>>
suite == <<nesting, overlap>>   \* which suite this is; it never changes
vars  == <<suite, slots, depth, pc, at, found, pad, blocked, process, missed, faults>>

\* obs_fault_tid.
Tid(t) == IF SelfKnown THEN t ELSE Main

Init ==
    /\ nesting \in Depths /\ overlap \in Overlaps
    /\ slots   = [i \in Slot |-> [tid |-> None, buf |-> NoPad]]
    /\ depth   = [t \in Threads |-> 0]
    /\ pc      = [t \in Threads |->
                     IF t = Main \/ nesting[t] = 0 THEN "run" ELSE "unborn"]
    /\ at      = [t \in Threads |-> 1]
    /\ found   = [t \in Threads |-> 0]
    /\ pad     = [t \in Threads |-> NoPad]
    /\ blocked = [t \in Threads |-> {}]
    /\ process = "up" /\ missed = {} /\ faults = 0

\* The threads that are not in the table.
Outside == {t \in Threads : pc[t] \in {"run", "unborn", "hung", "gone"}}

\* Where only one thread is in the table at a time, this one may go on.
May(t) == process = "up" /\ (overlap \/ Threads \ {t} \subseteq Outside)

Goto(t, where) == pc' = [pc EXCEPT ![t] = where]

\* A scan starts at the first slot.
Scan(t, where) ==
    /\ Goto(t, where)
    /\ at' = [at EXCEPT ![t] = 1]
    /\ found' = [found EXCEPT ![t] = 0]

\* The loop goes on to the next slot.
Proceed(t) == at' = [at EXCEPT ![t] = @ + 1]

-----------------------------------------------------------------------------
(* A check starts a worker, and does not wait for it to arm. *)

Create(t) ==
    /\ pc[t] = "unborn" /\ process = "up"
    /\ pc[Main] = "run" /\ depth[Main] > 0
    /\ Goto(t, "run")
    /\ UNCHANGED <<suite, slots, depth, local, blocked, process, missed, faults>>

-----------------------------------------------------------------------------
(* obs_fault_register, from OBS_FAULT_ARM. *)

Arm(t) ==
    /\ pc[t] = "run" /\ depth[t] < nesting[t] /\ May(t)
    /\ Scan(t, "register")
    /\ UNCHANGED <<suite, slots, depth, pad, blocked, process, missed, faults>>

\* The arm is set: sigsetjmp returns 0 and the risky call begins.
Armed(t) ==
    /\ Goto(t, "run")
    /\ depth' = [depth EXCEPT ![t] = @ + 1]

\* Mutant: the first slot without a pad is taken, though the thread may have a slot
\* of its own further on.
FirstFree(t) ==
    /\ pc[t] = "register" /\ at[t] \in Slot /\ May(t)
    /\ IF slots[at[t]].tid = Tid(t) \/ slots[at[t]].buf = NoPad
       THEN Goto(t, "claim") /\ found' = [found EXCEPT ![t] = at[t]] /\ UNCHANGED at
       ELSE Proceed(t) /\ UNCHANGED <<pc, found>>
    /\ UNCHANGED <<suite, slots, depth, pad, blocked, process, missed, faults>>

RegisterScan(t) ==
    /\ pc[t] = "register" /\ at[t] \in Slot /\ May(t)
    /\ IF slots[at[t]].tid = Tid(t)
       THEN Goto(t, "store") /\ found' = [found EXCEPT ![t] = at[t]] /\ UNCHANGED at
       ELSE /\ Proceed(t)
            /\ found' = IF found[t] = 0 /\ slots[at[t]].buf = NoPad
                        THEN [found EXCEPT ![t] = at[t]] ELSE found
            /\ UNCHANGED pc
    /\ UNCHANGED <<suite, slots, depth, pad, blocked, process, missed, faults>>

\* The thread has no slot: it takes an empty one, or goes without a pad.
RegisterEnd(t) ==
    /\ pc[t] = "register" /\ at[t] \notin Slot /\ May(t)
    /\ IF found[t] # 0
       THEN Goto(t, "claim") /\ UNCHANGED depth
       ELSE Armed(t)
    /\ UNCHANGED <<suite, slots, local, blocked, process, missed, faults>>

RegisterClaim(t) ==
    /\ pc[t] = "claim" /\ May(t)
    /\ slots' = [slots EXCEPT ![found[t]].tid = Tid(t)]
    /\ Goto(t, "store")
    /\ UNCHANGED <<suite, depth, local, blocked, process, missed, faults>>

RegisterStore(t) ==
    /\ pc[t] = "store" /\ May(t)
    /\ slots' = [slots EXCEPT ![found[t]].buf = [thread |-> t, level |-> depth[t] + 1]]
    /\ Armed(t)
    /\ UNCHANGED <<suite, local, blocked, process, missed, faults>>

-----------------------------------------------------------------------------
(* obs_fault_unregister: when the call returned ("leave"), in the handler         *)
(* ("clear"), and at the landing ("settle").  The call's scope ends with it.      *)

\* Mutant: the call's value is returned before the pad is cleared.
ReturnEarly(t) ==
    /\ pc[t] = "run" /\ depth[t] > 0 /\ May(t)
    /\ depth' = [depth EXCEPT ![t] = @ - 1]
    /\ UNCHANGED <<suite, slots, pc, local, blocked, process, missed, faults>>

Return(t) ==
    /\ pc[t] = "run" /\ depth[t] > 0 /\ May(t)
    /\ Scan(t, "leave")
    /\ UNCHANGED <<suite, slots, depth, pad, blocked, process, missed, faults>>

Unregistered(t) ==
    IF pc[t] = "clear"
    THEN Goto(t, "jump") /\ UNCHANGED depth
    ELSE Goto(t, "run") /\ depth' = [depth EXCEPT ![t] = @ - 1]

Unregister(t) ==
    /\ pc[t] \in {"leave", "clear", "settle"} /\ May(t)
    /\ \/ /\ at[t] \in Slot /\ slots[at[t]].tid = Tid(t)
          /\ slots' = [slots EXCEPT ![at[t]].buf = NoPad]
          /\ Unregistered(t)
          /\ UNCHANGED at
       \/ /\ at[t] \in Slot /\ slots[at[t]].tid # Tid(t)
          /\ Proceed(t)
          /\ UNCHANGED <<slots, pc, depth>>
       \/ /\ at[t] \notin Slot
          /\ Unregistered(t)
          /\ UNCHANGED <<slots, at>>
    /\ UNCHANGED <<suite, found, pad, blocked, process, missed, faults>>

-----------------------------------------------------------------------------
(* A fault, and obs_fault_handler. *)

Missed(t) == missed' = IF depth[t] > 0 THEN missed \cup {t} ELSE missed

\* A risky call faults, or a thread of the platform does.  A signal that is blocked
\* when its instruction raises it kills the process.
Fault(t) ==
    /\ pc[t] = "run" /\ (depth[t] > 0 \/ nesting[t] = 0) /\ May(t)
    /\ faults < MaxFaults /\ faults' = faults + 1
    /\ \E s \in Signals :
          IF s \in blocked[t]
          THEN /\ process' = "dead" /\ Missed(t)
               /\ UNCHANGED <<pc, at, found, blocked>>
          ELSE /\ blocked' = [blocked EXCEPT ![t] = @ \cup {s}]
               /\ Scan(t, "look")
               /\ UNCHANGED <<process, missed>>
    /\ UNCHANGED <<suite, slots, depth, pad>>

\* Mutant: any pad will do.
AnyPad(t) ==
    /\ pc[t] = "look" /\ at[t] \in Slot /\ May(t)
    /\ IF slots[at[t]].buf # NoPad
       THEN pad' = [pad EXCEPT ![t] = slots[at[t]].buf] /\ Scan(t, "clear")
       ELSE Proceed(t) /\ UNCHANGED <<pc, found, pad>>
    /\ UNCHANGED <<suite, slots, depth, blocked, process, missed, faults>>

\* obs_fault_current.
Look(t) ==
    /\ pc[t] = "look" /\ at[t] \in Slot /\ May(t)
    /\ IF slots[at[t]].tid = Tid(t) /\ slots[at[t]].buf # NoPad
       THEN pad' = [pad EXCEPT ![t] = slots[at[t]].buf] /\ Scan(t, "clear")
       ELSE Proceed(t) /\ UNCHANGED <<pc, found, pad>>
    /\ UNCHANGED <<suite, slots, depth, blocked, process, missed, faults>>

\* No pad on this thread: the thread ends, or the default disposition ends the process.
NoLanding(t) ==
    /\ pc[t] = "look" /\ at[t] \notin Slot /\ May(t)
    /\ Missed(t)
    /\ IF ThreadExit
       THEN Goto(t, "gone") /\ UNCHANGED process
       ELSE process' = "dead" /\ UNCHANGED pc
    /\ UNCHANGED <<suite, slots, depth, local, blocked, faults>>

\* A pad is good while the call that set it is open on the thread that runs.
Own(t, p) == p.thread = t /\ p.level \in 1..depth[t]

\* Mutant: the signal stays in the mask.
JumpBlocked(t) ==
    /\ pc[t] = "jump" /\ May(t)
    /\ IF Own(t, pad[t])
       THEN /\ depth' = [depth EXCEPT ![t] = pad[t].level]
            /\ Scan(t, "settle")
            /\ UNCHANGED process
       ELSE process' = "wild" /\ UNCHANGED <<depth, pc, at, found>>
    /\ UNCHANGED <<suite, slots, pad, blocked, missed, faults>>

\* The mask is restored and the thread continues where the pad was set, with the
\* calls it had open inside that one abandoned.
Jump(t) ==
    /\ pc[t] = "jump" /\ May(t)
    /\ blocked' = IF Unblocks THEN [blocked EXCEPT ![t] = {}] ELSE blocked
    /\ IF Own(t, pad[t])
       THEN /\ depth' = [depth EXCEPT ![t] = pad[t].level]
            /\ Scan(t, "settle")
            /\ UNCHANGED process
       ELSE process' = "wild" /\ UNCHANGED <<depth, pc, at, found>>
    /\ UNCHANGED <<suite, slots, pad, missed, faults>>

\* A worker's call does not return: nobody joins the worker, and its pad stays.
Hang(t) ==
    /\ t # Main /\ pc[t] = "run" /\ depth[t] > 0 /\ May(t)
    /\ Goto(t, "hung")
    /\ UNCHANGED <<suite, slots, depth, local, blocked, process, missed, faults>>

Step(t) ==
    \/ Create(t) \/ Arm(t) \/ RegisterScan(t) \/ RegisterEnd(t) \/ RegisterClaim(t)
    \/ RegisterStore(t) \/ Return(t) \/ Unregister(t) \/ Fault(t) \/ Look(t)
    \/ NoLanding(t) \/ Jump(t) \/ Hang(t)

Next == \E t \in Threads : Step(t)

Spec == Init /\ [][Next]_vars

-----------------------------------------------------------------------------
(* Properties. *)

TypeOK ==
    /\ nesting \in Depths /\ overlap \in Overlaps
    /\ slots \in [Slot -> [tid: Threads \cup {None}, buf: Pad \cup {NoPad}]]
    /\ depth \in [Threads -> Nat]
    /\ pc \in [Threads -> {"unborn", "run", "register", "claim", "store", "leave", "look",
                           "clear", "jump", "settle", "hung", "gone"}]
    /\ at \in [Threads -> 1..(NSlots + 1)]
    /\ found \in [Threads -> 0..NSlots]
    /\ pad \in [Threads -> Pad \cup {NoPad}]
    /\ blocked \in [Threads -> SUBSET Signals]
    /\ process \in {"up", "dead", "wild"}
    /\ missed \subseteq Threads /\ faults \in 0..MaxFaults

\* No thread ever has two slots, whatever the threads do to the table at once: a
\* second one would keep a pad that obs_fault_unregister, which stops at the first,
\* never clears.
OneSlotEach ==
    SelfKnown =>
        \A i, j \in Slot :
            (slots[i].tid # None /\ slots[i].tid = slots[j].tid) => i = j

\* Without overlap, a pad in the table is that of a call still open on the thread
\* whose slot it is in: nothing can jump into a frame that has returned.
PadsAreOpen ==
    ~overlap =>
        \A i \in Slot :
            slots[i].buf # NoPad =>
                /\ slots[i].tid = Tid(slots[i].buf.thread)
                /\ slots[i].buf.level <= depth[slots[i].buf.thread]

\* "The handler lands on whichever thread faulted" (fault.h:27), never in a frame of
\* another thread or in one that is gone, as long as threads do not overlap and their
\* ids are real.
LandsAtHome == SelfKnown /\ ~overlap => process # "wild"

\* "The suite's own threads are always armed while they run risky code"
\* (fault.c:229): a fault inside an arm is caught, the second one as well as the first.
ArmedIsCaught == missed = {}

\* So it is where no arm is inside another and threads do not overlap, unless as many
\* other threads arm as there are slots: a worker that hangs keeps its slot for good
\* (fault.c:108), and one too many goes without.
FlatArmsAreCaught ==
    (~overlap /\ \A t \in Threads : nesting[t] <= 1) =>
        \A t \in missed : Cardinality({u \in Threads \ {t} : nesting[u] > 0}) >= NSlots
=============================================================================
