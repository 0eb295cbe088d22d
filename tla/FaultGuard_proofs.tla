-------------------------- MODULE FaultGuard_proofs --------------------------
(***************************************************************************)
(* Theorems about FaultGuard, for every set of threads, every number of    *)
(* slots and every interleaving of their looks and stores.                 *)
(***************************************************************************)
EXTENDS FaultGuard, FiniteSetTheorems, TLAPS

-----------------------------------------------------------------------------
(* Types. *)

\* A thread that claims or stores has found a slot, and one that comes from a call or
\* from a landing has an arm to take down.
Scanned ==
    \A t \in Threads :
        /\ pc[t] \in {"claim", "store"}  => found[t] \in Slot
        /\ pc[t] \in {"leave", "settle"} => depth[t] > 0

TypeInv == TypeOK /\ Scanned

LEMMA Types ==
    ASSUME TypeInv
    PROVE  /\ NoPad \notin Pad /\ None \notin Threads
           /\ \A t \in Threads : Tid(t) \in Threads
BY ConstantsAssumption DEF NoPad, Pad, None, Tid

LEMMA TypesInitially == Init => TypeInv
BY ConstantsAssumption DEF Init, TypeInv, TypeOK, Scanned, Slot, NoPad

\* Where a thread may be.
Place == {"unborn", "run", "register", "claim", "store", "leave", "look", "clear", "jump",
          "settle", "hung", "gone"}

\* A thread goes to another place, starts a scan, or looks at the next slot; no other
\* thread is moved by that.
Moved(t, where) ==
    /\ pc' \in [Threads -> Place]
    /\ pc'[t] = where
    /\ \A u \in Threads \ {t} : pc'[u] = pc[u]

LEMMA GotoMoves ==
    ASSUME TypeInv, NEW t \in Threads, NEW where \in Place, Goto(t, where)
    PROVE  Moved(t, where)
BY DEF TypeInv, TypeOK, Goto, Moved, Place

Rescans(t) ==
    /\ at' \in [Threads -> 1..(NSlots + 1)] /\ found' \in [Threads -> 0..NSlots]
    /\ at'[t] = 1 /\ found'[t] = 0
    /\ \A u \in Threads \ {t} : at'[u] = at[u] /\ found'[u] = found[u]

LEMMA ScanMoves ==
    ASSUME TypeInv, NEW t \in Threads, NEW where \in Place, Scan(t, where)
    PROVE  Moved(t, where) /\ Rescans(t)
<1>1. Moved(t, where)
    BY GotoMoves DEF Scan
<1>2. Rescans(t)
    BY ConstantsAssumption DEF TypeInv, TypeOK, Scan, Rescans
<1> QED
    BY <1>1, <1>2

LEMMA ProceedMoves ==
    ASSUME TypeInv, NEW t \in Threads, at[t] \in Slot, Proceed(t)
    PROVE  /\ at' \in [Threads -> 1..(NSlots + 1)]
           /\ at'[t] = at[t] + 1
           /\ \A u \in Threads \ {t} : at'[u] = at[u]
BY ConstantsAssumption DEF TypeInv, TypeOK, Proceed, Slot

LEMMA TypesKept ==
    ASSUME TypeInv, NEW t \in Threads, Step(t)
    PROVE  TypeInv'
<1> USE DEF TypeInv, TypeOK, Scanned, suite, local, Place
<1>1. CASE Create(t)
    <2>1. Moved(t, "run")
        BY <1>1, GotoMoves DEF Create
    <2> QED
        BY <1>1, <2>1 DEF Create, Moved
<1>2. CASE Arm(t)
    <2>1. Moved(t, "register") /\ Rescans(t)
        BY <1>2, ScanMoves DEF Arm
    <2> QED
        BY <1>2, <2>1 DEF Arm, Moved, Rescans
<1>3. CASE RegisterScan(t)
    <2>1. CASE slots[at[t]].tid = Tid(t)
        <3>1. Moved(t, "store")
            BY <1>3, <2>1, GotoMoves DEF RegisterScan
        <3>2. at[t] \in Slot /\ at[t] \in 0..NSlots
            BY <1>3, ConstantsAssumption DEF RegisterScan, Slot
        <3>3. /\ found' \in [Threads -> 0..NSlots] /\ found'[t] \in Slot
              /\ \A u \in Threads \ {t} : found'[u] = found[u]
            BY <1>3, <2>1, <3>2 DEF RegisterScan
        <3> QED
            BY <1>3, <2>1, <3>1, <3>3 DEF RegisterScan, Moved
    <2>2. CASE slots[at[t]].tid # Tid(t)
        <3>1. at' \in [Threads -> 1..(NSlots + 1)]
            BY <1>3, <2>2, ProceedMoves DEF RegisterScan
        <3>2. at[t] \in 0..NSlots /\ pc[t] = "register" /\ pc' = pc
            BY <1>3, <2>2, ConstantsAssumption DEF RegisterScan, Slot
        <3>3. found' \in [Threads -> 0..NSlots] /\ \A u \in Threads \ {t} : found'[u] = found[u]
            BY <1>3, <2>2, <3>2 DEF RegisterScan
        <3> QED
            BY <1>3, <2>2, <3>1, <3>2, <3>3 DEF RegisterScan
    <2> QED
        BY <2>1, <2>2
<1>4. CASE RegisterEnd(t)
    <2>1. CASE found[t] # 0
        <3>1. Moved(t, "claim")
            BY <1>4, <2>1, GotoMoves DEF RegisterEnd
        <3>2. found[t] \in Slot
            BY <2>1, ConstantsAssumption DEF Slot
        <3> QED
            BY <1>4, <2>1, <3>1, <3>2 DEF RegisterEnd, Moved
    <2>2. CASE found[t] = 0
        <3>1. Moved(t, "run")
            BY <1>4, <2>2, GotoMoves DEF RegisterEnd, Armed
        <3>2. depth' \in [Threads -> Nat] /\ \A u \in Threads \ {t} : depth'[u] = depth[u]
            BY <1>4, <2>2 DEF RegisterEnd, Armed
        <3> QED
            BY <1>4, <2>2, <3>1, <3>2 DEF RegisterEnd, Moved
    <2> QED
        BY <2>1, <2>2
<1>5. CASE RegisterClaim(t)
    <2>1. Moved(t, "store")
        BY <1>5, GotoMoves DEF RegisterClaim
    <2>2. slots' \in [Slot -> [tid: Threads \cup {None}, buf: Pad \cup {NoPad}]]
        <3>1. Tid(t) \in Threads
            BY Types
        <3> QED
            BY <1>5, <3>1 DEF RegisterClaim
    <2> QED
        BY <1>5, <2>1, <2>2 DEF RegisterClaim, Moved
<1>6. CASE RegisterStore(t)
    <2>1. Moved(t, "run")
        BY <1>6, GotoMoves DEF RegisterStore, Armed
    <2>2. slots' \in [Slot -> [tid: Threads \cup {None}, buf: Pad \cup {NoPad}]]
        <3>1. [thread |-> t, level |-> depth[t] + 1] \in Pad
            BY DEF Pad
        <3> QED
            BY <1>6, <3>1 DEF RegisterStore
    <2>3. depth' \in [Threads -> Nat] /\ \A u \in Threads \ {t} : depth'[u] = depth[u]
        BY <1>6 DEF RegisterStore, Armed
    <2> QED
        BY <1>6, <2>1, <2>2, <2>3 DEF RegisterStore, Moved
<1>7. CASE Return(t)
    <2>1. Moved(t, "leave") /\ Rescans(t)
        BY <1>7, ScanMoves DEF Return
    <2> QED
        BY <1>7, <2>1 DEF Return, Moved, Rescans
<1>8. CASE Unregister(t)
    <2>1. ASSUME Unregistered(t)
          PROVE  /\ pc' \in [Threads -> Place] /\ depth' \in [Threads -> Nat]
                 /\ pc'[t] \in {"jump", "run"}
                 /\ \A u \in Threads \ {t} : pc'[u] = pc[u] /\ depth'[u] = depth[u]
        <3>1. CASE pc[t] = "clear"
            <4>1. Moved(t, "jump")
                BY <2>1, <3>1, GotoMoves DEF Unregistered
            <4> QED
                BY <2>1, <3>1, <4>1 DEF Unregistered, Moved
        <3>2. CASE pc[t] # "clear"
            <4>1. Moved(t, "run")
                BY <2>1, <3>2, GotoMoves DEF Unregistered
            <4>2. depth[t] > 0
                BY <1>8, <3>2 DEF Unregister
            <4>3. depth' \in [Threads -> Nat] /\ \A u \in Threads \ {t} : depth'[u] = depth[u]
                BY <2>1, <3>2, <4>2 DEF Unregistered
            <4> QED
                BY <4>1, <4>3 DEF Moved
        <3> QED
            BY <3>1, <3>2
    <2>2. CASE at[t] \in Slot /\ slots[at[t]].tid = Tid(t)
        <3>1. slots' \in [Slot -> [tid: Threads \cup {None}, buf: Pad \cup {NoPad}]]
            BY <1>8, <2>2 DEF Unregister
        <3> QED
            BY <1>8, <2>1, <2>2, <3>1 DEF Unregister
    <2>3. CASE at[t] \in Slot /\ slots[at[t]].tid # Tid(t)
        <3>1. at' \in [Threads -> 1..(NSlots + 1)]
            BY <1>8, <2>3, ProceedMoves DEF Unregister
        <3> QED
            BY <1>8, <2>3, <3>1 DEF Unregister
    <2>4. CASE at[t] \notin Slot
        BY <1>8, <2>1, <2>4 DEF Unregister
    <2> QED
        BY <2>2, <2>3, <2>4
<1>9. CASE Fault(t)
    <2>1. PICK s \in Signals :
            IF s \in blocked[t]
            THEN process' = "dead" /\ Missed(t) /\ UNCHANGED <<pc, at, found, blocked>>
            ELSE /\ blocked' = [blocked EXCEPT ![t] = @ \cup {s}]
                 /\ Scan(t, "look") /\ UNCHANGED <<process, missed>>
        BY <1>9 DEF Fault
    <2>2. faults' \in 0..MaxFaults /\ UNCHANGED <<suite, slots, depth, pad>>
        BY <1>9, ConstantsAssumption DEF Fault
    <2>3. CASE s \in blocked[t]
        BY <2>1, <2>2, <2>3 DEF Missed
    <2>4. CASE s \notin blocked[t]
        <3>1. Moved(t, "look") /\ Rescans(t)
            BY <2>1, <2>4, ScanMoves
        <3>2. blocked' \in [Threads -> SUBSET Signals]
            BY <2>1, <2>4
        <3> QED
            BY <2>1, <2>2, <2>4, <3>1, <3>2 DEF Moved, Rescans
    <2> QED
        BY <2>3, <2>4
<1>10. CASE Look(t)
    <2>1. CASE slots[at[t]].tid = Tid(t) /\ slots[at[t]].buf # NoPad
        <3>1. Moved(t, "clear") /\ Rescans(t)
            BY <1>10, <2>1, ScanMoves DEF Look
        <3>2. pad' \in [Threads -> Pad \cup {NoPad}]
            BY <1>10, <2>1 DEF Look
        <3> QED
            BY <1>10, <3>1, <3>2 DEF Look, Moved, Rescans
    <2>2. CASE ~(slots[at[t]].tid = Tid(t) /\ slots[at[t]].buf # NoPad)
        <3>1. at' \in [Threads -> 1..(NSlots + 1)]
            BY <1>10, <2>2, ProceedMoves DEF Look
        <3> QED
            BY <1>10, <2>2, <3>1 DEF Look
    <2> QED
        BY <2>1, <2>2
<1>11. CASE NoLanding(t)
    <2>1. ThreadExit => Moved(t, "gone")
        BY <1>11, GotoMoves DEF NoLanding
    <2> QED
        BY <1>11, <2>1 DEF NoLanding, Missed, Moved
<1>12. CASE Jump(t)
    <2>1. blocked' \in [Threads -> SUBSET Signals]
        BY <1>12 DEF Jump
    <2>2. CASE Own(t, pad[t])
        <3>1. Moved(t, "settle") /\ Rescans(t)
            BY <1>12, <2>2, ScanMoves DEF Jump
        <3>2. pad[t].level \in Nat /\ pad[t].level > 0
            BY <2>2 DEF Own
        <3>3. /\ depth' \in [Threads -> Nat] /\ depth'[t] > 0
              /\ \A u \in Threads \ {t} : depth'[u] = depth[u]
            BY <1>12, <2>2, <3>2 DEF Jump
        <3> QED
            BY <1>12, <2>1, <2>2, <3>1, <3>3 DEF Jump, Moved, Rescans
    <2>3. CASE ~Own(t, pad[t])
        BY <1>12, <2>1, <2>3 DEF Jump
    <2> QED
        BY <2>2, <2>3
<1>13. CASE Hang(t)
    <2>1. Moved(t, "hung")
        BY <1>13, GotoMoves DEF Hang
    <2> QED
        BY <1>13, <2>1 DEF Hang, Moved
<1> QED
    BY <1>1, <1>2, <1>3, <1>4, <1>5, <1>6, <1>7, <1>8, <1>9, <1>10, <1>11, <1>12, <1>13
       DEF Step

LEMMA TypesStutter == TypeInv /\ UNCHANGED vars => TypeInv'
BY DEF TypeInv, TypeOK, Scanned, vars, suite

THEOREM TypesInductive == Spec => []TypeInv
<1>1. TypeInv /\ [Next]_vars => TypeInv'
    BY TypesKept, TypesStutter DEF Next
<1> QED
    BY <1>1, TypesInitially, PTL DEF Spec

\* Every variable of the guard stays in its type.
THEOREM TypeCorrect == Spec => []TypeOK
<1>1. TypeInv => TypeOK
    BY DEF TypeInv
<1> QED
    BY <1>1, TypesInductive, PTL

-----------------------------------------------------------------------------
(* One slot for each thread.  What makes it inductive: a thread that scans has   *)
(* no slot among those it has passed, since nobody but itself writes its id; so   *)
(* when it has passed them all it has none.  That another thread may take a slot  *)
(* away from it, which obs_fault_register does with one whose pad is clear, only  *)
(* removes its id.                                                                *)

\* None of the slots before the n-th is t's.
NoneBefore(t, n) == \A i \in Slot : i < n => slots[i].tid # t

Owning ==
    /\ \A t \in Threads :
          /\ pc[t] = "register" => NoneBefore(t, at[t])
          /\ pc[t] = "claim"    => NoneBefore(t, NSlots + 1)
    /\ \A i, j \in Slot : (slots[i].tid # None /\ slots[i].tid = slots[j].tid) => i = j

\* A step of t that writes no thread's id, and leaves t with what Owning asks of it.
LEMMA IdsStay ==
    ASSUME TypeInv, Owning, NEW t \in Threads,
           \A i \in Slot : slots'[i].tid = slots[i].tid,
           \A u \in Threads \ {t} : pc'[u] = pc[u] /\ at'[u] = at[u],
           pc'[t] = "register" => NoneBefore(t, at'[t]),
           pc'[t] = "claim"    => NoneBefore(t, NSlots + 1)
    PROVE  Owning'
<1>1. \A u \in Threads : /\ pc'[u] = "register" => NoneBefore(u, at'[u])
                         /\ pc'[u] = "claim"    => NoneBefore(u, NSlots + 1)
    BY DEF Owning
<1> QED
    BY <1>1 DEF Owning, NoneBefore

\* Taking a slot: the thread had none, and now has this one.
LEMMA ClaimOwns ==
    ASSUME TypeInv, Owning, SelfKnown, NEW t \in Threads, RegisterClaim(t)
    PROVE  Owning'
<1> DEFINE n == found[t]
<1>1. n \in Slot
    BY DEF TypeInv, Scanned, RegisterClaim
<1>2. \A i \in Slot : slots[i].tid # t
    BY ConstantsAssumption DEF RegisterClaim, Owning, NoneBefore, Slot
<1>3. \A i \in Slot : slots'[i].tid = IF i = n THEN t ELSE slots[i].tid
    BY <1>1 DEF RegisterClaim, TypeInv, TypeOK, Tid
<1>4. /\ pc'[t] = "store" /\ at' = at
      /\ \A u \in Threads \ {t} : pc'[u] = pc[u]
    BY DEF RegisterClaim, Goto, local, TypeInv, TypeOK
<1>5. ASSUME NEW u \in Threads
      PROVE  /\ pc'[u] = "register" => NoneBefore(u, at[u])'
             /\ pc'[u] = "claim"    => NoneBefore(u, NSlots + 1)'
    <2>1. CASE u = t
        BY <1>4, <2>1
    <2>2. CASE u # t
        <3>1. /\ pc[u] = "register" => NoneBefore(u, at[u])
              /\ pc[u] = "claim"    => NoneBefore(u, NSlots + 1)
            BY DEF Owning
        <3>2. pc'[u] = pc[u] /\ at' = at
            BY <1>4, <2>2
        <3> QED
            BY <1>3, <2>2, <3>1, <3>2 DEF NoneBefore
    <2> QED
        BY <2>1, <2>2
<1>6. \A i, j \in Slot : (slots'[i].tid # None /\ slots'[i].tid = slots'[j].tid) => i = j
    BY <1>2, <1>3 DEF Owning
<1> QED
    BY <1>5, <1>6 DEF Owning

LEMMA OwningKept ==
    ASSUME TypeInv, Owning, SelfKnown, NEW t \in Threads, Step(t)
    PROVE  Owning'
<1> USE DEF TypeInv, TypeOK
<1>1. CASE RegisterClaim(t)
    BY <1>1, ClaimOwns
<1>2. CASE RegisterScan(t)
    <2>1. /\ slots' = slots /\ pc[t] = "register"
          /\ \A u \in Threads \ {t} : pc'[u] = pc[u] /\ at'[u] = at[u]
        BY <1>2 DEF RegisterScan, Goto, Proceed
    <2>2. CASE slots[at[t]].tid = Tid(t)
        <3>1. pc'[t] = "store"
            BY <1>2, <2>2 DEF RegisterScan, Goto
        <3> QED
            BY <2>1, <3>1, IdsStay
    <2>3. CASE slots[at[t]].tid # Tid(t)
        <3>1. pc' = pc /\ at'[t] = at[t] + 1 /\ at[t] \in Nat
            BY <1>2, <2>3, ConstantsAssumption DEF RegisterScan, Proceed
        <3>2. NoneBefore(t, at[t] + 1)
            <4>1. NoneBefore(t, at[t])
                BY <2>1 DEF Owning
            <4>2. \A i \in Slot : i < at[t] + 1 => i < at[t] \/ i = at[t]
                BY <3>1, ConstantsAssumption DEF Slot
            <4> QED
                BY <2>3, <4>1, <4>2 DEF NoneBefore, Tid
        <3> QED
            BY <2>1, <3>1, <3>2, IdsStay
    <2> QED
        BY <2>2, <2>3
<1>3. CASE RegisterEnd(t)
    <2>1. /\ slots' = slots /\ at' = at /\ pc[t] = "register"
          /\ \A u \in Threads \ {t} : pc'[u] = pc[u]
          /\ pc'[t] \in {"claim", "run"}
        BY <1>3 DEF RegisterEnd, Goto, Armed, local
    <2>2. at[t] = NSlots + 1
        BY <1>3, ConstantsAssumption DEF RegisterEnd, Slot
    <2>3. NoneBefore(t, NSlots + 1)
        BY <2>1, <2>2 DEF Owning
    <2> QED
        BY <2>1, <2>3, IdsStay
<1>4. CASE Arm(t)
    <2>1. Moved(t, "register") /\ Rescans(t) /\ slots' = slots
        BY <1>4, ScanMoves DEF Arm, Place
    <2>2. NoneBefore(t, 1)
        BY ConstantsAssumption DEF NoneBefore, Slot
    <2> QED
        BY <2>1, <2>2, IdsStay DEF Moved, Rescans
<1>5. CASE RegisterStore(t) \/ Unregister(t)
    <2>1. /\ \A i \in Slot : slots'[i].tid = slots[i].tid
          /\ \A u \in Threads \ {t} : pc'[u] = pc[u] /\ at'[u] = at[u]
          /\ pc'[t] \notin {"register", "claim"}
        BY <1>5 DEF RegisterStore, Unregister, Unregistered, Armed, Goto, Proceed, local
    <2> QED
        BY <2>1, IdsStay
<1>6. CASE \/ Create(t) \/ Return(t) \/ Fault(t) \/ Look(t) \/ NoLanding(t) \/ Jump(t)
           \/ Hang(t)
    <2>1. /\ slots' = slots
          /\ \A u \in Threads \ {t} : pc'[u] = pc[u] /\ at'[u] = at[u]
          /\ pc'[t] \notin {"register", "claim"}
        BY <1>6 DEF Create, Return, Fault, Look, NoLanding, Jump, Hang, Goto, Scan, Proceed, local
    <2> QED
        BY <2>1, IdsStay
<1> QED
    BY <1>1, <1>2, <1>3, <1>4, <1>5, <1>6 DEF Step

\* Where the thread ids are real, no thread ever owns two slots, whatever the
\* threads do to the table at the same time: obs_fault_unregister, which stops at the
\* first slot it finds, has found the only one.
THEOREM OneSlotForEach == Spec => []OneSlotEach
<1>1. CASE SelfKnown
    <2>1. Init => Owning
        BY DEF Init, Owning, NoneBefore
    <2>2. TypeInv /\ Owning /\ [Next]_vars => Owning'
        <3>1. ASSUME TypeInv, Owning, UNCHANGED vars
              PROVE  Owning'
            BY <3>1 DEF Owning, NoneBefore, vars
        <3> QED
            BY <1>1, <3>1, OwningKept DEF Next
    <2>3. Owning => OneSlotEach
        BY DEF Owning, OneSlotEach
    <2> QED
        BY <2>1, <2>2, <2>3, TypesInductive, PTL DEF Spec
<1>2. CASE ~SelfKnown
    <2>1. OneSlotEach
        BY <1>2 DEF OneSlotEach
    <2> QED
        BY <2>1, PTL
<1> QED
    BY <1>1, <1>2

-----------------------------------------------------------------------------
(* Where only one thread is in the table at a time, it finds the table as it left *)
(* it: a slot it saw free is free when it takes it, the slots it has passed are    *)
(* still not its own, and a pad it was given is still that of an open call.        *)

\* No pad of t is in the table.
Bare(t) == \A i \in Slot : slots[i].tid = t => slots[i].buf = NoPad

\* What a thread in the table may rely on.
Relied(t) ==
    /\ pc[t] \in {"register", "claim"} /\ found[t] # 0 => slots[found[t]].buf = NoPad
    /\ pc[t] = "store" => slots[found[t]].tid = t
    /\ pc[t] \in {"leave", "clear", "settle"} => NoneBefore(t, at[t])
    /\ pc[t] \in {"jump", "settle"} => Bare(t)
    /\ pc[t] \in {"clear", "jump"} => Own(t, pad[t])

PadsOpen ==
    \A i \in Slot :
        slots[i].buf # NoPad =>
            /\ slots[i].tid = slots[i].buf.thread
            /\ slots[i].buf.level <= depth[slots[i].buf.thread]

Turn ==
    ~overlap =>
        /\ PadsOpen /\ process # "wild"
        /\ \A t \in Threads : Relied(t)
        /\ \A t, u \in Threads : t \in Outside \/ u \in Outside \/ t = u

\* A step of a thread that has the table to itself: the others are outside and stay so.
LEMMA TurnStep ==
    ASSUME Turn, ~overlap, overlap' = overlap, NEW t \in Threads, May(t),
           \A u \in Threads \ {t} : pc'[u] = pc[u],
           PadsOpen', process' # "wild", Relied(t)'
    PROVE  Turn'
<1>1. \A u \in Threads \ {t} : pc'[u] \in {"run", "unborn", "hung", "gone"}
    BY DEF May, Outside
<1>2. \A u \in Threads : Relied(u)'
    BY <1>1 DEF Relied
<1>3. \A u, v \in Threads : (u \in Outside \/ v \in Outside \/ u = v)'
    BY <1>1 DEF Outside
<1> QED
    BY <1>2, <1>3 DEF Turn

\* Such a step that leaves the table and the depths as they are.
LEMMA QuietTurn ==
    ASSUME Turn, ~overlap, overlap' = overlap, NEW t \in Threads, May(t),
           \A u \in Threads \ {t} : pc'[u] = pc[u],
           slots' = slots, depth' = depth, process' # "wild", Relied(t)'
    PROVE  Turn'
<1>1. PadsOpen'
    BY DEF Turn, PadsOpen
<1> QED
    BY <1>1, TurnStep

LEMMA RegisterKeepsTurn ==
    ASSUME TypeInv, Turn, ~overlap, SelfKnown, NEW t \in Threads,
           Arm(t) \/ RegisterScan(t) \/ RegisterEnd(t) \/ RegisterClaim(t) \/ RegisterStore(t)
    PROVE  Turn'
<1> USE DEF TypeInv, TypeOK, suite, local
<1>0. /\ overlap' = overlap /\ May(t) /\ process' # "wild"
      /\ \A u \in Threads \ {t} : pc'[u] = pc[u]
    BY DEF Arm, RegisterScan, RegisterEnd, RegisterClaim, RegisterStore, Turn, Scan, Goto,
           Armed, Proceed, May
<1>r. Relied(t) /\ PadsOpen
    BY DEF Turn
<1>1. CASE Arm(t)
    <2>1. Moved(t, "register") /\ Rescans(t)
        BY <1>1, ScanMoves DEF Arm, Place
    <2>2. Relied(t)'
        BY <2>1 DEF Moved, Rescans, Relied
    <2> QED
        BY <1>0, <1>1, <2>2, QuietTurn DEF Arm
<1>2. CASE RegisterScan(t)
    <2>1. CASE slots[at[t]].tid = Tid(t)
        <3>1. pc'[t] = "store" /\ found'[t] = at[t] /\ slots' = slots
            BY <1>2, <2>1 DEF RegisterScan, Goto
        <3> QED
            BY <1>0, <1>2, <2>1, <3>1, QuietTurn DEF RegisterScan, Relied, Tid
    <2>2. CASE slots[at[t]].tid # Tid(t)
        <3>1. /\ pc'[t] = "register" /\ slots' = slots
              /\ found'[t] # 0 => slots[found'[t]].buf = NoPad
            BY <1>2, <1>r, <2>2 DEF RegisterScan, Relied
        <3> QED
            BY <1>0, <1>2, <3>1, QuietTurn DEF RegisterScan, Relied
    <2> QED
        BY <2>1, <2>2
<1>3. CASE RegisterEnd(t)
    <2>1. CASE found[t] # 0
        <3>1. pc'[t] = "claim" /\ found' = found /\ slots' = slots /\ depth' = depth
            BY <1>3, <2>1 DEF RegisterEnd, Goto
        <3>2. Relied(t)'
            BY <1>3, <1>r, <3>1 DEF RegisterEnd, Relied
        <3> QED
            BY <1>0, <3>1, <3>2, QuietTurn
    <2>2. CASE found[t] = 0
        <3>1. /\ pc'[t] = "run" /\ slots' = slots
              /\ \A u \in Threads : depth'[u] >= depth[u] /\ depth[u] \in Nat /\ depth'[u] \in Nat
            BY <1>3, <2>2 DEF RegisterEnd, Goto, Armed
        <3>2. PadsOpen'
            BY <1>r, <3>1 DEF PadsOpen, Pad
        <3> QED
            BY <1>0, <3>1, <3>2, TurnStep DEF Relied
    <2> QED
        BY <2>1, <2>2
<1>4. CASE RegisterClaim(t)
    <2>1. found[t] \in Slot /\ found[t] # 0 /\ slots[found[t]].buf = NoPad
        BY <1>4, <1>r, ConstantsAssumption DEF RegisterClaim, Scanned, Relied, Slot
    <2>2. /\ \A i \in Slot : /\ slots'[i].buf = slots[i].buf
                             /\ slots'[i].tid = IF i = found[t] THEN t ELSE slots[i].tid
          /\ pc'[t] = "store" /\ found' = found /\ depth' = depth
        BY <1>4, <2>1 DEF RegisterClaim, Goto, Tid
    <2>3. PadsOpen'
        BY <1>r, <2>1, <2>2 DEF PadsOpen
    <2> QED
        BY <1>0, <2>1, <2>2, <2>3, TurnStep DEF Relied
<1>5. CASE RegisterStore(t)
    <2>1. found[t] \in Slot /\ slots[found[t]].tid = t
        BY <1>5, <1>r DEF RegisterStore, Scanned, Relied
    <2>2. /\ \A i \in Slot : /\ slots'[i].tid = slots[i].tid
                             /\ slots'[i].buf = IF i = found[t]
                                               THEN [thread |-> t, level |-> depth[t] + 1]
                                               ELSE slots[i].buf
          /\ pc'[t] = "run"
          /\ \A u \in Threads : /\ depth[u] \in Nat
                                /\ depth'[u] = IF u = t THEN depth[u] + 1 ELSE depth[u]
        BY <1>5, <2>1 DEF RegisterStore, Goto, Armed
    <2>3. PadsOpen'
        <3> SUFFICES ASSUME NEW i \in Slot, slots'[i].buf # NoPad
                     PROVE  /\ slots'[i].tid = slots'[i].buf.thread
                            /\ slots'[i].buf.level <= depth'[slots'[i].buf.thread]
            BY DEF PadsOpen
        <3>1. CASE i = found[t]
            BY <2>1, <2>2, <3>1
        <3>2. CASE i # found[t]
            <4>1. slots[i].buf \in Pad
                BY <2>2, <3>2
            <4>2. slots[i].buf.thread \in Threads /\ slots[i].buf.level \in Nat
                BY <4>1 DEF Pad
            <4> QED
                BY <1>r, <2>2, <3>2, <4>2 DEF PadsOpen
        <3> QED
            BY <3>1, <3>2
    <2> QED
        BY <1>0, <2>2, <2>3, TurnStep DEF Relied
<1> QED
    BY <1>1, <1>2, <1>3, <1>4, <1>5

\* The slot a scan finds is the thread's only one, and a scan that finds none has seen
\* that there is none: either way the thread has no pad left.
LEMMA UnregisterKeepsTurn ==
    ASSUME TypeInv, Owning, Turn, ~overlap, SelfKnown, NEW t \in Threads, Unregister(t)
    PROVE  Turn'
<1> USE DEF TypeInv, TypeOK, suite, local
<1>0. /\ overlap' = overlap /\ May(t) /\ process' # "wild" /\ pad' = pad
      /\ \A u \in Threads \ {t} : pc'[u] = pc[u]
      /\ pc[t] \in {"leave", "clear", "settle"}
    BY DEF Unregister, Unregistered, Turn, Goto, May
<1>r. Relied(t) /\ PadsOpen /\ NoneBefore(t, at[t])
    BY <1>0 DEF Turn, Relied
<1>1. CASE at[t] \in Slot /\ slots[at[t]].tid # Tid(t)
    <2>1. /\ slots' = slots /\ depth' = depth /\ pc' = pc
          /\ at'[t] = at[t] + 1 /\ at[t] \in Nat
        BY <1>1, ConstantsAssumption DEF Unregister, Proceed, Slot
    <2>2. NoneBefore(t, at[t] + 1)
        <3>1. \A i \in Slot : i < at[t] + 1 => i < at[t] \/ i = at[t]
            BY <2>1, ConstantsAssumption DEF Slot
        <3> QED
            BY <1>1, <1>r, <3>1 DEF NoneBefore, Tid
    <2>3. Relied(t)'
        BY <1>0, <1>r, <2>1, <2>2 DEF Relied, NoneBefore, Bare, Own
    <2> QED
        BY <1>0, <2>1, <2>3, QuietTurn
<1>2. CASE ~(at[t] \in Slot /\ slots[at[t]].tid # Tid(t))
    <2>1. /\ \A i \in Slot : /\ slots'[i].tid = slots[i].tid
                             /\ slots'[i].buf = slots[i].buf \/ slots'[i].buf = NoPad
          /\ Unregistered(t)
        BY <1>2 DEF Unregister
    <2>2. \A i \in Slot : slots[i].tid = t => slots'[i].buf = NoPad
        <3>1. CASE at[t] \in Slot /\ slots[at[t]].tid = Tid(t)
            <4>1. slots[at[t]].tid = t /\ t # None
                BY <3>1, ConstantsAssumption DEF Tid
            <4>2. \A i \in Slot : slots[i].tid = t => i = at[t]
                BY <3>1, <4>1 DEF Owning
            <4>3. slots'[at[t]].buf = NoPad
                BY <3>1 DEF Unregister
            <4> QED
                BY <4>2, <4>3
        <3>2. CASE at[t] \notin Slot
            <4>1. at[t] = NSlots + 1
                BY <3>2, ConstantsAssumption DEF Slot
            <4> QED
                BY <1>r, <4>1, ConstantsAssumption DEF NoneBefore, Slot
        <3> QED
            BY <1>2, <3>1, <3>2
    <2>3. Bare(t)'
        BY <2>1, <2>2 DEF Bare
    <2>4. /\ \A u \in Threads \ {t} : depth'[u] = depth[u]
          /\ pc'[t] = "run" \/ (pc[t] = "clear" /\ pc'[t] = "jump" /\ depth' = depth)
        BY <2>1 DEF Unregistered, Goto
    <2>5. PadsOpen'
        <3> SUFFICES ASSUME NEW i \in Slot, slots'[i].buf # NoPad
                     PROVE  /\ slots'[i].tid = slots'[i].buf.thread
                            /\ slots'[i].buf.level <= depth'[slots'[i].buf.thread]
            BY DEF PadsOpen
        <3>1. slots'[i].buf = slots[i].buf /\ slots'[i].tid = slots[i].tid /\ slots[i].tid # t
            BY <2>1, <2>2
        <3>2. slots[i].tid = slots[i].buf.thread /\ slots[i].buf.level <= depth[slots[i].buf.thread]
            BY <1>r, <3>1 DEF PadsOpen
        <3>3. slots[i].buf.thread \in Threads \ {t}
            BY <3>1, <3>2 DEF Pad
        <3> QED
            BY <2>4, <3>1, <3>2, <3>3
    <2>6. Relied(t)'
        BY <1>0, <1>r, <2>3, <2>4 DEF Relied, Own
    <2> QED
        BY <1>0, <2>5, <2>6, TurnStep
<1> QED
    BY <1>1, <1>2

\* The handler takes a pad of its own thread, whose call is open, and goes there.
LEMMA HandlerKeepsTurn ==
    ASSUME TypeInv, Turn, ~overlap, SelfKnown, NEW t \in Threads,
           Fault(t) \/ Look(t) \/ NoLanding(t) \/ Jump(t)
    PROVE  Turn'
<1> USE DEF TypeInv, TypeOK, suite, local
<1>0. /\ overlap' = overlap /\ May(t)
      /\ \A u \in Threads \ {t} : pc'[u] = pc[u]
      /\ slots' = slots
    BY DEF Fault, Look, NoLanding, Jump, Scan, Goto, Proceed
<1>r. Relied(t) /\ PadsOpen /\ process = "up"
    BY <1>0 DEF Turn, May
<1>1. CASE Fault(t)
    <2>1. pc'[t] \in {"run", "look"} /\ process' # "wild" /\ depth' = depth
        BY <1>1, <1>r DEF Fault, Scan, Goto
    <2> QED
        BY <1>0, <2>1, QuietTurn DEF Relied
<1>2. CASE Look(t)
    <2>1. CASE ~(slots[at[t]].tid = Tid(t) /\ slots[at[t]].buf # NoPad)
        <3>1. pc'[t] = "look" /\ process' # "wild" /\ depth' = depth
            BY <1>2, <1>r, <2>1 DEF Look
        <3> QED
            BY <1>0, <3>1, QuietTurn DEF Relied
    <2>2. CASE slots[at[t]].tid = Tid(t) /\ slots[at[t]].buf # NoPad
        <3>1. /\ at[t] \in Slot /\ pad'[t] = slots[at[t]].buf /\ process' # "wild" /\ depth' = depth
            BY <1>2, <1>r, <2>2 DEF Look
        <3>2. Moved(t, "clear") /\ Rescans(t)
            BY <1>2, <2>2, ScanMoves DEF Look, Place
        <3>3. slots[at[t]].buf \in Pad
            BY <2>2, <3>1
        <3>4. Own(t, pad'[t])
            BY <1>r, <2>2, <3>1, <3>3 DEF PadsOpen, Own, Pad, Tid
        <3>5. Own(t, pad[t])'
            BY <3>1, <3>4 DEF Own
        <3>6. NoneBefore(t, at[t])'
            BY <3>2, ConstantsAssumption DEF NoneBefore, Rescans, Slot
        <3> QED
            BY <1>0, <3>1, <3>2, <3>5, <3>6, QuietTurn DEF Relied, Moved
    <2> QED
        BY <2>1, <2>2
<1>3. CASE NoLanding(t)
    <2>1. pc'[t] \in {"look", "gone"} /\ process' # "wild" /\ depth' = depth
        BY <1>3, <1>r DEF NoLanding, Goto
    <2> QED
        BY <1>0, <2>1, QuietTurn DEF Relied
<1>4. CASE Jump(t)
    <2>1. Own(t, pad[t]) /\ Bare(t)
        BY <1>4, <1>r DEF Jump, Relied
    <2>2. Moved(t, "settle") /\ Rescans(t)
        BY <1>4, <2>1, ScanMoves DEF Jump, Place
    <2>3. process' # "wild" /\ \A u \in Threads \ {t} : depth'[u] = depth[u]
        BY <1>4, <1>r, <2>1 DEF Jump
    <2>4. PadsOpen'
        <3> SUFFICES ASSUME NEW i \in Slot, slots[i].buf # NoPad
                     PROVE  /\ slots[i].tid = slots[i].buf.thread
                            /\ slots[i].buf.level <= depth'[slots[i].buf.thread]
            BY <1>0 DEF PadsOpen
        <3>1. slots[i].tid # t /\ slots[i].buf \in Pad
            BY <2>1 DEF Bare
        <3> QED
            BY <1>r, <2>3, <3>1 DEF PadsOpen, Pad
    <2>5. Bare(t)' /\ NoneBefore(t, at[t])'
        BY <1>0, <2>1, <2>2, ConstantsAssumption DEF Bare, NoneBefore, Rescans, Slot
    <2> QED
        BY <1>0, <2>2, <2>3, <2>4, <2>5, TurnStep DEF Relied, Moved
<1> QED
    BY <1>1, <1>2, <1>3, <1>4

LEMMA TurnKept ==
    ASSUME TypeInv, Owning, Turn, SelfKnown, NEW t \in Threads, Step(t)
    PROVE  Turn'
<1> USE DEF TypeInv, TypeOK
<1>1. overlap' = overlap
    BY DEF Step, Create, Arm, RegisterScan, RegisterEnd, RegisterClaim, RegisterStore, Return,
           Unregister, Fault, Look, NoLanding, Jump, Hang, suite
<1>2. SUFFICES ASSUME ~overlap
               PROVE  Turn'
    BY <1>1 DEF Turn
<1>3. CASE Create(t)
    <2>1. /\ pc'[t] = "run" /\ slots' = slots /\ depth' = depth /\ process' = process
          /\ at' = at /\ found' = found /\ pad' = pad
          /\ \A u \in Threads \ {t} : pc'[u] = pc[u]
        BY <1>3 DEF Create, Goto, local
    <2>2. \A u \in Threads : Relied(u)'
        BY <2>1, <1>2 DEF Turn, Relied, NoneBefore, Bare, Own
    <2>3. PadsOpen' /\ process' # "wild"
        BY <2>1, <1>2 DEF Turn, PadsOpen
    <2>4. \A u \in Threads : u \in Outside => u \in Outside'
        BY <2>1 DEF Outside
    <2> QED
        BY <2>2, <2>3, <2>4, <1>2 DEF Turn
<1>4. CASE Return(t)
    <2>1. Moved(t, "leave") /\ Rescans(t) /\ slots' = slots /\ depth' = depth
        BY <1>4, ScanMoves DEF Return, Place
    <2>2. process' # "wild" /\ May(t)
        BY <1>4 DEF Return, May
    <2>3. NoneBefore(t, at[t])'
        BY <2>1, ConstantsAssumption DEF NoneBefore, Rescans, Slot
    <2> QED
        BY <1>1, <1>2, <2>1, <2>2, <2>3, QuietTurn DEF Relied, Moved
<1>5. CASE Hang(t)
    <2>1. /\ pc'[t] = "hung" /\ slots' = slots /\ depth' = depth /\ process' # "wild" /\ May(t)
          /\ \A u \in Threads \ {t} : pc'[u] = pc[u]
        BY <1>5 DEF Hang, Goto, May
    <2> QED
        BY <1>1, <1>2, <2>1, QuietTurn DEF Relied
<1> QED
    BY <1>2, <1>3, <1>4, <1>5, RegisterKeepsTurn, UnregisterKeepsTurn, HandlerKeepsTurn DEF Step

\* All of it, where the thread ids are real.
Guarded == Owning /\ Turn

LEMMA GuardedAlways == ASSUME SelfKnown PROVE Spec => []Guarded
<1>1. Init => Guarded
    BY DEF Init, Guarded, Owning, Turn, NoneBefore, PadsOpen, Relied, Outside
<1>2. TypeInv /\ Guarded /\ [Next]_vars => Guarded'
    <2>1. ASSUME TypeInv, Guarded, UNCHANGED vars
          PROVE  Guarded'
        BY <2>1 DEF Guarded, Owning, Turn, NoneBefore, PadsOpen, Relied, Outside, Bare, Own,
                    vars, suite
    <2> QED
        BY <2>1, OwningKept, TurnKept DEF Next, Guarded
<1> QED
    BY <1>1, <1>2, TypesInductive, PTL DEF Spec

\* Without overlap, a pad in the table is that of a call still open on the thread whose
\* slot it is in: nothing can jump into a frame that has returned (fault.c:126).
THEOREM PadsStayOpen == ASSUME SelfKnown PROVE Spec => []PadsAreOpen
<1>1. Guarded => PadsAreOpen
    BY DEF Guarded, Turn, PadsOpen, PadsAreOpen, Tid
<1> QED
    BY <1>1, GuardedAlways, PTL

\* Without overlap and with real ids, the handler never jumps into a frame of another
\* thread or one that is gone (fault.h:27).
THEOREM LandingIsHome == Spec => []LandsAtHome
<1>1. CASE SelfKnown
    <2>1. Guarded => LandsAtHome
        BY DEF Guarded, Turn, LandsAtHome
    <2> QED
        BY <1>1, <2>1, GuardedAlways, PTL
<1>2. CASE ~SelfKnown
    <2>1. LandsAtHome
        BY <1>2 DEF LandsAtHome
    <2> QED
        BY <2>1, PTL
<1> QED
    BY <1>1, <1>2

-----------------------------------------------------------------------------
(* A fault inside an arm is caught, where no arm is inside another, threads     *)
(* take turns in the table, and fewer other threads arm than there are slots.   *)

\* The premise of FlatArmsAreCaught, and its way out.
Flat == ~overlap /\ \A t \in Threads : nesting[t] <= 1

Arming(t) == {u \in Threads \ {t} : nesting[u] > 0}

Crowded(t) == Cardinality(Arming(t)) >= NSlots

\* The pad of t is in the table, where a scan of its handler has yet to come.
Padded(t) ==
    \E i \in Slot :
        /\ slots[i].tid = t /\ slots[i].buf # NoPad
        /\ pc[t] = "look" => at[t] <= i

\* What a thread has of the guard: an arm no deeper than it may nest, a mask that only its
\* handler keeps, a scan that found no free slot among those it passed, and a pad.
Covered(t) ==
    /\ depth[t] <= nesting[t]
    /\ pc[t] = "unborn" => depth[t] = 0
    /\ pc[t] \in {"register", "claim", "store"} => depth[t] < nesting[t]
    /\ blocked[t] # {} => pc[t] \in {"look", "clear", "jump", "gone"}
    /\ pc[t] = "register" /\ found[t] = 0 =>
          \A i \in Slot : i < at[t] => slots[i].buf # NoPad
    /\ depth[t] > 0 /\ pc[t] \in {"run", "look"} => Padded(t) \/ Crowded(t)

Caught ==
    Flat => /\ \A t \in Threads : Covered(t)
            /\ \A t \in missed : Crowded(t)

\* A thread that sees a pad in every slot, and none its own, sees as many other threads
\* that arm as there are slots.
LEMMA FullIsCrowded ==
    ASSUME TypeInv, Owning, PadsOpen, IsFiniteSet(Threads), NEW t \in Threads,
           \A u \in Threads : depth[u] <= nesting[u],
           \A i \in Slot : slots[i].buf # NoPad /\ slots[i].tid # t
    PROVE  Crowded(t)
<1> USE DEF TypeInv, TypeOK
<1> DEFINE owner == [i \in Slot |-> slots[i].tid]
<1>1. \A i \in Slot : slots[i].tid \in Arming(t)
    <2> SUFFICES ASSUME NEW i \in Slot
                 PROVE  slots[i].tid \in Arming(t)
        OBVIOUS
    <2>1. /\ slots[i].buf \in Pad /\ slots[i].tid = slots[i].buf.thread
          /\ slots[i].buf.level <= depth[slots[i].buf.thread]
        BY DEF PadsOpen
    <2>2. slots[i].buf.level >= 1 /\ slots[i].buf.level \in Nat /\ slots[i].tid \in Threads
        BY <2>1 DEF Pad
    <2>3. depth[slots[i].tid] \in Nat /\ nesting[slots[i].tid] \in Nat
        BY <2>2, ConstantsAssumption
    <2>4. nesting[slots[i].tid] > 0
        BY <2>1, <2>2, <2>3
    <2> QED
        BY <2>2, <2>4 DEF Arming
<1>2. owner \in [Slot -> Arming(t)]
    BY <1>1
<1>3. \A i, j \in Slot : owner[i] = owner[j] => i = j
    <2>1. \A i \in Slot : slots[i].tid # None
        BY <1>1, ConstantsAssumption DEF Arming
    <2> QED
        BY <2>1 DEF Owning
<1>4. IsFiniteSet(Slot) /\ Cardinality(Slot) = NSlots
    BY FS_Interval, ConstantsAssumption DEF Slot
<1>5. IsFiniteSet(Arming(t)) /\ Cardinality(Arming(t)) \in Nat
    BY FS_Subset, FS_CardinalityType DEF Arming
<1> HIDE DEF owner
<1>6. ~(Cardinality(Arming(t)) < Cardinality(Slot))
    BY <1>2, <1>3, <1>4, <1>5, FS_PigeonHole
<1> QED
    BY <1>4, <1>5, <1>6, ConstantsAssumption DEF Crowded

\* A step of t takes no pad away from another thread.
LEMMA PadStays ==
    ASSUME TypeInv, Turn, Flat, SelfKnown, NEW t \in Threads, Step(t),
           NEW i \in Slot, slots[i].tid # t, slots[i].buf # NoPad
    PROVE  slots'[i] = slots[i]
<1> USE DEF TypeInv, TypeOK
<1>1. CASE RegisterClaim(t)
    <2>1. found[t] \in Slot /\ slots[found[t]].buf = NoPad
        BY <1>1, ConstantsAssumption DEF RegisterClaim, Scanned, Turn, Flat, Relied, Slot
    <2> QED
        BY <1>1, <2>1 DEF RegisterClaim
<1>2. CASE RegisterStore(t)
    <2>1. found[t] \in Slot /\ slots[found[t]].tid = t
        BY <1>2 DEF RegisterStore, Scanned, Turn, Flat, Relied
    <2> QED
        BY <1>2, <2>1 DEF RegisterStore
<1>3. CASE Unregister(t)
    BY <1>3 DEF Unregister, Tid
<1>4. CASE ~(RegisterClaim(t) \/ RegisterStore(t) \/ Unregister(t))
    BY <1>4 DEF Step, Create, Arm, RegisterScan, RegisterEnd, Return, Fault, Look, NoLanding,
                Jump, Hang
<1> QED
    BY <1>1, <1>2, <1>3, <1>4

\* A thread that does not move keeps its cover.
LEMMA OthersCovered ==
    ASSUME TypeInv, Turn, Flat, Caught, SelfKnown, NEW t \in Threads, Step(t),
           NEW u \in Threads \ {t}
    PROVE  Covered(u)'
<1> USE DEF TypeInv, TypeOK
<1>1. /\ nesting' = nesting
      /\ pc'[u] = pc[u] /\ at'[u] = at[u] /\ found'[u] = found[u] /\ depth'[u] = depth[u]
      /\ blocked'[u] = blocked[u]
    <2>1. CASE Create(t) \/ Arm(t) \/ RegisterScan(t) \/ RegisterEnd(t) \/ RegisterClaim(t)
               \/ RegisterStore(t)
        BY <2>1 DEF Create, Arm, RegisterScan, RegisterEnd, RegisterClaim, RegisterStore, Goto,
                    Scan, Proceed, Armed, suite, local
    <2>2. CASE Return(t) \/ Unregister(t) \/ Look(t) \/ NoLanding(t) \/ Jump(t) \/ Hang(t)
        BY <2>2 DEF Return, Unregister, Unregistered, Look, NoLanding, Jump, Hang, Goto, Scan,
                    Proceed, suite, local
    <2>3. CASE Fault(t)
        BY <2>3 DEF Fault, Goto, Scan, suite, local
    <2> QED
        BY <2>1, <2>2, <2>3 DEF Step
<1>2. Covered(u)
    BY DEF Caught
<1>3. Padded(u) => Padded(u)'
    BY <1>1, PadStays DEF Padded
<1>4. pc[u] = "register" => slots' = slots
    <2>1. CASE Create(t)
        BY <2>1 DEF Create
    <2>2. CASE ~Create(t)
        <3>1. May(t)
            BY <2>2 DEF Step, Arm, RegisterScan, RegisterEnd, RegisterClaim, RegisterStore,
                        Return, Unregister, Fault, Look, NoLanding, Jump, Hang
        <3> QED
            BY <3>1 DEF May, Flat, Outside
    <2> QED
        BY <2>1, <2>2
<1> QED
    BY <1>1, <1>2, <1>3, <1>4 DEF Covered, Crowded, Arming

\* The thread that moves keeps its own, and is missed only in a crowd.
LEMMA MoverCovered ==
    ASSUME TypeInv, Owning, Turn, Flat, Caught, SelfKnown, Unblocks, IsFiniteSet(Threads),
           NEW t \in Threads, Step(t)
    PROVE  Covered(t)' /\ \A u \in missed' : Crowded(u)
<1> USE DEF TypeInv, TypeOK
<1>c. Covered(t) /\ \A u \in missed : Crowded(u)
    BY DEF Caught
<1>t. /\ Relied(t) /\ PadsOpen /\ nesting' = nesting /\ nesting[t] \in 0..1 /\ depth[t] \in Nat
      /\ \A u \in Threads : depth[u] <= nesting[u]
    <2>1. nesting' = nesting
        BY DEF Step, Create, Arm, RegisterScan, RegisterEnd, RegisterClaim, RegisterStore, Return,
               Unregister, Fault, Look, NoLanding, Jump, Hang, suite
    <2>2. Relied(t) /\ PadsOpen /\ \A u \in Threads : depth[u] <= nesting[u]
        BY DEF Turn, Flat, Caught, Covered
    <2>3. nesting[t] \in Nat /\ nesting[t] <= 1
        BY ConstantsAssumption DEF Flat
    <2>4. depth[t] \in Nat
        OBVIOUS
    <2> HIDE DEF TypeInv, TypeOK
    <2>5. nesting[t] \in 0..1
        BY <2>3
    <2> QED
        BY <2>1, <2>2, <2>4, <2>5
<1>k. Crowded(t) => Crowded(t)'
    BY <1>t DEF Crowded, Arming
<1>1. CASE Create(t)
    <2>1. /\ pc[t] = "unborn" /\ pc'[t] = "run" /\ depth' = depth /\ blocked' = blocked
          /\ missed' = missed
        BY <1>1 DEF Create, Goto
    <2>2. depth[t] = 0
        BY <1>c, <2>1 DEF Covered
    <2> QED
        BY <1>c, <1>t, <2>1, <2>2 DEF Covered
<1>2. CASE Arm(t)
    <2>1. Moved(t, "register") /\ Rescans(t)
        BY <1>2, ScanMoves DEF Arm, Place
    <2>2. /\ depth' = depth /\ blocked' = blocked /\ missed' = missed
          /\ pc[t] = "run" /\ depth[t] < nesting[t]
        BY <1>2 DEF Arm
    <2>3. \A i \in Slot : ~(i < 1)
        BY ConstantsAssumption DEF Slot
    <2> QED
        BY <1>c, <1>t, <2>1, <2>2, <2>3 DEF Covered, Moved, Rescans
<1>3. CASE RegisterScan(t)
    <2>1. /\ pc[t] = "register" /\ at[t] \in Slot /\ depth' = depth /\ blocked' = blocked
          /\ missed' = missed /\ slots' = slots
        BY <1>3 DEF RegisterScan
    <2>2. CASE slots[at[t]].tid = Tid(t)
        <3>1. pc'[t] = "store"
            BY <1>3, <2>2 DEF RegisterScan, Goto
        <3> QED
            BY <1>c, <1>t, <2>1, <3>1 DEF Covered
    <2>3. CASE slots[at[t]].tid # Tid(t)
        <3>1. /\ pc'[t] = "register" /\ at'[t] = at[t] + 1 /\ at[t] \in Nat /\ at[t] # 0
              /\ found'[t] = IF found[t] = 0 /\ slots[at[t]].buf = NoPad THEN at[t] ELSE found[t]
            BY <1>3, <2>1, <2>3, ConstantsAssumption DEF RegisterScan, Proceed, Slot
        <3>2. found'[t] = 0 => \A i \in Slot : i < at[t] + 1 => slots[i].buf # NoPad
            <4>1. \A i \in Slot : i < at[t] + 1 => i < at[t] \/ i = at[t]
                BY <3>1, ConstantsAssumption DEF Slot
            <4> QED
                BY <1>c, <2>1, <3>1, <4>1 DEF Covered
        <3> QED
            BY <1>c, <1>t, <2>1, <3>1, <3>2 DEF Covered
    <2> QED
        BY <2>2, <2>3
<1>4. CASE RegisterEnd(t)
    <2>1. /\ pc[t] = "register" /\ at[t] \notin Slot /\ blocked' = blocked /\ missed' = missed
          /\ slots' = slots
        BY <1>4 DEF RegisterEnd
    <2>2. CASE found[t] # 0
        <3>1. pc'[t] = "claim" /\ depth' = depth
            BY <1>4, <2>2 DEF RegisterEnd, Goto
        <3> QED
            BY <1>c, <1>t, <2>1, <3>1 DEF Covered
    <2>3. CASE found[t] = 0
        <3>1. pc'[t] = "run" /\ depth'[t] = depth[t] + 1
            BY <1>4, <2>3 DEF RegisterEnd, Armed, Goto
        <3>2. at[t] = NSlots + 1
            BY <2>1, ConstantsAssumption DEF Slot
        <3>3. \A i \in Slot : i < at[t]
            BY <3>2, ConstantsAssumption DEF Slot
        <3>4. \A i \in Slot : slots[i].buf # NoPad /\ slots[i].tid # t
            BY <1>c, <2>1, <2>3, <3>3 DEF Covered, Owning, NoneBefore
        <3>5. Crowded(t)
            BY <1>t, <3>4, FullIsCrowded
        <3>6. depth'[t] <= nesting[t]
            BY <1>c, <1>t, <2>1, <3>1 DEF Covered
        <3> QED
            BY <1>c, <1>t, <1>k, <2>1, <3>1, <3>5, <3>6 DEF Covered
    <2> QED
        BY <2>2, <2>3
<1>5. CASE RegisterClaim(t)
    <2>1. /\ pc[t] = "claim" /\ pc'[t] = "store"
          /\ depth' = depth /\ blocked' = blocked /\ missed' = missed
        BY <1>5 DEF RegisterClaim, Goto
    <2> QED
        BY <1>c, <1>t, <2>1 DEF Covered
<1>6. CASE RegisterStore(t)
    <2>1. /\ pc[t] = "store" /\ pc'[t] = "run" /\ depth'[t] = depth[t] + 1 /\ blocked' = blocked
          /\ missed' = missed
        BY <1>6 DEF RegisterStore, Goto, Armed
    <2>2. found[t] \in Slot /\ slots[found[t]].tid = t
        BY <1>t, <2>1 DEF Scanned, Relied
    <2>3. slots'[found[t]].tid = t /\ slots'[found[t]].buf = [thread |-> t, level |-> depth[t] + 1]
        BY <1>6, <2>2 DEF RegisterStore
    <2>4. [thread |-> t, level |-> depth[t] + 1] # NoPad
        BY <1>t DEF NoPad
    <2>5. Padded(t)'
        BY <2>1, <2>2, <2>3, <2>4 DEF Padded
    <2>6. depth'[t] <= nesting[t]
        BY <1>c, <1>t, <2>1 DEF Covered
    <2> QED
        BY <1>c, <1>t, <2>1, <2>5, <2>6 DEF Covered
<1>7. CASE Return(t) \/ Hang(t)
    <2>1. /\ pc[t] = "run" /\ pc'[t] \in {"leave", "hung"}
          /\ depth' = depth /\ blocked' = blocked /\ missed' = missed
        BY <1>7 DEF Return, Hang, Scan, Goto
    <2> QED
        BY <1>c, <1>t, <2>1 DEF Covered
<1>8. CASE Unregister(t)
    <2>1. pc[t] \in {"leave", "clear", "settle"} /\ blocked' = blocked /\ missed' = missed
        BY <1>8 DEF Unregister
    <2>2. CASE pc' = pc /\ depth' = depth
        BY <1>c, <1>t, <2>1, <2>2 DEF Covered
    <2>3. CASE Unregistered(t)
        <3>1. CASE pc[t] = "clear"
            <4>1. pc'[t] = "jump" /\ depth' = depth
                BY <2>3, <3>1 DEF Unregistered, Goto
            <4> QED
                BY <1>c, <1>t, <2>1, <4>1 DEF Covered
        <3>2. CASE pc[t] # "clear"
            <4>1. pc'[t] = "run" /\ depth'[t] = depth[t] - 1
                BY <2>3, <3>2 DEF Unregistered, Goto
            <4>2. depth'[t] = 0
                BY <1>t, <2>1, <3>2, <4>1 DEF Scanned
            <4> QED
                BY <1>c, <1>t, <2>1, <3>2, <4>1, <4>2 DEF Covered
        <3> QED
            BY <3>1, <3>2
    <2> QED
        BY <1>8, <2>2, <2>3 DEF Unregister
<1>9. CASE Fault(t)
    <2>1. PICK s \in Signals :
            IF s \in blocked[t]
            THEN process' = "dead" /\ Missed(t) /\ UNCHANGED <<pc, at, found, blocked>>
            ELSE /\ blocked' = [blocked EXCEPT ![t] = @ \cup {s}]
                 /\ Scan(t, "look") /\ UNCHANGED <<process, missed>>
        BY <1>9 DEF Fault
    <2>2. pc[t] = "run" /\ slots' = slots /\ depth' = depth /\ blocked[t] = {}
        BY <1>9, <1>c DEF Fault, Covered
    <2>3. Moved(t, "look") /\ Rescans(t) /\ missed' = missed
        BY <2>1, <2>2, ScanMoves DEF Place
    <2>4. Padded(t) => Padded(t)'
        <3>1. \A i \in Slot : 1 <= i
            BY ConstantsAssumption DEF Slot
        <3> QED
            BY <2>2, <2>3, <3>1 DEF Padded, Rescans
    <2> QED
        BY <1>c, <1>t, <1>k, <2>2, <2>3, <2>4 DEF Covered, Moved
<1>10. CASE Look(t)
    <2>1. /\ pc[t] = "look" /\ at[t] \in Slot /\ slots' = slots
          /\ depth' = depth /\ blocked' = blocked /\ missed' = missed
        BY <1>10 DEF Look
    <2>2. CASE slots[at[t]].tid = Tid(t) /\ slots[at[t]].buf # NoPad
        <3>1. pc'[t] = "clear"
            BY <1>10, <2>2 DEF Look, Scan, Goto
        <3> QED
            BY <1>c, <1>t, <2>1, <3>1 DEF Covered
    <2>3. CASE ~(slots[at[t]].tid = Tid(t) /\ slots[at[t]].buf # NoPad)
        <3>1. pc' = pc /\ found' = found /\ at'[t] = at[t] + 1 /\ at[t] \in Nat
            BY <1>10, <2>1, <2>3, ConstantsAssumption DEF Look, Proceed, Slot
        <3>2. Padded(t) => Padded(t)'
            <4>1. \A i \in Slot : at[t] <= i /\ i # at[t] => at[t] + 1 <= i
                BY <3>1, ConstantsAssumption DEF Slot
            <4> QED
                BY <2>1, <2>3, <3>1, <4>1 DEF Padded, Tid
        <3> QED
            BY <1>c, <1>t, <1>k, <2>1, <3>1, <3>2 DEF Covered
    <2> QED
        BY <2>2, <2>3
<1>11. CASE NoLanding(t)
    <2>1. /\ pc[t] = "look" /\ at[t] \notin Slot /\ slots' = slots
          /\ depth' = depth /\ blocked' = blocked /\ at' = at /\ found' = found /\ pc'[t] \in {"look", "gone"} /\ Missed(t)
        BY <1>11 DEF NoLanding, Goto, local
    <2>2. at[t] = NSlots + 1
        BY <2>1, ConstantsAssumption DEF Slot
    <2>3. ~Padded(t)
        <3>1. \A i \in Slot : ~(at[t] <= i)
            BY <2>2, ConstantsAssumption DEF Slot
        <3> QED
            BY <2>1, <3>1 DEF Padded
    <2>4. depth[t] > 0 => Crowded(t)
        BY <1>c, <2>1, <2>3 DEF Covered
    <2> QED
        BY <1>c, <1>t, <1>k, <2>1, <2>4 DEF Covered, Missed
<1>12. CASE Jump(t)
    <2>1. pc[t] = "jump" /\ Own(t, pad[t])
        BY <1>12, <1>t DEF Jump, Relied
    <2>2. /\ pc'[t] = "settle" /\ blocked'[t] = {} /\ missed' = missed
          /\ depth'[t] \in Nat /\ depth'[t] <= depth[t]
        BY <1>12, <1>t, <2>1 DEF Jump, Scan, Goto, Own
    <2> QED
        BY <1>c, <1>t, <2>2 DEF Covered
<1> QED
    BY <1>1, <1>2, <1>3, <1>4, <1>5, <1>6, <1>7, <1>8, <1>9, <1>10, <1>11, <1>12 DEF Step

\* A fault inside an arm is caught, unless as many other threads arm as there are slots:
\* for any number of either, where arms do not nest, threads can name themselves and the
\* jump restores the mask (fault.c:229, fault.c:108).
THEOREM FlatIsCaught ==
    ASSUME SelfKnown, Unblocks, IsFiniteSet(Threads)
    PROVE  Spec => []FlatArmsAreCaught
<1>1. Init => Caught
    BY ConstantsAssumption DEF Init, Caught, Covered
<1>2. TypeInv /\ Guarded /\ Caught /\ [Next]_vars => Caught'
    <2>1. ASSUME Caught, UNCHANGED vars
          PROVE  Caught'
        BY <2>1 DEF Caught, Covered, Crowded, Arming, Padded, Flat, vars, suite
    <2>2. ASSUME TypeInv, Guarded, Caught, NEW t \in Threads, Step(t)
          PROVE  Caught'
        <3>1. overlap' = overlap /\ nesting' = nesting
            BY <2>2 DEF Step, Create, Arm, RegisterScan, RegisterEnd, RegisterClaim, RegisterStore,
                        Return, Unregister, Fault, Look, NoLanding, Jump, Hang, suite
        <3>2. Flat' => Flat
            BY <3>1 DEF Flat
        <3>3. ASSUME Flat
              PROVE  /\ \A u \in Threads : Covered(u)'
                     /\ \A u \in missed' : Crowded(u)
            BY <2>2, <3>3, OthersCovered, MoverCovered DEF Guarded
        <3>4. \A u : Crowded(u) => Crowded(u)'
            BY <3>1 DEF Crowded, Arming
        <3> QED
            BY <3>2, <3>3, <3>4 DEF Caught
    <2> QED
        BY <2>1, <2>2 DEF Next
<1>3. Caught => FlatArmsAreCaught
    BY DEF Caught, Flat, Crowded, Arming, FlatArmsAreCaught
<1> QED
    BY <1>1, <1>2, <1>3, TypesInductive, GuardedAlways, PTL DEF Spec
==============================================================================
