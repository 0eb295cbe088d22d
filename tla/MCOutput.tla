------------------------------ MODULE MCOutput ------------------------------
(* Instances of Output. *)
EXTENDS Output

Base == [build |-> "module", gen |-> 4, args |-> "none", unsafe |-> FALSE,
         files |-> {}, resolves |-> {}, binds |-> {},
         conduct |-> [w \in Way |-> "any"]]

\* Of the ways a platform offers, one at a time does better than whatever it likes.
AnyOf(p) ==
    {p} \cup {[p EXCEPT !.conduct[good] = c] :
                 good \in IF p.build = "host" THEN {Host}
                          ELSE (p.resolves \cup p.binds) \cap Writers, c \in Conduct}

Hosts == AnyOf([Base EXCEPT !.build = "host"])

\* A payload resolves through its arguments, with a table or without; with the table that
\* the entry point dumped, its raw imports are not for use.
Payloads ==
    UNION {AnyOf([Base EXCEPT !.build = "payload", !.args = "plain", !.resolves = r]) :
              r \in SUBSET Resolved}
    \cup UNION {AnyOf([Base EXCEPT !.build = "payload", !.args = "table", !.resolves = r]) :
                   r \in {{"s_fn_debug_out"}, Resolved}}
    \cup UNION {AnyOf([Base EXCEPT !.build = "payload", !.args = a, !.unsafe = TRUE,
                                   !.binds = Imports]) : a \in {"plain", "dumped"}}

\* A title resolves by name; its raw imports look callable too.
Titles == UNION {AnyOf([Base EXCEPT !.build = b, !.resolves = r,
                                    !.binds = {"sceKernelDebugOutText", "puts"}]) :
                     b \in {"module", "eboot"}, r \in SUBSET Resolved}

\* Where libkernel is named unsafe, a module has its raw imports and nothing else, one or
\* all of them; an eboot has not even those.
Raws == UNION {AnyOf([Base EXCEPT !.unsafe = TRUE, !.binds = i]) :
                  i \in {{i} : i \in Imports} \cup {{}, Imports}}
        \cup {[Base EXCEPT !.build = "eboot", !.unsafe = TRUE, !.binds = Imports]}

\* The newer generation, where the gadget may come late and do well, as may what it then
\* stands in front of.
Lates == {[Base EXCEPT !.gen = 5, !.build = b, !.resolves = r, !.unsafe = u,
                       !.binds = {"sceKernelWrite", "puts"},
                       !.conduct["syscall_gadget"] = c, !.conduct["sceKernelWrite"] = c,
                       !.conduct["s_fn_write"] = c] :
             b \in {"module", "eboot"}, r \in {{}, {"s_fn_write"}}, u \in BOOLEAN,
             c \in Conduct}

\* One, the other or both of the files, under each kind of channel.
Files == {[p EXCEPT !.files = f, !.conduct["s_fn_write"] = c, !.conduct[Host] = c] :
             p \in {[Base EXCEPT !.build = "host"],
                    [Base EXCEPT !.resolves = {"s_fn_write"}, !.binds = {"puts"}]},
             f \in SUBSET Sink \ {{}}, c \in {"short", "any"}}

All == Hosts \cup Payloads \cup Titles \cup Raws \cup Lates \cup Files
=============================================================================
