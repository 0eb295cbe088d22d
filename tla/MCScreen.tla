------------------------------ MODULE MCScreen ------------------------------
(* Instances of Screen for TLC. *)
EXTENDS Screen

Make(gen, backend, pairs, closes, counts, refuses) ==
    [gen |-> gen, backend |-> backend, pairs |-> pairs, closes |-> closes,
     counts |-> counts, refuses |-> refuses]

\* Every conduct of the count with the older pair; and with one count a platform that
\* cannot close an output, one with both pairs, the library's display of either kind and
\* one with nothing: each refusing nothing ever, or anything at any time.
Moods == {{}, Refusable}
Every == {Make(4, "absent", {"previous"}, TRUE, c, r) :
            c \in {"moves", "late", "still", "silent"}, r \in Moods}
         \cup {Make(4, "absent", {"previous"}, FALSE, "moves", r) : r \in Moods}
         \cup {Make(5, "absent", {"previous", "current"}, TRUE, "moves", r) : r \in Moods}
         \cup {Make(5, b, {"previous"}, TRUE, "silent", r) :
                  b \in {"waits", "queues"}, r \in Moods}
         \cup {Make(4, "absent", {}, TRUE, "moves", {})}

\* The pairs the newer entry points bring, on a platform that refuses nothing.
Newer == {Make(5, "absent", {"previous", "current"}, TRUE, "moves", {})}

TwoSections == <<1, 2>>

Presses == {{}, {"forward"}, {"backward"}, {"triangle"}, {"circle"}}
=============================================================================
