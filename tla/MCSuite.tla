------------------------------ MODULE MCSuite ------------------------------
(* Instances of Suite. *)
EXTENDS Diff

\* A table from its sections and what its checks require and provide; a check that is
\* named in neither requires and provides nothing.
Entry(f, id) == IF id \in DOMAIN f THEN f[id] ELSE {}
Made(sections, needs, gives) ==
    LET ids == UNION {ToSet(sections[i]) : i \in DOMAIN sections}
    IN  [sections |-> sections,
         requires |-> [id \in ids |-> Entry(needs, id)],
         provides |-> [id \in ids |-> Entry(gives, id)]]

\* A grant in an earlier section, and one that is itself behind another.
Ordered == Made(<<<<"write">>, <<"map", "open">>, <<"read">>>>,
                [open |-> {"memory"}, read |-> {"memory", "file"}],
                [write |-> {"output"}, map |-> {"memory"}, open |-> {"file"}])
\* 018-relational as caps.rs tells it: the grant comes sections later.
Late    == Made(<<<<"write", "descriptors">>, <<"open">>>>,
                [descriptors |-> {"file"}], [write |-> {"output"}, open |-> {"file"}])
\* Nothing grants it, and the check it stops is another one's grant.
Missed  == Made(<<<<"video">>, <<"control", "draw">>>>,
                [video |-> {"memory"}, draw |-> {"gpu"}], [video |-> {"gpu"}])
\* Each check grants what the next one needs.
Chain   == Made(<<<<"map">>, <<"open", "read">>>>,
                [open |-> {"memory"}, read |-> {"memory", "file"}],
                [map |-> {"memory"}, open |-> {"file"}])
Tables  == {Ordered, Late, Missed, Chain}
\* The tables that are run twice.
Twice   == {Chain, Late}
=============================================================================
