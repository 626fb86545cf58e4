---------------------------- MODULE MCClientKeys ----------------------------
(* Instances of ClientKeys for TLC. *)
EXTENDS ClientKeys

\* One key repeats, two have commands that change the table or open prompts while
\* they run, one needs no prefix.
Bindings ==
    (<<"Up", TRUE>>  :> [repeat |-> TRUE,  list |-> <<"window">>]) @@
    (<<"x", TRUE>>   :> [repeat |-> FALSE, list |-> <<"bind", "prompt">>]) @@
    (<<"C-b", TRUE>> :> [repeat |-> FALSE, list |-> <<"unbind", "prompts">>]) @@
    (<<"x", FALSE>>  :> [repeat |-> FALSE, list |-> <<"error", "panes">>])

PrefixedX == <<"x", TRUE>>
Yes       == <<"y">>
YesRuns   == <<"message", "confirm">>
Pasted    == <<"confirm">>

\* A client with a status line and vi's keys, and a read-only one without.
Kinds == {<<FALSE, TRUE, TRUE>>, <<TRUE, FALSE, FALSE>>}

-----------------------------------------------------------------------------
(* The editing keys on longer lines than a run has. *)

TypedLines == UNION {[1..n -> Words] : n \in 0..3}
LinesAt(h) ==
    {[EmptyLine(m) EXCEPT !.buf = b, !.idx = i, !.hidx = k] :
        b \in TypedLines, i \in 0..3, k \in 0..2, m \in 0..1}
Histories == {<<>>} \cup {<<<<w>>>> : w \in Words} \cup {<<<<"y">>, <<"y", "y">>>>}

\* Each key leaves the cursor in the line, and tells of a change it makes.
ASSUME EditSound ==
    \A h \in Histories : \A l \in {k \in LinesAt(h) : LineSound(k, h)} :
        \A op \in Edits : LET m == Edit(op, l, h) IN
            /\ LineSound(m, h)
            /\ <<m.buf, m.idx>> # <<l.buf, l.idx>> => m.dirty

\* Keys that undo each other.
ASSUME EditInverse ==
    \A l \in {k \in LinesAt(<<>>) : LineSound(k, <<>>)} :
        /\ Edit("backspace", Inserted(l, <<"y">>), <<>>).buf = l.buf
        /\ l.idx > 0 => Edit("right", Edit("left", l, <<>>), <<>>).idx = l.idx
        /\ l.idx \in 1..Len(l.buf) - 1 =>
              LET t == Edit("transpose", l, <<>>)
              IN  Edit("transpose", Go(t, l.idx), <<>>).buf = l.buf

=============================================================================
