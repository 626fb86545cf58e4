---------------------------- MODULE MCCopyMode ----------------------------
(***************************************************************************)
(* Screens for TLC: a few that a short run of a program leaves.            *)
(***************************************************************************)
EXTENDS CopyMode

Row(c, wrapped) == [c |-> c, wr |-> wrapped, u |-> \E i \in DOMAIN c : c[i] \in {"W", "P"}]

At(x, y, rows, lines) ==
    [NewScreen(3, lines, 2) EXCEPT !.ln = rows, !.hs = Len(rows) - lines, !.cx = x, !.cy = y]

\* Text with history, a line wrapped and one empty; and lines of wide characters
\* with the cursor at a pending wrap below a region.
Text == At(1, 2, <<Row(<<"a", "-", "a">>, FALSE), Row(<<"a", "a", "a">>, TRUE),
                   Row(<<"a">>, FALSE), Row(<<>>, FALSE), Row(<<"a">>, FALSE)>>, 4)
Wide == [At(3, 3, <<Row(<<"W", "P">>, FALSE), Row(<<"a", "W", "P">>, TRUE),
                    Row(<<>>, FALSE), Row(<<"W", "P", "a">>, FALSE)>>, 4)
             EXCEPT !.lo = 2, !.tabs = {1}]

Scenes == {Text, Wide}

=============================================================================
