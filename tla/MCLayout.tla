------------------------------ MODULE MCLayout ------------------------------
(***************************************************************************)
(* Layout for TLC.                                                         *)
(***************************************************************************)
EXTENDS Layout, TLC

\* A window that is large enough for three panes however they lie, and one that
\* is too small for most of it.
Sizes == {Size("lr", 7, 5), Size("lr", 4, 5)}

\* Layouts of windows with three panes, wider and narrower ones.
Shown3 == LET ps == [i \in 1..3 |-> NoPane]
          IN  {Main("lr", ps, Size("lr", 9, 7), 4, 0), Tiled(ps, Size("lr", 6, 6))}

Options == {<<3, 0>>}
Half == {-1}
EitherWay == {-1, 2}

Symmetry == Permutations(PaneId)

=============================================================================
