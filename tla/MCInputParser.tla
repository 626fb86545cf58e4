-------------------------- MODULE MCInputParser --------------------------
(***************************************************************************)
(* Bytes for TLC: one or two of each class of the tables, and the bursts   *)
(* that only mean something together.                                      *)
(***************************************************************************)
EXTENDS InputParser

Single == {\h07, \h0a, \h18, \h1b, \h32, \h3a, \h3b, \h3f, \h5b, \h5c, \h68, \h6b, \h6d, \hbf, \he0}

\* 1049; ESC and what begins a string, resets, saves, restores or sets the characters;
\* sequences that end in a byte that is not sent alone.
Together == {<<\h31, \h30, \h34, \h39>>, <<\h1b, \h50>>, <<\h1b, \h5d>>, <<\h1b, \h5f>>,
             <<\h1b, \h63>>, <<\h1b, \h37>>, <<\h1b, \h38>>, <<\h1b, \h28, \h30>>, <<\h1b, \h23, \h38>>,
             <<\h1b, \h58>>, <<\h1b, \h5b, \h3b, \h34, \h48>>, <<\h1b, \h5b, \h4a>>,
             <<\h1b, \h5b, \h34, \h43>>, <<\h1b, \h5b, \h3f, \h31, \h30, \h34, \h39, \h6c>>,
             <<\h1b, \h5b, \h3b, \h34, \h72>>, <<\h1b, \h5b, \h36, \h6e>>, <<\h1b, \h5b, \h34, \h68>>}
Stream == {<<ch>> : ch \in Single} \cup Together

Small == {NewScreen(2, 2, 1)}
Prefix == <<\h6b>>

\* The numbers that at most four of the digits 2 or a burst can write.
Typed == {2, 22, 222, 3, 4, 6, 1049}

=============================================================================
