------------------------------- MODULE Cursors -------------------------------
(***************************************************************************)
(* Places in a sequence that is read from left to right: a cursor holds    *)
(* the place, the value read last, and whether everything so far could be  *)
(* read; an exception ends the reading.                                    *)
(***************************************************************************)
EXTENDS Integers, FiniteSetsExt, SequencesExt

Start == [at |-> 1, value |-> 0, ok |-> TRUE]
Throw(c) == [c EXCEPT !.ok = FALSE]
Returns(c, x) == [c EXCEPT !.value = x]
If(condition, c) == IF c.ok /\ ~condition THEN Throw(c) ELSE c

\* What is read next, from the cursor that the first reading leaves.
Then(c, Next(_)) == IF c.ok THEN Next(c) ELSE c

\* The value, put into a field of the value of the cursor before.
Into(x, before, field) ==
    IF x.ok THEN Returns(x, [before.value EXCEPT ![field] = x.value]) ELSE x

\* A sequence of values, each read by Read for an element of s; and n values.
Each(c, s, Read(_, _)) ==
    IF ~c.ok THEN c
    ELSE FoldLeft(LAMBDA before, x :
                     LET read == Read(before, x)
                     IN  IF read.ok THEN Returns(read, Append(before.value, read.value)) ELSE read,
                  Returns(c, <<>>), s)
Times(c, n, Read(_)) == Each(c, [i \in 1..n |-> i], LAMBDA before, i : Read(before))
=============================================================================
