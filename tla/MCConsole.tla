------------------------------ MODULE MCConsole ------------------------------
(***************************************************************************)
(* An instance of Console for TLC.                                         *)
(***************************************************************************)
EXTENDS Console

\* Zero, an inner zero, and the largest number, which has all places.
MCNumbers == {0, 205, 2147483647}

\* blink.c prints with %d and %x; a padding that is longer than the number and
\* one base more.
MCConversions == {<<"d", 1>>, <<"x", 4>>, <<"o", 1>>}
=============================================================================
