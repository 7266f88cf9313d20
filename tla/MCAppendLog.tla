---------------------------- MODULE MCAppendLog ----------------------------
(***************************************************************************)
(* Two commands for TLC; the openers are interchangeable.                  *)
(***************************************************************************)
EXTENDS AppendLog

MCByte == STRING

Words(words) == [i \in DOMAIN words |-> <<words[i]>>]

MCRecords == {Words(<<"S", "k", "v">>), Words(<<"D", "k">>)}

Symmetry == Permutations(Openers)
=============================================================================
