------------------------------ MODULE MCPlmnNa ------------------------------
(* PlmnNa with three PLMNs, one of them the home PLMN. *)
EXTENDS PlmnNa

CONSTANTS A, B, H

MCPlmns == {A, B, H}

\* EF_FPLMN contents of the inserted card: empty, one real PLMN, and full.
MCCardInit ==
  { [i \in 1 .. 4 |-> FF],
    [i \in 1 .. 4 |-> IF i = 1 THEN A ELSE FF],
    [i \in 1 .. 4 |-> IF i = 1 THEN A ELSE IF i = 2 THEN B ELSE PlmnZero] }

\* EF_PLMNsel contents: a list ended by the sentinel, and a full file of
\* two triplets that the loop leaves by its length test.
MCSelCardInit ==
  { <<B, FF, A>>, <<H, B>> }
=============================================================================
