---------------------------- MODULE MCOperations ----------------------------
(***************************************************************************)
(* Values for the constants of Operations.                                 *)
(***************************************************************************)
EXTENDS OperationsMandate, TLC

CONSTANTS a, b, c, d, w1, w2

Terms(to, amount) == [token |-> "xlm", amount |-> amount, to |-> to]

TopUps    == {<<Terms(w1, 2)>>, <<Terms(w1, 2), Terms(w2, 1)>>, <<Terms(w1, 2), Terms(w1, 2)>>,
              <<Terms(w1, 0)>>, <<>>}
NewOwners == {<<a, b, c, d>>, <<d>>, <<a, a>>}
NoChoice  == {}

=============================================================================
