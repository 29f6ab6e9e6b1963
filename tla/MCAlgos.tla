------------------------------ MODULE MCAlgos -------------------------------
(***************************************************************************)
(* An instance of the execution schedules for model checking: wide, narrow *)
(* and one-sided books, a market that trades and one that does not.        *)
(***************************************************************************)
EXTENDS ExecutionAlgos

Book(bid, ask, mid, volume) == [bid |-> bid, ask |-> ask, mid |-> mid, volume |-> volume]

Markets == {Book(100, 103, 101, 0), Book(100, 102, 101, 4), Book(100, 101, 100, 0), Book(0, 102, 0, 50), Book(0, 0, 101, 10), Book(100, 0, 0, 0)}

Profiles == {<<2, 0, 3, 1>>, <<0, 1, 1, 1>>}

FrontLoaded == {<<6, 3, 2, 1>>}

=============================================================================
