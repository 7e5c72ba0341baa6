-------------------------- MODULE MCUvEventLoop --------------------------
(***************************************************************************)
(* Small instances of UvEventLoop for TLC.                                 *)
(***************************************************************************)
EXTENDS UvEventLoop, TLC

CONSTANTS p1, p2, w1, w2

OneProducer  == {p1}
TwoProducers == {p1, p2}
Nobody       == {}
OneWork      == {w1}
TwoWorks     == {w1, w2}

\* Nothing tells two work items apart.
WorkSymmetry == Permutations({w1, w2})
=============================================================================
