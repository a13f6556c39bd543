--------------------------- MODULE MCRecorderSession ---------------------------
(* Values for model checking the recorder with its debug bridge.            *)
EXTENDS RecorderDebug, TLC
\* The second and the third input are duplicates, the first is another.
PairTwins == {2, 3} \X {2, 3}
PollSymmetry == Permutations(Polls)
=============================================================================
