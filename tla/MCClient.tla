------------------------------ MODULE MCClient ------------------------------
(* Command lines of glakv_client for TLC.                                  *)
EXTENDS Client

Flag(o) == [opt |-> o, whole |-> 0, positive |-> FALSE]
Arg(o, n) == [opt |-> o, whole |-> n, positive |-> n > 0]
Fraction == [opt |-> "m", whole |-> 0, positive |-> TRUE]   \* 0.15

(* A load of a size that 5 does not divide, loads before a run, a run of   *)
(* keys whose sums exceed Word, one that wants more threads, an empty      *)
(* database, a wrong line.                                                 *)
BenchmarkArgs ==
  { <<Flag("l"), Arg("s", 9), Flag("e"), Arg("c", 1), Arg("n", 2)>>,
    <<Flag("l"), Arg("s", 11), Flag("e"), Arg("c", 1), Fraction, Arg("n", 2)>>,
    <<Flag("l"), Arg("s", 6), Flag("e"), Arg("c", 1), Arg("n", 1)>>,
    <<Flag("e"), Arg("s", 3), Fraction, Arg("n", 2)>>,
    <<Flag("e"), Arg("m", 0), Arg("c", 1), Arg("n", 3)>>,
    <<Flag("e"), Arg("s", 0), Arg("c", 1)>>,
    <<Flag("l"), Arg("s", 0)>>,
    <<Flag("l"), Flag("e"), Flag("h")>>,
    <<Arg("s", 5)>> }

OptionArgs == {<<Flag("e"), Arg("n", 2), Fraction>>}
ShutdownArgs == {<<Flag("e"), Arg("n", 2)>>}
=============================================================================
