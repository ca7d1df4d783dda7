---------------------------- MODULE MCDiskMonitor ----------------------------
EXTENDS DiskMonitor

Var(v, x) == [kind |-> "var", var |-> v, value |-> x]
MCValue == {"y/"}
MCTrimmed == [v \in {"x", "y/", "y"} |-> IF v = "y/" THEN "y" ELSE v]
\* the second variable is the end of a long line, the third is one too many
MCConfigLines ==
  {<<[kind |-> "comment"], Var("a", "x"), [kind |-> "bad"],
     [kind |-> "long", tail |-> Var("b", "x")], Var("c", "x")>>}
=============================================================================
