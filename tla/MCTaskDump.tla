----------------------------- MODULE MCTaskDump -----------------------------
EXTENDS TaskDump

\* Every argument vector of at most three tokens: the two options, an
\* unknown option, a task id, task id 0 and a word that is not a number.
MCArgvs == UNION {[1..n -> {"-t", "-c", "-z", "7", "0", "x"}] : n \in 0..3}
=============================================================================
