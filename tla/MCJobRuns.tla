------------------------------ MODULE MCJobRuns ------------------------------
(***************************************************************************)
(* Values for the constants of JobRuns that a .cfg cannot write.           *)
(***************************************************************************)
EXTENDS JobRunsProperties, TLC

CONSTANTS chrome

\* Every job in one group; the last job alone.
OneGroup == [j \in Jobs |-> chrome]
LastAlone == [j \in Jobs |-> IF j = NumJobs THEN NoGroup ELSE chrome]
AllAlone == [j \in Jobs |-> NoGroup]

NoChain == [j \in Jobs |-> << >>]
\* Job 1 starts job 2 when it succeeds, or job NumJobs when it fails.
OneThenTwo == [j \in Jobs |-> IF j = 1 /\ NumJobs > 1 THEN <<2>> ELSE << >>]
OneThenLast == [j \in Jobs |-> IF j = 1 /\ NumJobs > 1 THEN <<NumJobs>> ELSE << >>]

\* Request tasks are interchangeable, and so are executor processes.
ProcessSymmetry == Permutations(Handlers) \cup Permutations(Executors)
=============================================================================
