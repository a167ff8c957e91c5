-------------------------- MODULE MCPriorityThreads --------------------------
(***************************************************************************)
(* The workload that PriorityThreads is checked on, after the input files   *)
(* kept beside main.c. Loops that stand side by side are one loop.          *)
(***************************************************************************)
EXTENDS PriorityThreads, WorkloadFile

\* As in priority_inversion.txt, the first and the last thread share mutex 1, and
\* the one in between, with a mutex of its own, keeps the processor busy. As in
\* aperiod_trigger.txt, two threads wait for one click; the last one locks mutex 1
\* inside another mutex, as threads of input.txt do.
Lines ==
    <<<<Word("", 3), Word("", 30000)>>,
      <<Word("A", 0), Word("", 50), Word("", 1), Word("L", 1), Word("U", 1)>>,
      <<Word("P", 0), Word("", 25), Word("", 3000), Word("L", 2), Word("", 1), Word("U", 2)>>,
      <<Word("A", 0), Word("", 10), Word("", 1),
        Word("L", 3), Word("L", 1), Word("U", 1), Word("U", 3)>>>>

Program == ParseFile(Lines)

WorkloadNumThreads == Program.numThreads
WorkloadPeriodic == {t \in 1 .. 3 : Program.threads[t].thread_type = "PERIODIC"}
WorkloadPriority == [t \in 1 .. 3 |-> Program.threads[t].priority]
WorkloadEvent == [t \in 1 .. 3 |-> Program.threads[t].event]
WorkloadOperations == [t \in 1 .. 3 |-> Program.threads[t].operations]

\* Nobody waits for the left button here; it may be down when the other is
\* released.
WorkloadPackets == {{}, {"RIGHT"}, {"LEFT", "RIGHT"}}
=============================================================================
