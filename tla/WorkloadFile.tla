---------------------------- MODULE WorkloadFile ----------------------------
(***************************************************************************)
(* parseFile of assignment 1 (main.c): what a workload file comes to. A line *)
(* is given as its words, a word as the letter it begins with and the number *)
(* in it; the first line is the number of threads and the duration.          *)
(***************************************************************************)
EXTENDS Integers, Sequences

\* A word's first letter, "" for a digit, and the number strtoul finds.
Word(letter, number) == [letter |-> letter, number |-> number]

\* The format has no third letter: the code would leave the type as malloc had it.
ThreadType(word) ==
    CASE word.letter = "P" -> "PERIODIC"
      [] word.letter = "A" -> "APERIODIC"

\* The events of the format; a larger number would index event_cond past its end.
ThreadEvent(number) ==
    CASE number = 0 -> "LEFT"
      [] number = 1 -> "RIGHT"

\* A word that begins with neither letter is the length of a loop, which
\* PriorityThreads does not tell from another.
ToOperation(word) ==
    CASE word.letter = "L" -> [do |-> "lock", mutex |-> word.number]
      [] word.letter = "U" -> [do |-> "unlock", mutex |-> word.number]
      [] OTHER -> [do |-> "loop", mutex |-> 0]

\* The fields that the type of thread does not have are left as they were.
ToThread(line) ==
    [thread_type |-> ThreadType(line[1]),
     priority    |-> line[2].number,
     event       |-> IF ThreadType(line[1]) = "APERIODIC"
                     THEN ThreadEvent(line[3].number) ELSE "LEFT",
     operations  |-> [i \in 1 .. Len(line) - 3 |-> ToOperation(line[i + 3])]]

ParseFile(lines) ==
    [numThreads |-> lines[1][1].number,
     threads    |-> [t \in 1 .. lines[1][1].number |-> ToThread(lines[t + 1])]]
=============================================================================
