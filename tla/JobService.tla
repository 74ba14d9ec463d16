----------------------------- MODULE JobService -----------------------------
(***************************************************************************)
(* What the worker pool of runtime/src/thread_pool.c promises to the code   *)
(* that submits a job: jobs start in the order of submission, at most       *)
(* Parallelism of them run at a time, results reach the main thread in the  *)
(* order in which they were produced, every callback is delivered exactly   *)
(* once, and callbacks nest like calls.  Only a pool that was shut down and *)
(* has nothing running may abandon jobs.                                    *)
(***************************************************************************)
EXTENDS Naturals, Sequences, FiniteSets

CONSTANTS Jobs,         \* the jobs a program may submit
          Parallelism   \* how many jobs may run at a time

VARIABLES queue,        \* submitted, not started
          running,      \* taken by a worker
          finished,     \* results waiting for the main thread
          delivering,   \* callbacks in progress on the main thread, outermost first
          delivered,    \* callbacks that returned
          abandoned     \* jobs dropped when the pool was started again

jobVars == <<queue, running, finished, delivering, delivered, abandoned>>

Contents(s) == {s[i] : i \in 1..Len(s)}

Known == Contents(queue) \cup running \cup Contents(finished)
           \cup Contents(delivering) \cup delivered \cup abandoned

JInit ==
  /\ queue = <<>>
  /\ running = {}
  /\ finished = <<>>
  /\ delivering = <<>>
  /\ delivered = {}
  /\ abandoned = {}

Submit(j) ==
  /\ j \notin Known
  /\ queue' = Append(queue, j)
  /\ UNCHANGED <<running, finished, delivering, delivered, abandoned>>

Start ==
  /\ queue # <<>>
  /\ Cardinality(running) < Parallelism
  /\ Head(queue) \notin running
  /\ running' = running \cup {Head(queue)}
  /\ queue' = Tail(queue)
  /\ UNCHANGED <<finished, delivering, delivered, abandoned>>

Finish(j) ==
  /\ j \in running
  /\ running' = running \ {j}
  /\ finished' = Append(finished, j)
  /\ UNCHANGED <<queue, delivering, delivered, abandoned>>

Deliver ==
  /\ finished # <<>>
  /\ delivering' = Append(delivering, Head(finished))
  /\ finished' = Tail(finished)
  /\ UNCHANGED <<queue, running, delivered, abandoned>>

Return ==
  /\ delivering # <<>>
  /\ delivered' = delivered \cup {delivering[Len(delivering)]}
  /\ delivering' = SubSeq(delivering, 1, Len(delivering) - 1)
  /\ UNCHANGED <<queue, running, finished, abandoned>>

Abandon ==
  /\ queue # <<>>
  /\ running = {}
  /\ finished = <<>>
  /\ abandoned' = abandoned \cup Contents(queue)
  /\ queue' = <<>>
  /\ UNCHANGED <<running, finished, delivering, delivered>>

JNext ==
  \/ \E j \in Jobs : Submit(j) \/ Finish(j)
  \/ Start
  \/ Deliver
  \/ Return
  \/ Abandon

JSpec == JInit /\ [][JNext]_jobVars
=============================================================================
