---------------------------- MODULE CallableQueue ----------------------------
(* CallableQueue as a value: what is queued, whether its eventfd is readable  *)
(* and whether it still takes work.  `execute` takes everything at once and   *)
(* runs it outside the mutex; the batch belongs to whoever runs it.           *)
EXTENDS Sequences

NewQueue == [tasks |-> <<>>, readable |-> FALSE, closed |-> FALSE]

EnqueueThoughClosed(queue, task) ==   \* Mutant: does not look at `closed`
  [queue EXCEPT !.tasks = Append(@, task), !.readable = TRUE]

Enqueue(queue, task) ==
  IF queue.closed THEN queue
  ELSE [queue EXCEPT !.tasks = Append(@, task), !.readable = TRUE]

(* The final task is optional: `final` is a sequence of one task or of none.  *)
Close(queue, final) ==
  IF queue.closed THEN queue
  ELSE [tasks |-> queue.tasks \o final, readable |-> TRUE, closed |-> TRUE]

(* What `execute` leaves behind once it has moved `callables` to a batch.     *)
Taken(queue) == [queue EXCEPT !.tasks = <<>>, !.readable = FALSE]
=============================================================================
