---------------------------- MODULE TaskScheduler ----------------------------
(****************************************************************************)
(* The task list of a network task, as the sources use it: its code is in   *)
(* the tools_c submodule, outside this repository.  Time is counted in keep *)
(* alive periods.  A task is known by its position in the list, which is    *)
(* what a ScheduledTask pointer stands for; 0 is the NULL pointer.          *)
(****************************************************************************)

EXTENDS Naturals, Sequences

\* A task waits for its delay before each of its repetitions; wait and left are
\* what remains of both, and params what its callback is called with.
createScheduledTask(callback, delay, repetitions, params) ==
    [callback |-> callback, params |-> params,
     delay |-> delay, repetitions |-> repetitions,
     wait |-> delay, left |-> repetitions]

\* scheduleTask returns the new last position.
scheduleTask(tasks, task) == Append(tasks, task)

\* The task starts again from its first repetition, also when it is over.
resetTask(tasks, i) ==
    [tasks EXCEPT ![i] = [@ EXCEPT !.wait = tasks[i].delay, !.left = tasks[i].repetitions]]

disableTask(tasks, i) == [tasks EXCEPT ![i] = [@ EXCEPT !.wait = 0, !.left = 0]]

Armed(task) == task.left > 0

Due(task) == task.left > 0 /\ task.wait = 0

NoneDue(tasks) == \A i \in DOMAIN tasks : ~Due(tasks[i])

\* What launching a due task does to its record, before its callback runs.
Launched(tasks, i) ==
    [tasks EXCEPT ![i] = [@ EXCEPT !.wait = tasks[i].delay, !.left = tasks[i].left - 1]]

\* One period passes.
Elapsed(tasks) ==
    [i \in DOMAIN tasks |->
        IF Armed(tasks[i]) /\ tasks[i].wait > 0
        THEN [tasks[i] EXCEPT !.wait = @ - 1]
        ELSE tasks[i]]

=============================================================================
