---------------------------- MODULE MCAgentTasks ----------------------------
(* Small instances of AgentTasks for TLC. *)
EXTENDS AgentTasks

CONSTANTS w1, w2, c1

Sub(task, key, body, parent, due, priority, max, valid) ==
    [task |-> task, key |-> key, body |-> body, parent |-> parent, due |-> due,
     priority |-> priority, maxAttempts |-> max, valid |-> valid]

\* One task, three attempts, and a repetition of it under another task_id.
OneTask == {Sub(1, "a", "x", None, 0, 50, 3, TRUE),
            Sub(2, "a", "x", None, 0, 50, 3, TRUE)}

\* Two tasks; the second is a child of the first, due later, more urgent, and
\* only a client can take its payload.
MixedTasks == {Sub(1, "a", "x", None, 0, 50, 2, TRUE),
               Sub(2, "b", "x", 1, 1, 60, 1, FALSE)}

\* Every process runs under the worker_id of the shared configuration.
SharedId == [p \in Procs |-> "worker"]
=============================================================================
