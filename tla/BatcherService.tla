--------------------------- MODULE BatcherService ---------------------------
(***************************************************************************)
(* The life of the batcher process (crates/batcher/service/src/service.rs):*)
(* setup spawns background tasks between steps that may fail, and run      *)
(* joins the driver with a watch over those tasks in one task, cancelling  *)
(* everything when either ends.  The background tasks run on other threads:*)
(* they move between any two looks the joined task takes, also between two *)
(* branches of one select.                                                 *)
(***************************************************************************)
EXTENDS Naturals, Sequences

CONSTANT MaxFaults \* background tasks that panic or fail in a run

ASSUME ServiceAssumption == MaxFaults \in Nat

\* The background tasks, in the order setup spawns them: the leader tracker, the
\* balance relay, the parity monitor, a throttle pusher per sequencer (two stand for
\* any number) and the status poller, the only one every batcher has.
Stages == <<"leader", "balance", "parity", "pusher", "pusher2", "poller">>

Tasks == {Stages[i] : i \in 1 .. Len(Stages)}

\* The tasks that also end when the driver drops its side of their channel.
Attached == {"pusher", "pusher2", "poller"}

VARIABLES
    phase,      \* "setup", "failed", "running" or "returned"
    configured, \* the tasks this batcher has
    stage,      \* the stage setup is at
    task,       \* task[t]: "none", "running", "ended" or "failed"
    cancelled,  \* the runtime's token
    signalled,  \* whether somebody outside cancelled it
    driver,     \* where the driver is; "none" before and after its life in a failed setup
    drain_error,\* whether the flush or the last work of its shutdown failed
    main,       \* "poll", or "cancel" between the driver's return and cancellation.cancel()
    watch,      \* "watching", "looked", "reaping" or "done"
    background, \* background_result: "none", "ok" or "error"
    result,     \* what run returns: "none", "ok", "driver" or "background"
    faults

service == <<phase, configured, stage>>
supervision == <<main, watch, background, result>>
vars == <<service, task, cancelled, signalled, driver, drain_error, supervision, faults>>

DriverReturned == driver \in {"drained", "failed", "closed"}

\* The receivers the driver owned are gone.
DriverDropped == DriverReturned \/ phase = "failed"

Init ==
    /\ phase = "setup" /\ stage = 1
    /\ configured \in {c \in SUBSET Tasks : "poller" \in c /\ ("pusher2" \in c => "pusher" \in c)}
    /\ task = [t \in Tasks |-> "none"]
    /\ cancelled = FALSE /\ signalled = FALSE
    /\ driver = "none" /\ drain_error = FALSE
    /\ main = "poll" /\ watch = "watching" /\ background = "none" /\ result = "none"
    /\ faults = 0

\* The operator stops the process.
Signal ==
    /\ ~signalled /\ signalled' = TRUE /\ cancelled' = TRUE
    /\ UNCHANGED <<service, task, driver, drain_error, supervision, faults>>

-----------------------------------------------------------------------------
(* setup *)

\* One stage further: its requests succeed and its task, if there is one, is spawned.
SetupStep ==
    /\ phase = "setup" /\ stage <= Len(Stages)
    /\ task' = IF Stages[stage] \in configured
               THEN [task EXCEPT ![Stages[stage]] = "running"] ELSE task
    /\ stage' = stage + 1
    /\ UNCHANGED <<phase, configured, cancelled, signalled, driver, drain_error, supervision, faults>>

(* Mutant: the error is returned and the tasks spawned so far stay. *)
SetupLeaves ==
    /\ phase = "setup"
    /\ phase' = "failed"
    /\ UNCHANGED <<configured, stage, task, cancelled, signalled, driver, drain_error, supervision,
                   faults>>

\* A check, a request or the admin server's bind fails: the drop guard cancels.
SetupFails ==
    /\ phase = "setup"
    /\ phase' = "failed" /\ cancelled' = TRUE
    /\ UNCHANGED <<configured, stage, task, signalled, driver, drain_error, supervision, faults>>

SetupDone ==
    /\ phase = "setup" /\ stage > Len(Stages)
    /\ phase' = "running" /\ driver' = "loop"
    /\ UNCHANGED <<configured, stage, task, cancelled, signalled, drain_error, supervision, faults>>

-----------------------------------------------------------------------------
(* The background tasks. *)

TaskStops(t) ==
    /\ task[t] = "running" /\ (cancelled \/ (t \in Attached /\ DriverDropped))
    /\ task' = [task EXCEPT ![t] = "ended"]
    /\ UNCHANGED <<service, cancelled, signalled, driver, drain_error, supervision, faults>>

\* A panic, or a throttle pusher whose block builder does not serve its method.
TaskFails(t) ==
    /\ task[t] = "running" /\ faults < MaxFaults /\ faults' = faults + 1
    /\ task' = [task EXCEPT ![t] = "failed"]
    /\ UNCHANGED <<service, cancelled, signalled, driver, drain_error, supervision>>

-----------------------------------------------------------------------------
(* The driver, as the first branch of the join. *)

Gone(t) == task[t] \in {"ended", "failed"}

Joined == phase = "running" /\ main = "poll" /\ watch # "looked"

\* The first branch of its select.
DriverLooks ==
    /\ Joined /\ driver = "loop"
    /\ driver' = IF cancelled THEN "draining" ELSE "looked"
    /\ UNCHANGED <<service, task, cancelled, signalled, drain_error, supervision, faults>>

\* The later branches: a closed status channel is an error, anything else is work.
DriverReceives ==
    /\ driver = "looked"
    /\ IF Gone("poller")
       THEN driver' = "closed" /\ main' = "cancel"
       ELSE driver' = "loop" /\ UNCHANGED main
    /\ UNCHANGED <<service, task, cancelled, signalled, drain_error, watch, background, result,
                   faults>>

\* The work phase fails for good.
DriverFails ==
    /\ Joined /\ driver = "loop"
    /\ driver' = "failed" /\ main' = "cancel"
    /\ UNCHANGED <<service, task, cancelled, signalled, drain_error, watch, background, result,
                   faults>>

\* shutdown: the drain runs to its end, and an error of the flush is reported after it.
DriverDrains ==
    /\ Joined /\ driver = "draining"
    /\ driver' = "drained" /\ drain_error' \in BOOLEAN /\ main' = "cancel"
    /\ UNCHANGED <<service, task, cancelled, signalled, watch, background, result, faults>>

\* cancellation.cancel() in the poll in which the driver returned.
DriverCancels ==
    /\ phase = "running" /\ main = "cancel"
    /\ main' = "poll" /\ cancelled' = TRUE
    /\ UNCHANGED <<service, task, signalled, driver, drain_error, watch, background, result, faults>>

-----------------------------------------------------------------------------
(* The watch, the second branch of the join. *)

Polled == phase = "running" /\ main = "poll" /\ driver # "looked"

(* Mutant: the select over the tasks is not biased towards the cancellation. *)
WatchLooksUnbiased ==
    /\ Polled /\ watch = "watching"
    /\ \/ /\ cancelled
          /\ watch' = "reaping" /\ background' = "ok"
       \/ watch' = "looked" /\ UNCHANGED background
    /\ UNCHANGED <<service, task, cancelled, signalled, driver, drain_error, main, result, faults>>

\* The first branch of its select.
WatchLooks ==
    /\ Polled /\ watch = "watching"
    /\ IF cancelled
       THEN watch' = "reaping" /\ background' = "ok"
       ELSE watch' = "looked" /\ UNCHANGED background
    /\ UNCHANGED <<service, task, cancelled, signalled, driver, drain_error, main, result, faults>>

(* Mutant: a task that ended is reported and the rest goes on. *)
WatchReports ==
    /\ watch = "looked"
    /\ IF \E t \in Tasks : Gone(t)
       THEN watch' = "reaping" /\ background' = "error"
       ELSE watch' = "watching" /\ UNCHANGED background
    /\ UNCHANGED <<service, task, cancelled, signalled, driver, drain_error, main, result, faults>>

\* The second branch: the first task that has ended is an error and cancels everything.
WatchTasks ==
    /\ watch = "looked"
    /\ IF \E t \in Tasks : Gone(t)
       THEN watch' = "reaping" /\ background' = "error" /\ cancelled' = TRUE
       ELSE watch' = "watching" /\ UNCHANGED <<background, cancelled>>
    /\ UNCHANGED <<service, task, signalled, driver, drain_error, main, result, faults>>

(* Mutant: the tasks left are dropped, not awaited. *)
WatchLeaves ==
    /\ Polled /\ watch = "reaping"
    /\ watch' = "done"
    /\ UNCHANGED <<service, task, cancelled, signalled, driver, drain_error, main, background, result,
                   faults>>

\* The tasks left are awaited.
WatchReaps ==
    /\ Polled /\ watch = "reaping" /\ \A t \in Tasks : task[t] # "running"
    /\ watch' = "done"
    /\ UNCHANGED <<service, task, cancelled, signalled, driver, drain_error, main, background, result,
                   faults>>

DriverError == driver \in {"failed", "closed"} \/ drain_error

\* The join is complete; the driver's error takes precedence.
Returns ==
    /\ Polled /\ DriverReturned /\ watch = "done"
    /\ phase' = "returned"
    /\ result' = IF DriverError THEN "driver" ELSE IF background = "error" THEN "background" ELSE "ok"
    /\ UNCHANGED <<configured, stage, task, cancelled, signalled, driver, drain_error, main, watch,
                   background, faults>>

Driver == DriverLooks \/ DriverReceives \/ DriverDrains \/ DriverCancels

Watch == WatchLooks \/ WatchTasks \/ WatchReaps

Next ==
    \/ Signal \/ SetupStep \/ SetupFails \/ SetupDone
    \/ \E t \in Tasks : TaskStops(t) \/ TaskFails(t)
    \/ Driver \/ DriverFails \/ Watch \/ Returns

\* Cancelled tasks are scheduled, and the join polls both of its branches: whenever one
\* is woken both are polled. Setup itself may take for ever.
Spec ==
    /\ Init /\ [][Next]_vars
    /\ SF_vars(Driver) /\ SF_vars(Watch) /\ WF_vars(Returns)
    /\ \A t \in Tasks : WF_vars(TaskStops(t))

-----------------------------------------------------------------------------
(* Properties. *)

\* The types of the variables.
TypeOK ==
    /\ phase \in {"setup", "failed", "running", "returned"}
    /\ configured \subseteq Tasks /\ stage \in 1 .. Len(Stages) + 1
    /\ task \in [Tasks -> {"none", "running", "ended", "failed"}]
    /\ {cancelled, signalled, drain_error} \subseteq BOOLEAN
    /\ driver \in {"none", "loop", "looked", "draining", "drained", "failed", "closed"}
    /\ (driver = "none") <=> (phase \in {"setup", "failed"})
    /\ main \in {"poll", "cancel"} /\ watch \in {"watching", "looked", "reaping", "done"}
    /\ background \in {"none", "ok", "error"} /\ result \in {"none", "ok", "driver", "background"}

\* An error is reported for a background task only if one failed by itself, or if the
\* operator's stop came between the watch's two looks. The end of the driver, which makes
\* the poller and the pushers exit on their own, is never taken for their failure.
AlarmJustified ==
    background = "error" => signalled \/ \E t \in Tasks : task[t] = "failed"

\* run returns when nothing it started is running any more, and then says "ok" only if the
\* driver drained without an error and no task failed while it was watched.
CleanReturn ==
    phase = "returned" =>
      /\ \A t \in Tasks : task[t] # "running"
      /\ result = "ok" => driver = "drained" /\ cancelled /\ background = "ok"

\* A setup that fails leaves no task behind, whatever it had spawned by then.
NoOrphans == [](phase = "failed" => <>(\A t \in Tasks : task[t] # "running"))

\* Once something has ended, or the operator stops the process, run returns.
RunReturns ==
    [](phase = "running" /\ (cancelled \/ DriverReturned \/ \E t \in Tasks : Gone(t))
       => <>(phase = "returned"))
=============================================================================
