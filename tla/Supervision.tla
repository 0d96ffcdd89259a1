---------------------------- MODULE Supervision ----------------------------
(***************************************************************************)
(* core_shared/supervision.py: the task that starts the loops of a         *)
(* service, waits until one of them ends or a shutdown is requested, and   *)
(* stops and joins the others before it ends the service.                  *)
(*                                                                         *)
(* All of it runs in one asyncio event loop.  A task runs from one await   *)
(* to the next; a task that ends only schedules the supervisor, and other  *)
(* callbacks, a signal handler among them, may run before the supervisor   *)
(* looks at what has ended.                                                *)
(***************************************************************************)
EXTENDS Integers, Sequences, FiniteSets, Functions

CONSTANT Loops  \* the supervised loops in the order of the mapping

Names == Range(Loops)

VARIABLES
  task,      \* state of each loop
  cancelled, \* loops that have been told to stop
  shutdown,  \* the event the loops and the supervisor share
  stopped,   \* the task that waits for that event has ended
  phase,     \* where supervise() is
  outcome,   \* how supervise() ends
  early,     \* loops that ended before any shutdown was requested
  failed     \* loops that raised before the supervisor looked

supervision == <<task, cancelled, shutdown, stopped, phase, outcome, early, failed>>

Ended == {"returned", "raised", "cancelled"}

\* The types; and once the supervisor leaves, the event is set and every loop that
\* still runs has been told to stop.
SupervisionTypeOK ==
  /\ task \in [Names -> {"absent", "running"} \cup Ended]
  /\ cancelled \subseteq Names
  /\ shutdown \in BOOLEAN /\ stopped \in BOOLEAN
  /\ phase \in {"start", "wait", "look", "join", "exit"}
  /\ outcome \in {"none", "ok", "error", "cancelled"}
  /\ early \subseteq Names /\ failed \subseteq Names
  /\ phase \in {"start", "wait", "look"} <=> outcome = "none"
  /\ phase \in {"join", "exit"} => shutdown
  /\ phase = "join" => \A n \in Names : task[n] = "running" => n \in cancelled

SupervisionInit ==
  /\ task = [n \in Names |-> "absent"] /\ cancelled = {}
  /\ shutdown = FALSE /\ stopped = FALSE
  /\ phase = "start" /\ outcome = "none"
  /\ early = {} /\ failed = {}

Done == {n \in Names : task[n] \in Ended}

-----------------------------------------------------------------------------
(* supervise() *)

\* The tasks that the finally clause cancels.
Told(tasks) == {n \in Names : tasks[n] # "absent"}

\* The finally clause: the event is set and every loop is told to stop.
LeaveWith(result, tasks) ==
  /\ phase' = "join" /\ outcome' = result
  /\ shutdown' = TRUE /\ cancelled' = Told(tasks)

\* The factories are called without an await between them; the i-th may raise.
StartLoops ==
  /\ phase = "start"
  /\ \/ /\ shutdown
        /\ LeaveWith("ok", task) /\ UNCHANGED task
     \/ /\ ~shutdown /\ task' = [n \in Names |-> "running"]
        /\ phase' = "wait" /\ UNCHANGED <<cancelled, shutdown, outcome>>
     \/ /\ ~shutdown
        /\ \E i \in DOMAIN Loops :
             LET begun == {Loops[j] : j \in 1..(i - 1)} IN
             task' = [n \in Names |-> IF n \in begun THEN "running" ELSE "absent"]
        /\ LeaveWith("error", task')
  /\ UNCHANGED <<stopped, early, failed>>

\* asyncio.wait(FIRST_COMPLETED): its future is resolved by the first task that ends,
\* the supervisor resumes later.
Wake ==
  /\ phase = "wait" /\ (stopped \/ Done # {})
  /\ phase' = "look"
  /\ UNCHANGED <<task, cancelled, shutdown, stopped, outcome, early, failed>>

\* What makes the service fail, of the loops that have ended when the supervisor
\* looks at them.
Faulty(n) == task[n] = "raised" \/ ~shutdown

Look ==
  /\ phase = "look"
  /\ LeaveWith(IF \E n \in Done : Faulty(n) THEN "error" ELSE "ok", task)
  /\ UNCHANGED <<task, stopped, early, failed>>

\* gather(..., return_exceptions=True)
Joined == \A n \in Names : task[n] # "running"

Join ==
  /\ phase = "join" /\ Joined
  /\ phase' = "exit" /\ stopped' = TRUE
  /\ UNCHANGED <<task, cancelled, shutdown, outcome, early, failed>>

\* The supervising task is cancelled: the wait raises, the gather goes on until its
\* children have ended.
ParentCancelled ==
  /\ phase \in {"wait", "look", "join"}
  /\ LeaveWith("cancelled", task)
  /\ UNCHANGED <<task, stopped, early, failed>>

-----------------------------------------------------------------------------
(* The loops and the signal handler. *)

\* A loop ends: by itself, because it has seen the event, or because it was told to.
LoopEnds(n) ==
  /\ task[n] = "running"
  /\ \E how \in Ended :
       /\ task' = [task EXCEPT ![n] = how]
       /\ failed' = IF how = "raised" /\ outcome = "none" THEN failed \cup {n} ELSE failed
  /\ early' = IF shutdown THEN early ELSE early \cup {n}
  /\ UNCHANGED <<cancelled, shutdown, stopped, phase, outcome>>

\* A loop sets the event itself, or a signal does.
Signal ==
  /\ ~shutdown /\ shutdown' = TRUE
  /\ UNCHANGED <<task, cancelled, stopped, phase, outcome, early, failed>>

StoppedEnds ==
  /\ shutdown /\ ~stopped /\ phase \in {"wait", "look"}
  /\ stopped' = TRUE
  /\ UNCHANGED <<task, cancelled, shutdown, phase, outcome, early, failed>>

Supervise == StartLoops \/ Wake \/ Look \/ Join

SupervisionNext ==
  \/ Supervise \/ ParentCancelled
  \/ \E n \in Names : LoopEnds(n)
  \/ Signal \/ StoppedEnds

SupervisionSpec == SupervisionInit /\ [][SupervisionNext]_supervision

\* The event loop runs what is ready, and a loop that has been told to stop ends at
\* its next await; one that runs on need never end by itself.
FairSupervision ==
  /\ SupervisionSpec
  /\ WF_supervision(Supervise) /\ WF_supervision(StoppedEnds)
  /\ \A n \in Names : WF_supervision(n \in cancelled /\ LoopEnds(n))

-----------------------------------------------------------------------------
(* Properties. *)

\* A loop that raised before the supervisor looked at what had ended makes the service
\* fail, even when the shutdown is requested in the same turn.
FailureIsReported == outcome = "ok" => failed = {}

\* The service ends with no loop of its own running.
NothingLeftRunning == phase = "exit" => \A n \in Names : task[n] # "running"

\* The end of any loop, or a signal, ends the service.
EventuallyStops == [](shutdown \/ Done # {} => <>(phase = "exit"))

\* supervise: "a normal return or independent cancellation before shutdown is also a
\* failure".
EarlyStopIsReported == outcome = "ok" => early = {}
=============================================================================
