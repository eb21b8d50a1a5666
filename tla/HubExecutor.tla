---------------------------- MODULE HubExecutor ----------------------------
(***************************************************************************)
(* The control hub's ExecutionManager (executor.py): one _run thread per   *)
(* accepted action, the process it starts, the stop requests of other      *)
(* threads, and the motor stop after the action.                           *)
(*                                                                         *)
(* Left out: the validation and storage of the configuration, what history *)
(* and status records say, the choice of interpreter or shell, a signal    *)
(* that cannot be sent, and shutdown.                                      *)
(***************************************************************************)
EXTENDS HubSerial

CONSTANTS Manual,       \* the slot of execute_direct: -1
          Stoppers,     \* the threads that call request_stop
          Stubborn      \* may a process outlive SIGTERM?

VARIABLES active,       \* the run in self.active
          tracked,      \* self.active["process"] is set
          stopEvent,    \* stop_event of each run
          process,      \* the action's process
          rpc,          \* where each run is
          rslot,        \* its slot
          outcome,      \* the state its result says
          victim,       \* victim[t]: the process request_stop in t will terminate
          quieted       \* history: the motor stop ran since a process was last started

execVars == <<active, tracked, stopEvent, process, rpc, rslot, outcome, victim, quieted>>

RunPCs == {"idle", "announce", "postRunning", "awaitRunning", "launch", "register",
           "check", "wait", "drain", "motorStop", "finish", "history", "report",
           "postFinal", "awaitFinal"}
Outcomes == {"none", "completed", "failed", "stopped", "timeout"}

Running(r) == process[r] \in {"alive", "signalled"}

ExecInit ==
    /\ active = None
    /\ tracked = FALSE
    /\ stopEvent = [r \in Runs |-> FALSE]
    /\ process = [r \in Runs |-> "none"]
    /\ rpc = [r \in Runs |-> "idle"]
    /\ rslot = [r \in Runs |-> Manual]
    /\ outcome = [r \in Runs |-> "none"]
    /\ victim = [t \in Stoppers |-> None]
    /\ quieted = TRUE

RGoto(r, to) == rpc' = [rpc EXCEPT ![r] = to]

\* terminate_process: SIGTERM to the group of a process that still runs.
Terminate(r) ==
    process' = [process EXCEPT ![r] = IF @ = "alive" THEN "signalled" ELSE @]

\* The thread ends, and its locals go with it.
Retire(r) ==
    /\ RGoto(r, "idle")
    /\ stopEvent' = [stopEvent EXCEPT ![r] = FALSE]
    /\ process' = [process EXCEPT ![r] = IF Running(r) THEN @ ELSE "none"]
    /\ rslot' = [rslot EXCEPT ![r] = Manual]
    /\ outcome' = [outcome EXCEPT ![r] = "none"]

-----------------------------------------------------------------------------
(* Accepting and stopping. *)

\* Mutant: nobody looks whether an action is running.
StartUnchecked(r, s) ==
    /\ rpc[r] = "idle" /\ ~Running(r) /\ \A t \in Stoppers : victim[t] # r
    /\ active' = r
    /\ tracked' = FALSE
    /\ rslot' = [rslot EXCEPT ![r] = s]
    /\ RGoto(r, IF s = Manual THEN "launch" ELSE "announce")
    /\ UNCHANGED <<stopEvent, process, outcome, victim, quieted>>

\* execute_slot and execute_direct, from the look at self.active on: the action
\* is accepted and its thread started; a slot of the menu announces it.  (A run's
\* identity is free again when nothing refers to it.)
Start(r, s) ==
    /\ active = None
    /\ rpc[r] = "idle" /\ ~Running(r) /\ \A t \in Stoppers : victim[t] # r
    /\ active' = r
    /\ tracked' = FALSE
    /\ rslot' = [rslot EXCEPT ![r] = s]
    /\ RGoto(r, IF s = Manual THEN "launch" ELSE "announce")
    /\ UNCHANGED <<stopEvent, process, outcome, victim, quieted>>

\* Mutant: the process is terminated, and the run is not told.
RequestStopSilent(t, ok) ==
    /\ victim[t] = None
    /\ IF active # None /\ ok
       THEN victim' = [victim EXCEPT ![t] = IF tracked THEN active ELSE None]
       ELSE UNCHANGED victim
    /\ UNCHANGED <<active, tracked, stopEvent, process, rpc, rslot, outcome, quieted>>

\* request_stop, the lock region: `ok` says whether the slot is the one asked for.
RequestStop(t, ok) ==
    /\ victim[t] = None
    /\ IF active # None /\ ok
       THEN /\ stopEvent' = [stopEvent EXCEPT ![active] = TRUE]
            /\ victim' = [victim EXCEPT ![t] = IF tracked THEN active ELSE None]
       ELSE UNCHANGED <<stopEvent, victim>>
    /\ UNCHANGED <<active, tracked, process, rpc, rslot, outcome, quieted>>

\* ... and, outside the lock, the signal.
StopKill(t) ==
    /\ victim[t] # None
    /\ Terminate(victim[t])
    /\ victim' = [victim EXCEPT ![t] = None]
    /\ UNCHANGED <<active, tracked, stopEvent, rpc, rslot, outcome, quieted, link>>

-----------------------------------------------------------------------------
(* _notify_state: serial.send, whose failure is swallowed. *)

AfterNotify(r) ==
    \/ /\ rpc[r] \in {"announce", "awaitRunning"}
       /\ RGoto(r, "launch")
       /\ UNCHANGED <<stopEvent, process, rslot, outcome>>
    \/ /\ rpc[r] \in {"report", "awaitFinal"}
       /\ Retire(r)

UnchangedButPC == UNCHANGED <<active, tracked, stopEvent, process, rslot, outcome, victim, quieted>>

\* send looks at the connection first ...
NotifyCheck(r) ==
    /\ rpc[r] \in {"announce", "report"}
    /\ \/ /\ connected
          /\ RGoto(r, IF rpc[r] = "announce" THEN "postRunning" ELSE "postFinal")
          /\ UNCHANGED <<stopEvent, process, rslot, outcome>>
       \/ ~connected /\ AfterNotify(r)
    /\ UNCHANGED <<active, tracked, victim, quieted, link>>

\* ... then queues the request, although the connection may be gone by now ...
NotifyPost(r) ==
    /\ rpc[r] \in {"postRunning", "postFinal"}
    /\ Post(r)
    /\ RGoto(r, IF rpc[r] = "postRunning" THEN "awaitRunning" ELSE "awaitFinal")
    /\ UnchangedButPC
    /\ UNCHANGED <<connected, inbox>>

\* ... and waits until it is answered or failed, or withdraws it.
NotifyDone(r) ==
    /\ rpc[r] \in {"awaitRunning", "awaitFinal"}
    /\ ~Queued(r)
    /\ AfterNotify(r)
    /\ UNCHANGED <<active, tracked, victim, quieted, link>>

NotifyTimeout(r) ==
    /\ rpc[r] \in {"awaitRunning", "awaitFinal"}
    /\ Queued(r)
    /\ LinkFails
    /\ Withdraw(r)
    /\ AfterNotify(r)
    /\ UNCHANGED <<active, tracked, victim, quieted, connected, inbox>>

-----------------------------------------------------------------------------
(* _execute_action, for the action and then for the motor stop. *)

\* The process is started, or there is none to start.
Launch(r) ==
    /\ rpc[r] = "launch"
    /\ \/ /\ process' = [process EXCEPT ![r] = "alive"]
          /\ quieted' = FALSE
          /\ RGoto(r, "register")
          /\ UNCHANGED outcome
       \/ /\ outcome' = [outcome EXCEPT ![r] = "failed"]
          /\ RGoto(r, "motorStop")
          /\ UNCHANGED <<process, quieted>>
    /\ UNCHANGED <<active, tracked, stopEvent, rslot, victim, link>>

\* The process is put into self.active; a stop from now on terminates it itself.
Register(r) ==
    /\ rpc[r] = "register"
    /\ tracked' = TRUE
    /\ RGoto(r, "check")
    /\ UNCHANGED <<active, stopEvent, process, rslot, outcome, victim, quieted, link>>

\* Mutant: a stop that came before the process was known is forgotten.
CheckStopNever(r) ==
    /\ rpc[r] = "check"
    /\ RGoto(r, "wait")
    /\ UNCHANGED <<active, tracked, stopEvent, process, rslot, outcome, victim, quieted, link>>

\* A stop that came before is carried out here.
CheckStop(r) ==
    /\ rpc[r] = "check"
    /\ IF stopEvent[r] THEN Terminate(r) ELSE UNCHANGED process
    /\ RGoto(r, "wait")
    /\ UNCHANGED <<active, tracked, stopEvent, rslot, outcome, victim, quieted, link>>

\* communicate returned: the process ended, with a code of its own.
WaitDone(r) ==
    /\ rpc[r] = "wait"
    /\ ~Running(r)
    /\ \E result \in {"completed", "failed"} :
          outcome' = [outcome EXCEPT ![r] = IF stopEvent[r] THEN "stopped" ELSE result]
    /\ RGoto(r, "motorStop")
    /\ UNCHANGED <<active, tracked, stopEvent, process, rslot, victim, quieted, link>>

\* Mutants: there is no timeout; the process is left running after it.
WaitForEver(r) ==
    /\ rpc[r] = "wait"
    /\ ~Running(r)
    /\ UNCHANGED <<execVars, link>>

WaitTimeoutLeaves(r) ==
    /\ rpc[r] = "wait"
    /\ outcome' = [outcome EXCEPT ![r] = "timeout"]
    /\ RGoto(r, "motorStop")
    /\ UNCHANGED <<active, tracked, stopEvent, process, rslot, victim, quieted, link>>

\* communicate ran into timeout_sec: the process is terminated, and waited for
\* again.  (It may have ended just now.)
WaitTimeout(r) ==
    /\ rpc[r] = "wait"
    /\ Terminate(r)
    /\ outcome' = [outcome EXCEPT ![r] = "timeout"]
    /\ RGoto(r, "drain")
    /\ UNCHANGED <<active, tracked, stopEvent, rslot, victim, quieted, link>>

\* The second communicate: for 5 seconds, which only a stubborn process outlives.
Drained(r) ==
    /\ rpc[r] = "drain"
    /\ Running(r) => Stubborn
    /\ RGoto(r, "motorStop")
    /\ UnchangedButPC
    /\ UNCHANGED link

\* The motor stop: it works or fails, and a failure is the action's.
MotorStop(r) ==
    /\ rpc[r] = "motorStop"
    /\ quieted' = TRUE
    /\ \/ UNCHANGED outcome
       \/ outcome' = [outcome EXCEPT ![r] = IF @ = "completed" THEN "failed" ELSE @]
    /\ RGoto(r, "finish")
    /\ UNCHANGED <<active, tracked, stopEvent, process, rslot, victim, link>>

\* self.active is cleared under the lock, before history and menu are told.
Finish(r) ==
    /\ rpc[r] = "finish"
    /\ active' = None
    /\ tracked' = FALSE
    /\ RGoto(r, "history")
    /\ UNCHANGED <<stopEvent, process, rslot, outcome, victim, quieted, link>>

\* _append_history: an error ends the thread, and the menu is never told.
History(r) ==
    /\ rpc[r] = "history"
    /\ \/ /\ rslot[r] # Manual
          /\ RGoto(r, "report")
          /\ UNCHANGED <<stopEvent, process, rslot, outcome>>
       \/ Retire(r)
    /\ UNCHANGED <<active, tracked, victim, quieted, link>>

RunStep(r) ==
    \/ NotifyCheck(r) \/ NotifyPost(r) \/ NotifyDone(r) \/ NotifyTimeout(r)
    \/ Launch(r) \/ Register(r) \/ CheckStop(r) \/ WaitDone(r) \/ WaitTimeout(r)
    \/ Drained(r) \/ MotorStop(r) \/ Finish(r) \/ History(r)

\* The process ends by itself, or by the signal.
ProcessEnds(r) ==
    /\ Running(r)
    /\ process' = [process EXCEPT ![r] = IF @ = "alive" THEN "exited" ELSE "killed"]
    /\ UNCHANGED <<active, tracked, stopEvent, rpc, rslot, outcome, victim, quieted, link>>

-----------------------------------------------------------------------------
(* Properties. *)

ExecTypeOK ==
    /\ active \in Runs \cup {None}
    /\ tracked \in BOOLEAN
    /\ stopEvent \in [Runs -> BOOLEAN]
    /\ process \in [Runs -> {"none", "alive", "signalled", "exited", "killed"}]
    /\ rpc \in [Runs -> RunPCs]
    /\ rslot \in [Runs -> Slots \cup {Manual}]
    /\ outcome \in [Runs -> Outcomes]
    /\ victim \in [Stoppers -> Runs \cup {None}]
    /\ quieted \in BOOLEAN

\* Two actions never run at once, though one announces its end while the next
\* is already accepted.
OneProcess == \A q, r \in Runs : Running(q) /\ Running(r) => q = r

\* "Safety invariant: this action runs in a finally-equivalent path after every
\* exit": when no action is active, or its motors were stopped, no process of an
\* action is left that could move them again.
MotorStopIsLast ==
    active = None \/ rpc[active] = "finish"
        => quieted /\ \A r \in Runs : ~Running(r)

\* A stop that was accepted reaches the process: it was signalled, or some thread
\* is still going to do it, whichever side of Popen the request fell on.
StopIsDelivered ==
    \A r \in Runs : stopEvent[r] /\ process[r] = "alive" =>
        \/ rpc[r] \in {"register", "check"}
        \/ \E t \in Stoppers : victim[t] = r

\* An action that is reported as completed ended by itself: nobody interrupted it.
CompletedUndisturbed == \A r \in Runs : outcome[r] = "completed" => process[r] = "exited"

\* Every accepted action ends and makes room for the next one.
ActionEnds == \A r \in Runs : active = r ~> active # r
=============================================================================
