-------------------------- MODULE ControlHubProofs --------------------------
(***************************************************************************)
(* Theorems about the control hub's executor inside ControlHub, for any    *)
(* number of runs, slots, web threads and frames on the link.              *)
(***************************************************************************)
EXTENDS ControlHub, TLAPS

-----------------------------------------------------------------------------
(* The inductive invariant. *)

Holding  == {"announce", "postRunning", "awaitRunning", "launch", "register",
             "check", "wait", "drain", "motorStop", "finish"}
Started  == {"register", "check", "wait", "drain"}
Decided  == {"drain", "motorStop", "finish", "history", "report", "postFinal", "awaitFinal"}

Announcing == {"announce", "postRunning", "awaitRunning"}
Reporting  == {"history", "report", "postFinal", "awaitFinal"}

\* The types that the argument needs.
ExecTypes ==
    /\ active \in Runs \cup {None}
    /\ tracked \in BOOLEAN
    /\ stopEvent \in [Runs -> BOOLEAN]
    /\ process \in [Runs -> {"none", "alive", "signalled", "exited", "killed"}]
    /\ rpc \in [Runs -> RunPCs]
    /\ outcome \in [Runs -> Outcomes]
    /\ victim \in [Stoppers -> Runs \cup {None}]
    /\ quieted \in BOOLEAN

\* self.active is the run that is between its acceptance and the clearing, and
\* knows its process from the registration on.
ActiveHolds ==
    \A r \in Runs : /\ active = r <=> rpc[r] \in Holding
                    /\ rpc[r] \in Started \ {"register"} => tracked

\* A process that may still move the motors belongs to a run that waits for it,
\* and the motor stop is ahead.
ProcessHeld ==
    /\ \A r \in Runs : /\ process[r] = "alive" => rpc[r] \in Started \ {"drain"}
                       /\ process[r] = "signalled" /\ ~Stubborn => rpc[r] \in Started
                       /\ rpc[r] \in Started => process[r] # "none"
    /\ quieted \/ \E r \in Runs : rpc[r] \in Started \cup {"motorStop"}

\* A run has an outcome when it has stopped waiting.
OutcomeDecided == \A r \in Runs : outcome[r] # "none" => rpc[r] \in Decided

\* Signals come from stops and timeouts; a thread that is about to signal a run
\* has set its stop event, unless the run is over.
SignalsExplained ==
    /\ \A r \in Runs : rpc[r] \in Started /\ process[r] \in {"signalled", "killed"}
                         => stopEvent[r] \/ outcome[r] = "timeout"
    /\ \A t \in Stoppers, r \in Runs : victim[t] = r => stopEvent[r] \/ rpc[r] = "idle"

HubInv == /\ ExecTypes /\ ActiveHolds /\ ProcessHeld /\ OutcomeDecided
          /\ SignalsExplained /\ StopIsDelivered /\ CompletedUndisturbed

LEMMA HubInvInit == Init => HubInv
<1> SUFFICES ASSUME ExecInit PROVE HubInv
  BY DEF Init
<1> USE HubAssumption DEF HubAssumption, ExecInit
<1>1. ExecTypes
  BY DEF ExecTypes, RunPCs, Outcomes
<1>2. \A r \in Runs : rpc[r] = "idle" /\ process[r] = "none" /\ outcome[r] = "none"
                      /\ stopEvent[r] = FALSE /\ active # r
  OBVIOUS
<1>3. ActiveHolds /\ ProcessHeld /\ OutcomeDecided
  BY <1>2 DEF ActiveHolds, ProcessHeld, OutcomeDecided, Holding, Started
<1>4. SignalsExplained /\ StopIsDelivered /\ CompletedUndisturbed
  BY <1>2 DEF SignalsExplained, StopIsDelivered, CompletedUndisturbed, Started
<1> QED BY <1>1, <1>3, <1>4 DEF HubInv

-----------------------------------------------------------------------------
(* The steps of the executor. *)

LEMMA StartKeeps ==
  ASSUME HubInv, NEW r \in Runs, NEW s, Start(r, s)
  PROVE  HubInv'
<1> USE HubAssumption DEF HubAssumption, HubInv, ExecTypes, Start, RGoto, Running
<1>1. ExecTypes'
  BY DEF RunPCs, Outcomes
<1>2. ActiveHolds'
  BY DEF ActiveHolds, Holding, Started
<1>3. ProcessHeld'
  BY DEF ProcessHeld, ActiveHolds, Holding, Started
<1>4. OutcomeDecided'
  BY DEF OutcomeDecided, Decided
<1>5. SignalsExplained'
  BY DEF SignalsExplained, ActiveHolds, OutcomeDecided, Decided, Started, Holding
<1>6. StopIsDelivered'
  BY DEF StopIsDelivered, ActiveHolds, ProcessHeld, Holding, Started
<1>7. CompletedUndisturbed'
  BY DEF CompletedUndisturbed, OutcomeDecided, Decided
<1> QED BY <1>1, <1>2, <1>3, <1>4, <1>5, <1>6, <1>7 DEF HubInv

LEMMA RequestStopKeeps ==
  ASSUME HubInv, NEW t \in Stoppers, NEW ok \in BOOLEAN, RequestStop(t, ok)
  PROVE  HubInv'
<1> USE HubAssumption DEF HubAssumption, HubInv, ExecTypes, RequestStop
<1>1. ExecTypes'
  BY DEF RunPCs, Outcomes
<1>2. ActiveHolds'
  BY DEF ActiveHolds, Holding, Started
<1>3. ProcessHeld'
  BY DEF ProcessHeld, ActiveHolds, Holding, Started
<1>4. OutcomeDecided'
  BY DEF OutcomeDecided, Decided
<1>5. SignalsExplained'
  BY DEF SignalsExplained, ActiveHolds, OutcomeDecided, Decided, Started, Holding
<1>6. StopIsDelivered'
  BY DEF StopIsDelivered, ActiveHolds, ProcessHeld, Holding, Started
<1>7. CompletedUndisturbed'
  BY DEF CompletedUndisturbed, OutcomeDecided, Decided
<1> QED BY <1>1, <1>2, <1>3, <1>4, <1>5, <1>6, <1>7 DEF HubInv

LEMMA StopKillKeeps ==
  ASSUME HubInv, NEW t \in Stoppers, StopKill(t)
  PROVE  HubInv'
<1> USE HubAssumption DEF HubAssumption, HubInv, ExecTypes, StopKill, Terminate
<1>1. ExecTypes'
  BY DEF RunPCs, Outcomes
<1>2. ActiveHolds'
  BY DEF ActiveHolds, Holding, Started
<1>3. ProcessHeld'
  BY DEF ProcessHeld, ActiveHolds, Holding, Started
<1>4. OutcomeDecided'
  BY DEF OutcomeDecided, Decided
<1>5. SignalsExplained'
  BY DEF SignalsExplained, ActiveHolds, OutcomeDecided, Decided, Started, Holding
<1>6. StopIsDelivered'
  BY DEF StopIsDelivered, ActiveHolds, ProcessHeld, Holding, Started
<1>7. CompletedUndisturbed'
  BY DEF CompletedUndisturbed, OutcomeDecided, Decided
<1> QED BY <1>1, <1>2, <1>3, <1>4, <1>5, <1>6, <1>7 DEF HubInv

\* A thread ends.
LEMMA RetireKeeps ==
  ASSUME HubInv, NEW r \in Runs, rpc[r] \in {"history", "report", "awaitFinal"}, Retire(r),
         active' = active, tracked' = tracked, victim' = victim, quieted' = quieted
  PROVE  HubInv'
<1> USE HubAssumption DEF HubAssumption, HubInv, ExecTypes, Retire, RGoto, Running
<1>1. ExecTypes'
  BY DEF RunPCs, Outcomes
<1>2. ActiveHolds'
  BY DEF ActiveHolds, Holding, Started
<1>3. ProcessHeld'
  BY DEF ProcessHeld, ActiveHolds, Holding, Started
<1>4. OutcomeDecided'
  BY DEF OutcomeDecided, Decided
<1>5. SignalsExplained'
  BY DEF SignalsExplained, ActiveHolds, OutcomeDecided, Decided, Started, Holding
<1>6. StopIsDelivered'
  BY DEF StopIsDelivered, ActiveHolds, ProcessHeld, Holding, Started
<1>7. CompletedUndisturbed'
  BY DEF CompletedUndisturbed, OutcomeDecided, Decided
<1> QED BY <1>1, <1>2, <1>3, <1>4, <1>5, <1>6, <1>7 DEF HubInv

\* A thread moves on, between the states in which it holds nothing but self.active
\* or not even that.
LEMMA MoveKeeps ==
  ASSUME HubInv, NEW r \in Runs, NEW to,
         \/ rpc[r] \in Announcing /\ to \in Announcing \cup {"launch"}
         \/ rpc[r] \in Reporting /\ to \in Reporting,
         RGoto(r, to),
         active' = active, tracked' = tracked, stopEvent' = stopEvent, process' = process,
         outcome' = outcome, victim' = victim, quieted' = quieted
  PROVE  HubInv'
<1> USE HubAssumption DEF HubAssumption, HubInv, ExecTypes, RGoto, Running, Announcing, Reporting
<1>1. ExecTypes'
  BY DEF RunPCs, Outcomes
<1>2. ActiveHolds'
  BY DEF ActiveHolds, Holding, Started
<1>3. ProcessHeld'
  BY DEF ProcessHeld, ActiveHolds, Holding, Started
<1>4. OutcomeDecided'
  BY DEF OutcomeDecided, Decided
<1>5. SignalsExplained'
  BY DEF SignalsExplained, ActiveHolds, OutcomeDecided, Decided, Started, Holding
<1>6. StopIsDelivered'
  BY DEF StopIsDelivered, ActiveHolds, ProcessHeld, Holding, Started
<1>7. CompletedUndisturbed'
  BY DEF CompletedUndisturbed, OutcomeDecided, Decided
<1> QED BY <1>1, <1>2, <1>3, <1>4, <1>5, <1>6, <1>7 DEF HubInv

LEMMA RegisterKeeps ==
  ASSUME HubInv, NEW r \in Runs, Register(r)
  PROVE  HubInv'
  BY HubAssumption DEF HubAssumption, Register, RGoto, Running, UnchangedButPC, HubInv, ExecTypes,
     ActiveHolds, ProcessHeld, OutcomeDecided, SignalsExplained, StopIsDelivered,
     CompletedUndisturbed, RunPCs, Outcomes, Holding, Started, Decided

LEMMA CheckStopKeeps ==
  ASSUME HubInv, NEW r \in Runs, CheckStop(r)
  PROVE  HubInv'
  BY HubAssumption DEF HubAssumption, CheckStop, Terminate, RGoto, Running, UnchangedButPC, HubInv, ExecTypes,
     ActiveHolds, ProcessHeld, OutcomeDecided, SignalsExplained, StopIsDelivered,
     CompletedUndisturbed, RunPCs, Outcomes, Holding, Started, Decided

LEMMA WaitDoneKeeps ==
  ASSUME HubInv, NEW r \in Runs, WaitDone(r)
  PROVE  HubInv'
  BY HubAssumption DEF HubAssumption, WaitDone, RGoto, Running, UnchangedButPC, HubInv, ExecTypes,
     ActiveHolds, ProcessHeld, OutcomeDecided, SignalsExplained, StopIsDelivered,
     CompletedUndisturbed, RunPCs, Outcomes, Holding, Started, Decided

LEMMA WaitTimeoutKeeps ==
  ASSUME HubInv, NEW r \in Runs, WaitTimeout(r)
  PROVE  HubInv'
  BY HubAssumption DEF HubAssumption, WaitTimeout, Terminate, RGoto, Running, UnchangedButPC, HubInv, ExecTypes,
     ActiveHolds, ProcessHeld, OutcomeDecided, SignalsExplained, StopIsDelivered,
     CompletedUndisturbed, RunPCs, Outcomes, Holding, Started, Decided

LEMMA DrainedKeeps ==
  ASSUME HubInv, NEW r \in Runs, Drained(r)
  PROVE  HubInv'
  BY HubAssumption DEF HubAssumption, Drained, RGoto, Running, UnchangedButPC, HubInv, ExecTypes,
     ActiveHolds, ProcessHeld, OutcomeDecided, SignalsExplained, StopIsDelivered,
     CompletedUndisturbed, RunPCs, Outcomes, Holding, Started, Decided

LEMMA MotorStopKeeps ==
  ASSUME HubInv, NEW r \in Runs, MotorStop(r)
  PROVE  HubInv'
  BY HubAssumption DEF HubAssumption, MotorStop, RGoto, Running, UnchangedButPC, HubInv, ExecTypes,
     ActiveHolds, ProcessHeld, OutcomeDecided, SignalsExplained, StopIsDelivered,
     CompletedUndisturbed, RunPCs, Outcomes, Holding, Started, Decided

LEMMA LaunchKeeps ==
  ASSUME HubInv, NEW r \in Runs, Launch(r)
  PROVE  HubInv'
<1> USE HubAssumption DEF HubAssumption, HubInv, ExecTypes, Launch, RGoto, Running
<1>1. ExecTypes'
  BY DEF RunPCs, Outcomes
<1>2. ActiveHolds'
  BY DEF ActiveHolds, Holding, Started
<1>3. ProcessHeld'
  BY DEF ProcessHeld, ActiveHolds, Holding, Started
<1>4. OutcomeDecided'
  BY DEF OutcomeDecided, Decided
<1>5. SignalsExplained'
  BY DEF SignalsExplained, ActiveHolds, OutcomeDecided, Decided, Started, Holding
<1>6. StopIsDelivered'
  BY DEF StopIsDelivered, ActiveHolds, ProcessHeld, Holding, Started
<1>7. CompletedUndisturbed'
  BY DEF CompletedUndisturbed, OutcomeDecided, Decided
<1> QED BY <1>1, <1>2, <1>3, <1>4, <1>5, <1>6, <1>7 DEF HubInv

LEMMA FinishKeeps ==
  ASSUME HubInv, NEW r \in Runs, Finish(r)
  PROVE  HubInv'
<1> USE HubAssumption DEF HubAssumption, HubInv, ExecTypes, Finish, RGoto, Running
<1>1. ExecTypes'
  BY DEF RunPCs, Outcomes
<1>2. ActiveHolds'
  BY DEF ActiveHolds, Holding, Started
<1>3. ProcessHeld'
  BY DEF ProcessHeld, ActiveHolds, Holding, Started
<1>4. OutcomeDecided'
  BY DEF OutcomeDecided, Decided
<1>5. SignalsExplained'
  BY DEF SignalsExplained, ActiveHolds, OutcomeDecided, Decided, Started, Holding
<1>6. StopIsDelivered'
  BY DEF StopIsDelivered, ActiveHolds, ProcessHeld, Holding, Started
<1>7. CompletedUndisturbed'
  BY DEF CompletedUndisturbed, OutcomeDecided, Decided
<1> QED BY <1>1, <1>2, <1>3, <1>4, <1>5, <1>6, <1>7 DEF HubInv

LEMMA RunStepKeeps ==
  ASSUME HubInv, NEW r \in Runs, RunStep(r)
  PROVE  HubInv'
<1>1. CASE NotifyCheck(r)
  <2>1. CASE Retire(r) /\ rpc[r] \in {"report", "awaitFinal"}
    BY <1>1, <2>1, RetireKeeps DEF NotifyCheck
  <2>2. CASE ~(Retire(r) /\ rpc[r] \in {"report", "awaitFinal"})
    BY <1>1, <2>2, MoveKeeps DEF NotifyCheck, AfterNotify, Announcing, Reporting
  <2> QED BY <2>1, <2>2
<1>2. CASE NotifyPost(r)
  BY <1>2, MoveKeeps DEF NotifyPost, UnchangedButPC, Announcing, Reporting
<1>3. CASE NotifyDone(r)
  <2>1. CASE rpc[r] = "awaitRunning"
    BY <1>3, <2>1, MoveKeeps DEF NotifyDone, AfterNotify, Announcing
  <2>2. CASE rpc[r] = "awaitFinal"
    BY <1>3, <2>2, RetireKeeps DEF NotifyDone, AfterNotify
  <2> QED BY <1>3, <2>1, <2>2 DEF NotifyDone
<1>4. CASE NotifyTimeout(r)
  <2>1. CASE rpc[r] = "awaitRunning"
    BY <1>4, <2>1, MoveKeeps DEF NotifyTimeout, AfterNotify, Announcing
  <2>2. CASE rpc[r] = "awaitFinal"
    BY <1>4, <2>2, RetireKeeps DEF NotifyTimeout, AfterNotify
  <2> QED BY <1>4, <2>1, <2>2 DEF NotifyTimeout
<1>5. CASE Launch(r)        BY <1>5, LaunchKeeps
<1>6. CASE Register(r)      BY <1>6, RegisterKeeps
<1>7. CASE CheckStop(r)     BY <1>7, CheckStopKeeps
<1>8. CASE WaitDone(r)      BY <1>8, WaitDoneKeeps
<1>9. CASE WaitTimeout(r)   BY <1>9, WaitTimeoutKeeps
<1>10. CASE Drained(r)      BY <1>10, DrainedKeeps
<1>11. CASE MotorStop(r)    BY <1>11, MotorStopKeeps
<1>12. CASE Finish(r)       BY <1>12, FinishKeeps
<1>13. CASE History(r)
  <2>1. CASE Retire(r)
    BY <1>13, <2>1, RetireKeeps DEF History
  <2>2. CASE ~Retire(r)
    BY <1>13, <2>2, MoveKeeps DEF History, Reporting
  <2> QED BY <2>1, <2>2
<1> QED BY <1>1, <1>2, <1>3, <1>4, <1>5, <1>6, <1>7, <1>8, <1>9, <1>10, <1>11, <1>12, <1>13
        DEF RunStep

LEMMA ProcessEndsKeeps ==
  ASSUME HubInv, NEW r \in Runs, ProcessEnds(r)
  PROVE  HubInv'
  BY HubAssumption DEF HubAssumption, ProcessEnds, Running, HubInv, ExecTypes, ActiveHolds, ProcessHeld,
     OutcomeDecided, SignalsExplained, StopIsDelivered, CompletedUndisturbed,
     RunPCs, Outcomes, Holding, Started, Decided

LEMMA StutterKeeps ==
  ASSUME HubInv, UNCHANGED execVars
  PROVE  HubInv'
  BY DEF execVars, HubInv, ExecTypes, ActiveHolds, ProcessHeld,
     OutcomeDecided, SignalsExplained, StopIsDelivered, CompletedUndisturbed

-----------------------------------------------------------------------------
(* The executor inside the composition. *)

\* Worker, web page and run threads act on the executor through its operations.
LEMMA HubSteps ==
  ASSUME [Next]_vars
  PROVE  \/ \E r \in Runs : RunStep(r) \/ ProcessEnds(r)
         \/ \E r \in Runs : \E s : Start(r, s)
         \/ \E t \in Stoppers : StopKill(t) \/ \E ok \in BOOLEAN : RequestStop(t, ok)
         \/ UNCHANGED execVars
<1> USE DEF vars
<1>1. CASE WorkerStep
  <2>1. Serial \in Stoppers
    BY HubAssumption DEF HubAssumption
  <2>2. CASE WorkerStop
    BY <2>1, <2>2 DEF WorkerStop
  <2>3. CASE WorkerKill
    BY <2>1, <2>3 DEF WorkerKill
  <2>4. CASE WorkerExecute
    BY <2>4 DEF WorkerExecute
  <2>5. CASE WorkerWrite \/ WorkerIgnore \/ WorkerReject \/ WorkerRejected
    BY <2>5 DEF WorkerWrite, WorkerIgnore, WorkerReject, WorkerRejected
  <2> QED BY <1>1, <2>2, <2>3, <2>4, <2>5 DEF WorkerStep
<1>2. CASE WebStart
  BY <1>2 DEF WebStart
<1>3. ASSUME NEW t \in Web, WebStop(t) \/ WebKill(t)
      PROVE  StopKill(t) \/ \E ok \in BOOLEAN : RequestStop(t, ok)
  BY <1>3 DEF WebStop, WebKill
<1>4. Web \subseteq Stoppers
  BY HubAssumption DEF HubAssumption
<1>5. CASE LinkDown \/ PortOpens \/ LinkUp \/ HandshakeFails \/ UNCHANGED vars
  BY <1>5 DEF LinkDown, PortOpens, LinkUp, HandshakeFails
<1> QED BY <1>1, <1>2, <1>3, <1>4, <1>5 DEF Next

\* The executor's invariant holds, whatever link, menu and web page do.
THEOREM HubInvHolds == Spec => []HubInv
<1>1. HubInv /\ [Next]_vars => HubInv'
  BY HubSteps, StartKeeps, RequestStopKeeps, StopKillKeeps, RunStepKeeps,
     ProcessEndsKeeps, StutterKeeps
<1> QED BY <1>1, HubInvInit, PTL DEF Spec

\* A stop that was accepted is never lost between Popen, registration and signal
\* (executor.py, request_stop and _execute_action).
THEOREM StopsAreDelivered == Spec => []StopIsDelivered
<1>1. HubInv => StopIsDelivered
  BY DEF HubInv
<1> QED BY <1>1, HubInvHolds, PTL

\* An action reported as completed was not interrupted (executor.py, the result of
\* _execute_action).
THEOREM CompletedMeansUndisturbed == Spec => []CompletedUndisturbed
<1>1. HubInv => CompletedUndisturbed
  BY DEF HubInv
<1> QED BY <1>1, HubInvHolds, PTL

\* Actions never overlap, provided that no process outlives SIGTERM and the five
\* seconds after it (executor.py, self.active).
THEOREM ActionsNeverOverlap ==
  ASSUME ~Stubborn
  PROVE  Spec => []OneProcess
<1>1. HubInv => OneProcess
  BY DEF HubInv, ExecTypes, ActiveHolds, ProcessHeld, OneProcess, Running, Holding, Started
<1> QED BY <1>1, HubInvHolds, PTL

\* The hub is idle, or past the motor stop, only when the motors were stopped after
\* the last process was gone, under the same proviso (executor.py, "Safety
\* invariant").
THEOREM MotorsStopLast ==
  ASSUME ~Stubborn
  PROVE  Spec => []MotorStopIsLast
<1>1. HubInv => MotorStopIsLast
  <2> SUFFICES ASSUME HubInv, active = None \/ rpc[active] = "finish"
               PROVE  quieted /\ \A r \in Runs : ~Running(r)
    BY DEF MotorStopIsLast
  <2>1. \A r \in Runs : rpc[r] \in Holding => active = r /\ active # None
    BY HubAssumption DEF HubInv, ActiveHolds, HubAssumption
  <2>2. \A r \in Runs : rpc[r] \notin Started \cup {"motorStop"}
    BY <2>1 DEF Holding, Started
  <2> QED BY <2>2 DEF HubInv, ProcessHeld, ExecTypes, Running
<1> QED BY <1>1, HubInvHolds, PTL

-----------------------------------------------------------------------------
(* The menu. *)

MenuShape ==
    /\ menu = [active |-> menu.active, stopping |-> menu.stopping,
               slot |-> menu.slot, deadline |-> menu.deadline]
    /\ menu.active \in BOOLEAN /\ menu.stopping \in BOOLEAN

MenuInv == MenuShape /\ Armed

LEMMA MenuTaskKeeps ==
  ASSUME MenuInv, MenuTask
  PROVE  MenuInv'
<1> USE MenuAssumption DEF MenuInv, MenuShape, Armed
<1>1. CASE ExecuteSelected
  BY <1>1 DEF ExecuteSelected
<1>2. CASE StopSelected
  BY <1>2 DEF StopSelected
<1>3. CASE MenuExpire
  BY <1>3 DEF MenuExpire
<1> QED BY <1>1, <1>2, <1>3 DEF MenuTask

LEMMA RunStateKeeps ==
  ASSUME NEW s, NEW state, RunState(s, state)
  PROVE  MenuInv'
  BY DEF RunState, MenuInv, MenuShape, Armed

\* The menu shows an execution exactly while a deadline is armed, and one that is
\* being stopped has the stop deadline: no interleaving of presses, RUN STATE
\* commands, expiries and resets leaves it waiting for nothing (main.c,
\* execution_deadline_us).
THEOREM MenuIsArmed == Spec => []Armed
<1>1. Init => MenuInv
  BY DEF Init, MenuInit, Dark, MenuInv, MenuShape, Armed
<1>2. MenuInv /\ [Next]_vars => MenuInv'
  <2> SUFFICES ASSUME MenuInv, [Next]_vars PROVE MenuInv'
    OBVIOUS
  <2>1. ASSUME UNCHANGED menu PROVE MenuInv'
    BY <2>1 DEF MenuInv, MenuShape, Armed
  <2>2. CASE WorkerWrite
    BY <2>2, RunStateKeeps DEF WorkerWrite
  <2>3. CASE MenuTask
    BY <2>3, MenuTaskKeeps
  <2>4. CASE PortOpens
    BY <2>4 DEF PortOpens, Dark, MenuInv, MenuShape, Armed
  <2>5. CASE WorkerStep /\ ~WorkerWrite
    BY <2>1, <2>5 DEF WorkerStep, WorkerStop, WorkerKill, WorkerExecute, WorkerIgnore,
                      WorkerReject, WorkerRejected, ReadFrame, menuVars
  <2>6. CASE \/ LinkDown \/ LinkUp \/ HandshakeFails \/ WebStart
             \/ \E t \in Web : WebStop(t) \/ WebKill(t)
    BY <2>1, <2>6 DEF LinkDown, LinkUp, HandshakeFails, WebStart, WebStop, WebKill, menuVars
  <2>7. CASE \E s \in Slots : Press(s)
    BY <2>1, <2>7 DEF Press
  <2> QED BY <2>1, <2>2, <2>3, <2>4, <2>5, <2>6, <2>7 DEF Next, vars, menuVars
<1>3. MenuInv => Armed
  BY DEF MenuInv
<1> QED BY <1>1, <1>2, <1>3, PTL DEF Spec

-----------------------------------------------------------------------------
(* The queue of requests. *)

Awaiting == {"awaitRunning", "awaitFinal"}

QueueInv == requests \in Seq(Runs) /\ rpc \in [Runs -> RunPCs] /\ RequestsAreAwaited

\* The queue stays, and who waits goes on waiting.
LEMMA QueueStays ==
  ASSUME QueueInv, UNCHANGED requests, rpc' \in [Runs -> RunPCs],
         \A r \in Runs : rpc[r] \in Awaiting /\ Queued(r) => rpc'[r] \in Awaiting
  PROVE  QueueInv'
  BY DEF QueueInv, RequestsAreAwaited, Queued, Awaiting

\* A run that waits for nothing yet queues its request behind the others.
LEMMA PostKeepsQueue ==
  ASSUME QueueInv, NEW r \in Runs, NotifyPost(r)
  PROVE  QueueInv'
<1> USE DEF QueueInv
<1>1. ~Queued(r) /\ requests' = Append(requests, r)
  BY DEF NotifyPost, Post, RequestsAreAwaited
<1>2. /\ rpc' \in [Runs -> RunPCs]
      /\ rpc'[r] \in Awaiting
      /\ \A q \in Runs : q # r => rpc'[q] = rpc[q]
  BY DEF NotifyPost, RGoto, RunPCs, Awaiting
<1>3. /\ requests' \in Seq(Runs)
      /\ Len(requests') = Len(requests) + 1
      /\ requests'[Len(requests) + 1] = r
      /\ \A i \in 1 .. Len(requests) : requests'[i] = requests[i]
  BY <1>1
<1>4. \A q \in Runs : Queued(q)' => q = r \/ Queued(q)
  BY <1>3 DEF Queued
<1>5. \A i, j \in DOMAIN requests' : requests'[i] = requests'[j] => i = j
  BY <1>1, <1>3 DEF RequestsAreAwaited, Queued
<1> QED BY <1>2, <1>3, <1>4, <1>5 DEF RequestsAreAwaited, Awaiting

\* The queue without one of its places.
LEMMA ShorterKeepsQueue ==
  ASSUME QueueInv, NEW i \in DOMAIN requests, rpc' \in [Runs -> RunPCs],
         requests' \in Seq(Runs), Len(requests') = Len(requests) - 1,
         \A j \in 1 .. Len(requests) - 1 :
            requests'[j] = requests[IF j < i THEN j ELSE j + 1],
         \A q \in Runs : q # requests[i] => rpc'[q] = rpc[q]
  PROVE  QueueInv'
<1> USE DEF QueueInv
<1>1. DOMAIN requests' = 1 .. Len(requests) - 1
  OBVIOUS
<1>2. \A j \in DOMAIN requests' :
        /\ j < i  => j \in DOMAIN requests /\ requests'[j] = requests[j]
        /\ j >= i => j + 1 \in DOMAIN requests /\ requests'[j] = requests[j + 1]
  BY <1>1
<1>3. \A j, k \in DOMAIN requests' : requests'[j] = requests'[k] => j = k
  BY <1>1, <1>2 DEF RequestsAreAwaited
<1>4. ASSUME NEW q \in Runs, Queued(q)'
      PROVE  Queued(q) /\ q # requests[i]
  <2>1. PICK j \in DOMAIN requests' : requests'[j] = q
    BY <1>4 DEF Queued
  <2>2. PICK k \in DOMAIN requests : k # i /\ requests[k] = q
    <3>1. CASE j < i
      BY <1>2, <2>1, <3>1
    <3>2. CASE j >= i
      <4>1. j + 1 \in DOMAIN requests /\ requests[j + 1] = q /\ j + 1 # i
        BY <1>1, <1>2, <2>1, <3>2
      <4> QED BY <4>1
    <3> QED BY <1>1, <3>1, <3>2
  <2> QED BY <2>2 DEF Queued, RequestsAreAwaited
<1> QED BY <1>1, <1>3, <1>4 DEF RequestsAreAwaited

\* What a step of a run does with the queue: nothing while it is queued, unless
\* it queues or withdraws.
LEMMA RunKeepsQueue ==
  ASSUME QueueInv, NEW r \in Runs, RunStep(r)
  PROVE  QueueInv'
<1>1. CASE NotifyPost(r)
  BY <1>1, PostKeepsQueue
<1>2. CASE NotifyTimeout(r)
  <2>1. PICK i \in DOMAIN requests :
          /\ requests[i] = r
          /\ requests' = [j \in 1 .. Len(requests) - 1 |-> requests[IF j < i THEN j ELSE j + 1]]
    BY <1>2 DEF NotifyTimeout, Withdraw
  <2>2. rpc' \in [Runs -> RunPCs] /\ \A q \in Runs : q # r => rpc'[q] = rpc[q]
    BY <1>2 DEF NotifyTimeout, AfterNotify, Retire, RGoto, RunPCs, QueueInv
  <2>3. requests' \in Seq(Runs) /\ Len(requests') = Len(requests) - 1
    BY <2>1 DEF QueueInv
  <2> QED BY <2>1, <2>2, <2>3, ShorterKeepsQueue
<1>3. CASE RunStep(r) /\ ~NotifyPost(r) /\ ~NotifyTimeout(r)
  <2>1. /\ UNCHANGED requests
        /\ \E to \in RunPCs : RGoto(r, to)
        /\ rpc[r] \in Awaiting => ~Queued(r)
    BY <1>3 DEF RunStep, NotifyCheck, NotifyDone, AfterNotify, Retire, Launch, Register,
       CheckStop, WaitDone, WaitTimeout, Drained, MotorStop, Finish, History, RGoto, RunPCs,
       link, Awaiting
  <2>2. rpc' \in [Runs -> RunPCs] /\ \A q \in Runs : q # r => rpc'[q] = rpc[q]
    BY <2>1 DEF RGoto, QueueInv
  <2> QED BY <2>1, <2>2, QueueStays
<1> QED BY <1>1, <1>2, <1>3

\* An accepted run waits for nothing yet.
LEMMA StartKeepsQueue ==
  ASSUME QueueInv, NEW r \in Runs, NEW s, Start(r, s), UNCHANGED requests
  PROVE  QueueInv'
<1>1. /\ rpc' \in [Runs -> RunPCs] /\ rpc[r] \notin Awaiting
      /\ \A q \in Runs : q # r => rpc'[q] = rpc[q]
  BY DEF Start, RGoto, RunPCs, QueueInv, Awaiting
<1> QED BY <1>1, QueueStays

LEMMA WorkerKeepsQueue ==
  ASSUME QueueInv, WorkerStep
  PROVE  QueueInv'
<1>1. ASSUME UNCHANGED <<requests, rpc>> PROVE QueueInv'
  BY <1>1, QueueStays DEF QueueInv
<1>2. CASE WorkerWrite
  <2>1. requests # <<>> /\ requests' = Tail(requests) /\ UNCHANGED rpc
    BY <1>2 DEF WorkerWrite, execVars
  <2>2. /\ 1 \in DOMAIN requests
        /\ requests' \in Seq(Runs) /\ Len(requests') = Len(requests) - 1
        /\ \A j \in 1 .. Len(requests) - 1 : requests'[j] = requests[j + 1]
    BY <2>1 DEF QueueInv
  <2> QED BY <2>1, <2>2, ShorterKeepsQueue DEF QueueInv
<1>3. CASE WorkerExecute
  BY <1>3, StartKeepsQueue DEF WorkerExecute, ReadFrame
<1>4. CASE WorkerStep /\ ~WorkerWrite /\ ~WorkerExecute
  BY <1>1, <1>4 DEF WorkerStep, WorkerStop, WorkerKill, WorkerIgnore, WorkerReject,
     WorkerRejected, ReadFrame, RequestStop, StopKill, execVars, link
<1> QED BY <1>2, <1>3, <1>4

LEMMA QueueInvHolds == Spec => []QueueInv
<1>1. Init => QueueInv
  BY DEF Init, LinkInit, ExecInit, QueueInv, RequestsAreAwaited, Queued, RunPCs
<1>2. QueueInv /\ [Next]_vars => QueueInv'
  <2> SUFFICES ASSUME QueueInv, [Next]_vars PROVE QueueInv'
    OBVIOUS
  <2>1. ASSUME UNCHANGED <<requests, rpc>> PROVE QueueInv'
    BY <2>1, QueueStays DEF QueueInv
  <2>2. CASE \E r \in Runs : RunStep(r)
    BY <2>2, RunKeepsQueue
  <2>3. CASE WorkerStep
    BY <2>3, WorkerKeepsQueue
  <2>4. CASE LinkDown
    <3>1. requests' = <<>> /\ UNCHANGED rpc
      BY <2>4 DEF LinkDown, Lose, execVars
    <3> QED BY <3>1 DEF QueueInv, RequestsAreAwaited, Queued
  <2>5. CASE WebStart
    BY <2>5, StartKeepsQueue DEF WebStart, link
  <2>6. CASE \/ \E r \in Runs : ProcessEnds(r)
             \/ \E t \in Web : WebStop(t) \/ WebKill(t)
    BY <2>1, <2>6 DEF ProcessEnds, WebStop, WebKill, RequestStop, StopKill, link
  <2>7. CASE \/ (\E s \in Slots : Press(s)) /\ UNCHANGED <<execVars, worker>>
             \/ MenuTask /\ UNCHANGED <<execVars, worker>>
    BY <2>1, <2>7 DEF Press, MenuTask, ExecuteSelected, StopSelected, MenuExpire, execVars, link
  <2>8. CASE PortOpens \/ LinkUp \/ HandshakeFails \/ UNCHANGED vars
    BY <2>1, <2>8 DEF PortOpens, LinkUp, HandshakeFails, Connect, execVars, link, vars
  <2> QED BY <2>2, <2>3, <2>4, <2>5, <2>6, <2>7, <2>8 DEF Next
<1> QED BY <1>1, <1>2, PTL DEF Spec

\* Whatever order sends, timeouts, answers and the end of a connection come in,
\* what is queued belongs to a run that waits for it, and to no other request of
\* that run (serial_runtime.py, pending).
THEOREM QueueIsAwaited == Spec => []RequestsAreAwaited
<1>1. QueueInv => RequestsAreAwaited
  BY DEF QueueInv
<1> QED BY <1>1, QueueInvHolds, PTL

-----------------------------------------------------------------------------
(* Types, from the three invariants above. *)

Notifying == {"announce", "postRunning", "awaitRunning", "report", "postFinal", "awaitFinal"}
Frames == {"EXEC", "STOP"} \X Slots

\* Only slots of the menu are announced and reported.
SlotTypes == /\ rslot \in [Runs -> Slots \cup {Manual}]
             /\ \A r \in Runs : rpc[r] \in Notifying => rslot[r] \in Slots

LinkTypes == connected \in BOOLEAN /\ inbox \in Seq(Frames)

\* An execution that is shown is one of a slot.
MenuTypes == MenuTypeOK /\ (menu.active => menu.slot \in Slots)

WorkerTypes == /\ worker \in {"loop", "opening", "killing", "rejecting"}
               /\ worker = "killing" <=> victim[Serial] # None

LEMMA SlotTypesKept ==
  ASSUME HubInv, LinkTypes, SlotTypes, [Next]_vars
  PROVE  SlotTypes'
<1> USE DEF SlotTypes, HubInv, ExecTypes
<1>1. ASSUME UNCHANGED <<rslot, rpc>> PROVE SlotTypes'
  BY <1>1
<1>2. ASSUME NEW r \in Runs, NEW s \in Slots \cup {Manual}, Start(r, s)
      PROVE  SlotTypes'
  BY <1>2 DEF Start, RGoto, Notifying
<1>3. ASSUME NEW r \in Runs, RunStep(r)
      PROVE  SlotTypes'
  <2>1. CASE NotifyCheck(r)   BY <2>1 DEF NotifyCheck, AfterNotify, Retire, RGoto, Notifying
  <2>2. CASE NotifyPost(r)    BY <2>2 DEF NotifyPost, UnchangedButPC, RGoto, Notifying
  <2>3. CASE NotifyDone(r)    BY <2>3 DEF NotifyDone, AfterNotify, Retire, RGoto, Notifying
  <2>4. CASE NotifyTimeout(r) BY <2>4 DEF NotifyTimeout, AfterNotify, Retire, RGoto, Notifying
  <2>5. CASE History(r)       BY <2>5 DEF History, Retire, RGoto, Notifying
  <2>6. CASE \/ Launch(r) \/ Register(r) \/ CheckStop(r) \/ WaitDone(r) \/ WaitTimeout(r)
             \/ Drained(r) \/ MotorStop(r) \/ Finish(r)
    <3>1. UNCHANGED rslot /\ \E to \in RunPCs \ Notifying : RGoto(r, to)
      BY <2>6 DEF Launch, Register, CheckStop, WaitDone, WaitTimeout, Drained, MotorStop,
         Finish, RGoto, UnchangedButPC, RunPCs, Notifying
    <3> QED BY <3>1 DEF RGoto
  <2> QED BY <1>3, <2>1, <2>2, <2>3, <2>4, <2>5, <2>6 DEF RunStep
<1>4. CASE WorkerExecute
  <2>1. PICK r \in Runs : Start(r, Head(inbox)[2])
    BY <1>4 DEF WorkerExecute
  <2>2. Head(inbox) \in Frames
    BY <1>4 DEF WorkerExecute, ReadFrame, LinkTypes
  <2> QED BY <1>2, <2>1, <2>2 DEF Frames
<1>5. CASE WebStart
  BY <1>2, <1>5 DEF WebStart
<1>6. CASE WorkerStep /\ ~WorkerExecute
  BY <1>1, <1>6 DEF WorkerStep, WorkerWrite, WorkerStop, WorkerKill, WorkerIgnore,
     WorkerReject, WorkerRejected, ReadFrame, RequestStop, StopKill, execVars
<1>7. CASE \/ \E r \in Runs : ProcessEnds(r)
           \/ \E t \in Web : WebStop(t) \/ WebKill(t)
           \/ LinkDown \/ PortOpens \/ LinkUp \/ HandshakeFails \/ UNCHANGED vars
  BY <1>1, <1>7 DEF ProcessEnds, WebStop, WebKill, RequestStop, StopKill, LinkDown, PortOpens,
     LinkUp, HandshakeFails, execVars, vars
<1> QED BY <1>1, <1>3, <1>4, <1>5, <1>6, <1>7 DEF Next, execVars

\* A frame on its way is an execution or a stop of a slot.
LEMMA EmitKeeps ==
  ASSUME LinkTypes, NEW kind \in {"EXEC", "STOP"}, NEW s \in Slots,
         Emit(<<kind, s>>), UNCHANGED connected
  PROVE  LinkTypes'
<1>1. <<kind, s>> \in Frames
  BY DEF Frames
<1> HIDE DEF Frames
<1> QED BY <1>1 DEF Emit, LinkTypes

LEMMA LinkTypesKept ==
  ASSUME MenuTypes, LinkTypes, [Next]_vars
  PROVE  LinkTypes'
<1> USE DEF LinkTypes
<1>1. ASSUME UNCHANGED <<connected, inbox>> PROVE LinkTypes'
  BY <1>1
<1>2. CASE MenuTask
  <2>1. CASE ExecuteSelected
    BY <2>1, EmitKeeps DEF ExecuteSelected
  <2>2. CASE StopSelected
    BY <1>1, <2>2, EmitKeeps DEF StopSelected, MenuTypes
  <2>3. CASE MenuExpire
    BY <1>1, <2>3 DEF MenuExpire, link
  <2> QED BY <1>2, <2>1, <2>2, <2>3 DEF MenuTask
<1>3. CASE LinkDown \/ LinkUp
  <2>1. inbox' = <<>>
    BY <1>3 DEF LinkDown, Lose, LinkUp, Connect
  <2>2. inbox' \in Seq(Frames)
    BY <2>1
  <2>3. connected' \in BOOLEAN
    BY <1>3, Zenon DEF LinkDown, Lose, LinkUp, Connect
  <2> QED BY <2>2, <2>3
<1>4. CASE WorkerStep
  <2>1. ASSUME NEW kind, ReadFrame(kind) PROVE LinkTypes'
    BY <2>1 DEF ReadFrame
  <2>2. CASE WorkerWrite \/ WorkerKill \/ WorkerRejected
    BY <1>1, <2>2 DEF WorkerWrite, WorkerKill, StopKill, WorkerRejected, link
  <2> QED BY <1>4, <2>1, <2>2 DEF WorkerStep, WorkerStop, WorkerExecute, WorkerIgnore, WorkerReject
<1>5. ASSUME NEW r \in Runs, RunStep(r) PROVE LinkTypes'
  BY <1>1, <1>5 DEF RunStep, NotifyCheck, NotifyPost, NotifyDone, NotifyTimeout, Launch,
     Register, CheckStop, WaitDone, WaitTimeout, Drained, MotorStop, Finish, History, link
<1>6. CASE \/ \E r \in Runs : ProcessEnds(r)
           \/ \E s \in Slots : Press(s)
           \/ PortOpens \/ HandshakeFails \/ WebStart
           \/ \E t \in Web : WebStop(t) \/ WebKill(t)
           \/ UNCHANGED vars
  BY <1>1, <1>6 DEF ProcessEnds, Press, PortOpens, HandshakeFails, WebStart, WebStop, WebKill, StopKill, link, vars
<1> QED BY <1>2, <1>3, <1>4, <1>5, <1>6 DEF Next

LEMMA MenuTypesKept ==
  ASSUME SlotTypes, QueueInv, MenuTypes, [Next]_vars
  PROVE  MenuTypes'
<1> USE HubAssumption DEF HubAssumption, MenuTypes, MenuTypeOK, Deadlines
<1>1. ASSUME UNCHANGED menuVars PROVE MenuTypes'
  BY <1>1 DEF menuVars
<1>2. CASE MenuTask
  <2>1. CASE ExecuteSelected
    BY <2>1 DEF ExecuteSelected
  <2>2. CASE StopSelected
    BY <1>1, <2>2 DEF StopSelected, menuVars
  <2>3. CASE MenuExpire
    BY <2>3 DEF MenuExpire
  <2> QED BY <1>2, <2>1, <2>2, <2>3 DEF MenuTask
<1>3. CASE \E s \in Slots : Press(s)
  BY <1>3 DEF Press
<1>4. CASE PortOpens
  BY <1>4 DEF PortOpens, Dark
<1>5. CASE WorkerWrite
  <2> DEFINE r == Head(requests)
  <2>1. requests # <<>> /\ r \in Runs /\ Queued(r)
    BY <1>5 DEF WorkerWrite, QueueInv, Queued
  <2>2. rslot[r] \in Slots
    BY <2>1 DEF SlotTypes, QueueInv, RequestsAreAwaited, Notifying
  <2>3. UNCHANGED press /\ \E state : RunState(rslot[r], state)
    BY <1>5 DEF WorkerWrite
  <2> HIDE DEF r
  <2> QED BY <2>2, <2>3 DEF RunState
<1>6. CASE WorkerStep /\ ~WorkerWrite
  BY <1>1, <1>6 DEF WorkerStep, WorkerStop, WorkerKill, WorkerExecute, WorkerIgnore,
     WorkerReject, WorkerRejected, ReadFrame
<1>7. CASE \/ \E r \in Runs : (RunStep(r) \/ ProcessEnds(r)) /\ UNCHANGED <<menuVars, worker>>
           \/ LinkDown \/ LinkUp \/ HandshakeFails \/ WebStart
           \/ \E t \in Web : WebStop(t) \/ WebKill(t)
           \/ UNCHANGED vars
  BY <1>1, <1>7 DEF LinkDown, LinkUp, HandshakeFails, WebStart, WebStop, WebKill, vars
<1> QED BY <1>2, <1>3, <1>4, <1>5, <1>6, <1>7 DEF Next

LEMMA WorkerTypesKept ==
  ASSUME HubInv, WorkerTypes, [Next]_vars
  PROVE  WorkerTypes'
<1> USE HubAssumption DEF HubAssumption, HubInv, ExecTypes, WorkerTypes
<1>1. ASSUME UNCHANGED <<worker, victim>> PROVE WorkerTypes'
  BY <1>1
<1>2. CASE WorkerStop
  BY <1>2 DEF WorkerStop, RequestStop, ReadFrame
<1>3. CASE WorkerKill
  BY <1>3 DEF WorkerKill, StopKill
<1>4. CASE WorkerStep /\ ~WorkerStop /\ ~WorkerKill
  BY <1>1, <1>4 DEF WorkerStep, WorkerWrite, WorkerExecute, WorkerIgnore, WorkerReject,
     WorkerRejected, ReadFrame, Start, execVars
<1>5. ASSUME NEW t \in Web, WebStop(t) \/ WebKill(t) PROVE WorkerTypes'
  BY <1>5 DEF WebStop, WebKill, RequestStop, StopKill
<1>6. ASSUME NEW r \in Runs, RunStep(r) \/ ProcessEnds(r), UNCHANGED worker
      PROVE  WorkerTypes'
  BY <1>1, <1>6 DEF RunStep, ProcessEnds, NotifyCheck, NotifyPost, NotifyDone, NotifyTimeout,
     Launch, Register, CheckStop, WaitDone, WaitTimeout, Drained, MotorStop, Finish, History,
     UnchangedButPC
<1>7. CASE \/ (\E s \in Slots : Press(s)) /\ UNCHANGED <<execVars, worker>>
           \/ MenuTask /\ UNCHANGED <<execVars, worker>>
           \/ LinkDown \/ PortOpens \/ LinkUp \/ HandshakeFails \/ WebStart
           \/ UNCHANGED vars
  BY <1>1, <1>7 DEF LinkDown, PortOpens, LinkUp, HandshakeFails, WebStart, Start, execVars, vars
<1> QED BY <1>2, <1>3, <1>4, <1>5, <1>6, <1>7 DEF Next

\* Every variable of executor, menu, link and worker keeps its type: the menu
\* shows slots only, and the worker is killing exactly while it has a victim.
THEOREM TypesHold == Spec => []TypeOK
<1> DEFINE Types == SlotTypes /\ LinkTypes /\ MenuTypes /\ WorkerTypes
<1>1. Init => Types
  <2> SUFFICES ASSUME Init PROVE Types
    OBVIOUS
  <2> USE HubAssumption DEF HubAssumption, Init
  <2>1. SlotTypes
    BY DEF ExecInit, SlotTypes, Notifying
  <2>2. LinkTypes
    <3>1. inbox = <<>> /\ connected = FALSE
      BY DEF LinkInit
    <3>2. inbox \in Seq(Frames)
      BY <3>1
    <3> QED BY <3>1, <3>2, Zenon DEF LinkTypes
  <2>3. MenuTypes
    BY DEF MenuInit, Dark, MenuTypes, MenuTypeOK, Deadlines
  <2>4. WorkerTypes
    BY DEF ExecInit, WorkerTypes
  <2> QED BY <2>1, <2>2, <2>3, <2>4
<1>2. HubInv /\ QueueInv /\ Types /\ [Next]_vars => Types'
  BY SlotTypesKept, LinkTypesKept, MenuTypesKept, WorkerTypesKept
<1>3. HubInv /\ QueueInv /\ Types => TypeOK
  BY DEF HubInv, ExecTypes, QueueInv, SlotTypes, LinkTypes, Frames, MenuTypes, WorkerTypes,
     TypeOK, LinkTypeOK, ExecTypeOK
<1> HIDE DEF Types
<1> QED BY <1>1, <1>2, <1>3, HubInvHolds, QueueInvHolds, PTL DEF Spec
=============================================================================
