----------------------------- MODULE ControlHub -----------------------------
(***************************************************************************)
(* The control hub as a whole: the executor, the firmware's menu, and the  *)
(* serial worker between them, which writes queued requests, and handles   *)
(* the module's frames in its own thread (event_callback): a handler that  *)
(* blocks keeps everything else from moving.                               *)
(***************************************************************************)
EXTENDS HubExecutor, HubMenu

CONSTANTS Web           \* the API threads that stop actions

VARIABLE worker         \* what the serial worker does: "loop", "opening" the port,
                        \* "killing" a process or waiting for itself in "rejecting"

vars == <<link, menuVars, execVars, worker>>

Serial == "serial"      \* the worker as a caller of request_stop
ASSUME HubAssumption ==
    /\ Stoppers = Web \cup {Serial}
    /\ Serial \notin Web
    /\ None \notin Runs \cup Slots \cup {"stop"}
    /\ "stop" \notin Slots
    /\ Manual \notin Slots
    /\ MaxFrames \in Nat
    /\ Stubborn \in BOOLEAN
    /\ LinkFails \in BOOLEAN

Init == LinkInit /\ MenuInit /\ ExecInit /\ worker = "loop"

-----------------------------------------------------------------------------
(* The serial worker. *)

\* _flush_requests writes the oldest request, and the module answers it.
WorkerWrite ==
    /\ worker = "loop" /\ connected /\ requests # <<>>
    /\ LET r == Head(requests)
       IN  RunState(rslot[r], IF rpc[r] = "awaitRunning" THEN "RUNNING" ELSE "FINAL")
    /\ requests' = Tail(requests)
    /\ UNCHANGED <<connected, inbox, press, execVars, worker>>

ReadFrame(kind) ==
    /\ worker = "loop" /\ connected /\ inbox # <<>>
    /\ Head(inbox)[1] = kind
    /\ inbox' = Tail(inbox)
    /\ UNCHANGED <<connected, requests, menuVars>>

\* Mutant: the process is looked up, and the signal left to nobody.
WorkerStopForgets ==
    /\ ReadFrame("STOP")
    /\ RequestStop(Serial, active # None /\ rslot[active] = Head(inbox)[2])
    /\ UNCHANGED worker

\* "STOP,<slot>": request_stop, if that slot is the one that runs.
WorkerStop ==
    /\ ReadFrame("STOP")
    /\ RequestStop(Serial, active # None /\ rslot[active] = Head(inbox)[2])
    /\ worker' = IF victim'[Serial] = None THEN "loop" ELSE "killing"

WorkerKill ==
    /\ worker = "killing"
    /\ StopKill(Serial)
    /\ worker' = "loop"
    /\ UNCHANGED menuVars

\* "EXEC,<slot>,...": it starts the action if the service knows it like that and
\* no other one runs.
WorkerExecute ==
    /\ ReadFrame("EXEC")
    /\ \E r \in Runs : Start(r, Head(inbox)[2])
    /\ UNCHANGED worker

\* A disabled slot or a running action is an exception that the worker swallows:
\* nobody tells the menu.
WorkerIgnore ==
    /\ ReadFrame("EXEC")
    /\ UNCHANGED <<execVars, worker>>

\* A slot that the service knows differently is rejected (the history may fail):
\* the handler sends FAILED and waits for the answer, which only this very thread
\* could read.  Its request is withdrawn after the timeout, never written.
WorkerReject ==
    /\ ReadFrame("EXEC")
    /\ worker' = "rejecting"
    /\ UNCHANGED execVars

WorkerRejected ==
    /\ worker = "rejecting"
    /\ worker' = "loop"
    /\ UNCHANGED <<link, menuVars, execVars>>

WorkerStep == \/ WorkerWrite \/ WorkerStop \/ WorkerKill \/ WorkerExecute
              \/ WorkerIgnore \/ WorkerReject \/ WorkerRejected

-----------------------------------------------------------------------------
(* The link, the web page and the module's user. *)

LinkDown ==
    /\ connected
    /\ LinkFails
    /\ worker = "loop"
    /\ Lose
    /\ UNCHANGED <<menuVars, execVars, worker>>

\* A new worker opens the port, which resets the module, and waits for it to boot:
\* until the handshake is through, its presses reach nobody.
PortOpens ==
    /\ ~connected
    /\ worker = "loop"
    /\ worker' = "opening"
    /\ menu' = Dark
    /\ press' = None
    /\ UNCHANGED <<link, execVars>>

LinkUp ==
    /\ worker = "opening"
    /\ Connect
    /\ worker' = "loop"
    /\ UNCHANGED <<menuVars, execVars>>

HandshakeFails ==
    /\ worker = "opening"
    /\ LinkFails
    /\ worker' = "loop"
    /\ UNCHANGED <<link, menuVars, execVars>>

WebStart == /\ \E r \in Runs, s \in Slots \cup {Manual} : Start(r, s)
            /\ UNCHANGED <<link, menuVars, worker>>

WebStop(t) == RequestStop(t, TRUE) /\ UNCHANGED <<link, menuVars, worker>>

WebKill(t) == StopKill(t) /\ UNCHANGED <<menuVars, worker>>

Next ==
    \/ \E r \in Runs : RunStep(r) /\ UNCHANGED <<menuVars, worker>>
    \/ \E r \in Runs : ProcessEnds(r) /\ UNCHANGED <<menuVars, worker>>
    \/ WorkerStep
    \/ (\E s \in Slots : Press(s)) /\ UNCHANGED <<execVars, worker>>
    \/ MenuTask /\ UNCHANGED <<execVars, worker>>
    \/ LinkDown \/ PortOpens \/ LinkUp \/ HandshakeFails \/ WebStart
    \/ \E t \in Web : WebStop(t) \/ WebKill(t)

Spec == Init /\ [][Next]_vars

\* Every thread runs on, a signalled process dies unless it is stubborn, and the
\* input task looks at the deadlines in every turn of its loop, so that presses
\* cannot keep it from them.
Fairness ==
    /\ \A r \in Runs : WF_vars(RunStep(r) /\ UNCHANGED <<menuVars, worker>>)
    /\ \A r \in Runs : WF_vars(process[r] = "signalled" /\ ~Stubborn
                               /\ ProcessEnds(r) /\ UNCHANGED <<menuVars, worker>>)
    /\ WF_vars(WorkerStep)
    /\ \A t \in Web : WF_vars(WebKill(t))
    /\ WF_vars(MenuTask /\ UNCHANGED <<execVars, worker>>)
    /\ SF_vars(MenuExpire /\ UNCHANGED <<execVars, worker>>)

FairSpec == Spec /\ Fairness

-----------------------------------------------------------------------------
(* Properties. *)

\* The types of all parts, what a waiting thread has queued, and who is killing.
TypeOK ==
    /\ LinkTypeOK /\ MenuTypeOK /\ ExecTypeOK
    /\ worker \in {"loop", "opening", "killing", "rejecting"}
    /\ worker = "killing" <=> victim[Serial] # None

\* Each queued request is one that its run still waits for, and is queued once.
RequestsAreAwaited ==
    /\ \A r \in Runs : Queued(r) => rpc[r] \in {"awaitRunning", "awaitFinal"}
    /\ \A i, j \in DOMAIN requests : requests[i] = requests[j] => i = j

\* The menu does not show an execution for ever.
MenuReturns == menu.active ~> ~menu.active

\* "While a process is active, the OLED shows its type, item name, and
\* `PARAR EXECUCAO`" (protocol.md): a process of the slot the module showed last
\* is still shown.
ProcessIsShown ==
    \A r \in Runs : Running(r) /\ menu.slot = rslot[r] => menu.active
=============================================================================
