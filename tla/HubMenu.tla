------------------------------- MODULE HubMenu -------------------------------
(***************************************************************************)
(* The execution menu of the control hub's firmware (main.c): the input    *)
(* task, which reads the encoder's switch and watches the deadlines, and   *)
(* the RUN STATE commands that comm_task handles.  Navigation is left out: *)
(* a press selects an enabled slot, or stops the execution that is shown.  *)
(***************************************************************************)
EXTENDS HubSerial

CONSTANT Expiring       \* the deadlines that may pass before the hub answers

Deadlines == {"none", "ack", "run", "stop"}

ASSUME MenuAssumption == Expiring \subseteq Deadlines \ {"none"}

VARIABLES menu,         \* execution_active, _stopping, _slot and _deadline_us
          press         \* what the input task does with the press it has read

menuVars == <<menu, press>>

Dark == [active |-> FALSE, stopping |-> FALSE, slot |-> None, deadline |-> "none"]

MenuInit == menu = Dark /\ press = None

\* A press is read: what it means depends on execution_active now, and is acted
\* on after the lock was released.
Press(s) ==
    /\ press = None
    /\ Len(inbox) < MaxFrames
    /\ press' = IF menu.active THEN "stop" ELSE s
    /\ UNCHANGED <<menu, link>>

\* execute_selected
ExecuteSelected ==
    /\ press \in Slots
    /\ menu' = [active |-> TRUE, stopping |-> FALSE, slot |-> press, deadline |-> "ack"]
    /\ Emit(<<"EXEC", press>>)
    /\ press' = None
    /\ UNCHANGED <<connected, requests>>

\* Mutant: the deadline of the run stays armed.
StopSelectedLate ==
    /\ press = "stop"
    /\ IF menu.active /\ ~menu.stopping
       THEN /\ menu' = [menu EXCEPT !.stopping = TRUE]
            /\ Emit(<<"STOP", menu.slot>>)
       ELSE UNCHANGED <<menu, inbox>>
    /\ press' = None
    /\ UNCHANGED <<connected, requests>>

\* stop_selected_execution looks again, under the lock.
StopSelected ==
    /\ press = "stop"
    /\ IF menu.active /\ ~menu.stopping
       THEN /\ menu' = [menu EXCEPT !.stopping = TRUE, !.deadline = "stop"]
            /\ Emit(<<"STOP", menu.slot>>)
       ELSE UNCHANGED <<menu, inbox>>
    /\ press' = None
    /\ UNCHANGED <<connected, requests>>

\* Mutant: only the acknowledgement is watched.
MenuExpireAckOnly ==
    /\ press = None
    /\ menu.active
    /\ menu.deadline = "ack"
    /\ menu' = [menu EXCEPT !.active = FALSE, !.stopping = FALSE, !.deadline = "none"]
    /\ UNCHANGED <<press, link>>

\* The deadline passed: the execution is shown as failed.
MenuExpire ==
    /\ press = None
    /\ menu.active
    /\ menu.deadline \in Expiring
    /\ menu' = [menu EXCEPT !.active = FALSE, !.stopping = FALSE, !.deadline = "none"]
    /\ UNCHANGED <<press, link>>

\* "RUN STATE <slot> <state>": everything but RUNNING ends the execution.
RunState(s, state) ==
    menu' = [active   |-> state = "RUNNING",
             stopping |-> FALSE,
             slot     |-> s,
             deadline |-> IF state = "RUNNING" THEN "run" ELSE "none"]

MenuTask == ExecuteSelected \/ StopSelected \/ MenuExpire

MenuTypeOK ==
    /\ menu \in [active : BOOLEAN, stopping : BOOLEAN, slot : Slots \cup {None},
                 deadline : Deadlines]
    /\ press \in Slots \cup {None, "stop"}

\* While the menu shows an execution a deadline is armed, so that it cannot show
\* it for ever; an execution being stopped is on the stop deadline.
Armed ==
    /\ menu.active <=> menu.deadline # "none"
    /\ menu.stopping <=> menu.deadline = "stop"
=============================================================================
