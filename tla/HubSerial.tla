------------------------------ MODULE HubSerial ------------------------------
(***************************************************************************)
(* What the rest of the control hub sees of its SerialRuntime: a request   *)
(* waits in a queue until the worker thread writes it, its sender          *)
(* withdraws it after a timeout, or the connection ends; the module's      *)
(* unsolicited frames arrive in order.  A request that is no longer pending *)
(* stays in the code's queue and is skipped there; here it is removed.     *)
(***************************************************************************)
EXTENDS Naturals, Sequences

CONSTANTS Runs,         \* the threads that send: executions of an action
          Slots,        \* the slots of the menu
          MaxFrames,    \* bound on the frames on their way from the module
          LinkFails,    \* may the connection break, or an answer be missing?
          None

VARIABLES connected,    \* _status["connected"]: the worker thread is in its loop
          requests,     \* the queued requests that are still in `pending`
          inbox         \* frames the module sent and the worker did not read

link == <<connected, requests, inbox>>

Queued(r) == \E i \in DOMAIN requests : requests[i] = r

LinkInit == connected = FALSE /\ requests = <<>> /\ inbox = <<>>

\* send, once the connection was looked at: the request is registered and queued.
Post(r) == requests' = Append(requests, r)

\* A queued request is withdrawn: those behind it move up.
Withdraw(r) ==
    \E i \in DOMAIN requests :
        /\ requests[i] = r
        /\ requests' = [j \in 1 .. Len(requests) - 1 |-> requests[IF j < i THEN j ELSE j + 1]]

\* The module writes a frame; without a reader it is gone.
Emit(frame) == inbox' = IF connected THEN Append(inbox, frame) ELSE inbox

\* The worker leaves its loop: _fail_pending completes every request.
Lose ==
    /\ connected' = FALSE
    /\ requests' = <<>>
    /\ inbox' = <<>>

\* A new worker.  Whoever sent before has timed out by now: 2.5 seconds are
\* shorter than BOOT_DELAY_SEC.  The input buffer is reset.
Connect ==
    /\ ~connected
    /\ requests = <<>>
    /\ connected' = TRUE
    /\ inbox' = <<>>
    /\ UNCHANGED requests

LinkTypeOK ==
    /\ connected \in BOOLEAN
    /\ requests \in Seq(Runs)
    /\ inbox \in Seq({"EXEC", "STOP"} \X Slots)
=============================================================================
