---------------------------- MODULE CommandCalls ----------------------------
(***************************************************************************)
(* What the host's command API promises its callers, without threads,      *)
(* mailboxes or locks.  A call is one invocation of                        *)
(* send_device_traction_out_once, send_device_traction_command_once or     *)
(* send_device_cmd_once (functions/keepalive.py).                          *)
(*                                                                         *)
(* A call is refused at once or queued; a queued call is taken by a worker *)
(* exactly once, or dropped, or abandoned by its caller; only a taken call *)
(* ever reaches the wire; a call gets one answer, and the kind of answer   *)
(* says whether the command can have been sent.  Keepalive implements this.*)
(***************************************************************************)
EXTENDS Naturals

CONSTANTS Calls,          \* the invocations
          None,           \* "no answer yet"
          MaxSends        \* MaxSends[c]: how often a call's frame may be written

VARIABLES phase,          \* where the call stands
          sent,           \* how often its frame was written to the port
          answer,         \* request["result"]
          ret             \* what the caller got

avars == <<phase, sent, answer, ret>>

Phases == {"new", "refused", "queued", "dropped", "taken", "settled", "gone"}

\* Answers of a worker that had the call in hand, and of an actor that
\* took it out of the mailbox without running it.
RunAnswers  == {"REPLIED", "EXCEPTION"}
DropAnswers == {"SUPERSEDED", "CANCELLED"}
Answers     == RunAnswers \cup DropAnswers

Init == /\ phase  = [c \in Calls |-> "new"]
        /\ sent   = [c \in Calls |-> 0]
        /\ answer = [c \in Calls |-> None]
        /\ ret    = [c \in Calls |-> None]

Refuse(c) ==
    /\ phase[c] = "new"
    /\ phase' = [phase EXCEPT ![c] = "refused"]
    /\ ret'   = [ret EXCEPT ![c] = "REFUSED"]
    /\ UNCHANGED <<sent, answer>>

\* A submission drops at most one earlier call.
Submit(c, old) ==
    /\ phase[c] = "new"
    /\ \A d \in old : phase[d] = "queued"
    /\ \A d, e \in old : d = e
    /\ phase' = [d \in Calls |-> IF d = c THEN "queued"
                                 ELSE IF d \in old THEN "dropped" ELSE phase[d]]
    /\ UNCHANGED <<sent, answer, ret>>

Move(c, from, to) ==
    /\ phase[c] = from
    /\ phase' = [phase EXCEPT ![c] = to]
    /\ UNCHANGED <<sent, answer, ret>>

Drop(c) == Move(c, "queued", "dropped")
Take(c) == Move(c, "queued", "taken")

Send(c) ==
    /\ phase[c] = "taken"
    /\ sent[c] < MaxSends[c]
    /\ sent' = [sent EXCEPT ![c] = @ + 1]
    /\ UNCHANGED <<phase, answer, ret>>

Settle(c, a) ==
    /\ \/ phase[c] = "taken"   /\ a \in RunAnswers
       \/ phase[c] = "dropped" /\ a \in DropAnswers
    /\ a = "REPLIED" => sent[c] > 0
    /\ phase'  = [phase EXCEPT ![c] = "settled"]
    /\ answer' = [answer EXCEPT ![c] = a]
    /\ UNCHANGED <<sent, ret>>

Return(c) ==
    /\ phase[c] = "settled"
    /\ ret[c] = None
    /\ ret' = [ret EXCEPT ![c] = answer[c]]
    /\ UNCHANGED <<phase, sent, answer>>

\* The caller's patience ends.  A call still queued will never run; a call
\* already taken or dropped goes on without its caller.
GiveUp(c) ==
    /\ phase[c] \in {"queued", "dropped", "taken", "settled"}
    /\ ret[c] = None
    /\ ret'   = [ret EXCEPT ![c] = "TIMEOUT"]
    /\ phase' = [phase EXCEPT ![c] = IF @ = "queued" THEN "gone" ELSE @]
    /\ UNCHANGED <<sent, answer>>

Next == \E c \in Calls :
           \/ Refuse(c) \/ Drop(c) \/ Take(c) \/ Send(c) \/ Return(c) \/ GiveUp(c)
           \/ \E old \in SUBSET Calls : Submit(c, old)
           \/ \E a \in Answers : Settle(c, a)

Spec == Init /\ [][Next]_avars
=============================================================================
