----------------------------- MODULE SensorBoard -----------------------------
(***************************************************************************)
(* What the firmwares of the line, distance and colour boards share        *)
(* (firmware/esp/modules): two FreeRTOS tasks of one priority on one core, *)
(* the serial task, which executes the host's commands, and the sampling   *)
(* task of main.c.  Either may be preempted anywhere outside a critical    *)
(* section, so a handler is a sequence of steps that each touch the shared *)
(* state once.                                                             *)
(*                                                                         *)
(* A behaviour belongs to a session: a board, what its flash holds at      *)
(* first, the frames its host may send, what its sensor may read, and how  *)
(* often its supply may fail.  A command is a pair <<text, argument>>; the *)
(* text is the one matched, and a line is a command outside frames, which  *)
(* only a build with the line fallback takes.                              *)
(***************************************************************************)
EXTENDS Integers, FiniteSets

\* A sequence of records: board; nvs; frames, a set of [type, c]; scene, a set of
\* readings; boots, which bounds the power cycles of a behaviour
CONSTANT Sessions

ASSUME SessionsAssumption ==
    \A s \in DOMAIN Sessions :
        /\ Sessions[s].boots \in Nat
        /\ DOMAIN Sessions[s].nvs = {"cfg", "cal", "works"} /\ Sessions[s].nvs.works \in BOOLEAN

VARIABLES
    session,    \* the one this behaviour belongs to, in DOMAIN Sessions
    app,        \* s_app: what the two tasks share
    dev,        \* the sensor driver and the hardware behind it
    task,       \* the sampling task: pc and its copies
    comm,       \* the serial task: pc, the frame in hand, its copies
    wire,       \* link, stream (telemetry is on), out (the last answer)
    nvs,        \* the blobs in flash, and works: every write succeeds
    host        \* gone: sends no more; boots so far

boardVars == <<session, app, dev, task, comm, wire, nvs, host>>

This == Sessions[session]

UINT16_MAX == 65535

NoBlob == <<>>      \* a stored blob is <<blob>>
NoFrame == [type |-> "none", c |-> <<"none", 0>>]
Idle == [pc |-> "idle", f |-> NoFrame]
WireAtStart == [link |-> FALSE, stream |-> FALSE, out |-> "none"]

Within(lo, hi, v) == IF v < lo THEN lo ELSE IF v > hi THEN hi ELSE v

\* A blob is committed whole, or the call fails and the old one stays
CommitFits(kind, data, saved) ==
    /\ nvs.works => saved
    /\ nvs' = IF saved THEN [nvs EXCEPT ![kind] = <<data>>] ELSE nvs

-----------------------------------------------------------------------------
(* The serial task takes a frame while it is idle, and answers it at the   *)
(* end of its handler.                                                     *)

Hears(f) == /\ comm.pc = "idle" /\ ~host.gone
            /\ f \in This.frames

Says(text) == wire' = [wire EXCEPT !.link = TRUE, !.out = text]

\* A frame that touches nothing but the wire
Replies(text) == /\ Says(text)
                 /\ UNCHANGED <<app, dev, task, comm, nvs>>

\* A command that ends in this step, in one critical section
Executes(text) == /\ Says(text)
                  /\ UNCHANGED <<task, comm>>

\* A command of several steps: the frame stays in hand
Begins(pc, f) == /\ comm' = [pc |-> pc, f |-> f]
                 /\ wire' = [wire EXCEPT !.link = TRUE]
                 /\ UNCHANGED task

Ends(text) == /\ comm' = Idle
              /\ Says(text)
              /\ UNCHANGED task

Commands == {"CMD", "LINE"}
IsCommand(f, text) == f.type \in Commands /\ f.c[1] = text

\* A command no handler knows: acknowledged in a frame, refused in a line
Unknown(f) == /\ f.type \in Commands /\ f.c[1] = "UNKNOWN"
              /\ Replies(IF f.type = "CMD" THEN "I RECIEVED CMD" ELSE "ERR")

\* A frame for the module itself
HostFrame(f) == \/ f.c[1] = "HELLO" /\ Replies("HELLO ACK")
                \/ f.c[1] = "MODULE QUERY" /\ Replies("MODULE INFO")

\* The traction commands, which some boards accept without effect
TractionOut == {"SET OUT", "SET OUT RAW", "CLR OUT"}

TelemetryFrame(f) ==
    /\ f.type = "TELEMETRY"
    /\ wire' = [wire EXCEPT !.link = TRUE, !.out = f.c[1],
                            !.stream = CASE f.c[1] = "TELEMETRY_START" -> TRUE
                                         [] f.c[1] = "TELEMETRY_STOP" -> FALSE
                                         [] OTHER -> @]
    /\ UNCHANGED <<app, dev, task, comm, nvs>>

\* The frames that are not commands, with the answer to a CONTROL frame
OtherFrame(f, control) ==
    \/ Unknown(f)
    \/ f.type = "TEST" /\ Replies("I RECIEVED TEST")
    \/ f.type = "CONTROL" /\ Replies(control)
    \/ TelemetryFrame(f)
    \/ f.type = "OTHER" /\ Replies("ERR")

\* Between two bytes: the stream, and the check of the link
SendsTelemetry == /\ comm.pc = "idle" /\ wire.stream
                  /\ wire' = [wire EXCEPT !.out = "DATA"]
                  /\ UNCHANGED <<app, dev, task, comm, nvs>>

LosesLink == comm.pc = "idle" /\ wire.link /\ wire' = [wire EXCEPT !.link = FALSE]

HostIsGone ==
    /\ ~host.gone
    /\ host' = [host EXCEPT !.gone = TRUE]
    /\ UNCHANGED <<session, app, dev, task, comm, wire, nvs>>

HostStays == UNCHANGED <<session, host>>
=============================================================================
