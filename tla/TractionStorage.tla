--------------------------- MODULE TractionStorage ---------------------------
(***************************************************************************)
(* What the traction module keeps in flash (components/traction_storage),  *)
(* the one-slot queue and the low-priority task through which it is        *)
(* written, and the boot that reads it back (traction_control_app.c).      *)
(*                                                                         *)
(* Each kind is a blob of its own.  A configuration is written as two      *)
(* blobs, the curve and then the configuration; power may be lost between  *)
(* them.  A blob is committed whole or not at all.                         *)
(***************************************************************************)
EXTENDS TractionControl

CONSTANT MaxBoots                \* bound: power cycles of a behaviour

ASSUME StorageAssumption == MaxBoots \in Nat

VARIABLES
    nvs,     \* the blob of every kind, or NoBlob
    ready,   \* s_nvs_ready
    slot,    \* s_nvs_queue: the request that waits, or NoRequest
    saver,   \* the save task: its step, and the request it took
    boots

storageVars == <<nvs, ready, slot, saver, boots>>

Kinds == {"rpm", "pos", "invert", "bridge", "curve", "cfg"}
NoBlob == [none |-> TRUE]
NoRequest == [kind |-> "none"]
SaverAtStart == [pc |-> "wait", job |-> NoRequest]

Stored(n, kind) == n[kind] # NoBlob

-----------------------------------------------------------------------------
(* Requests: xQueueOverwrite on a queue of length one.                     *)

Overwrite(req) == slot' = req

\* comm_enqueue_rpm_save
RpmSave == [kind |-> "rpm", data |-> [gains |-> tune.rpm, sp |-> drive.sp]]

\* comm_enqueue_pos_save, written in the layout of version 2
PosSave == [kind |-> "pos", data |-> [ver |-> 2, gains |-> tune.pos,
                                     tgt |-> drive.tgt, iwin |-> tune.iwin]]

\* enqueue_invert_save and enqueue_bridge_save
InvertSave(mi, ei) == [kind |-> "invert", data |-> [mi |-> mi, ei |-> ei]]
BridgeSave(b) == [kind |-> "bridge", data |-> [br |-> b]]

\* comm_enqueue_curve_save
CurveSave == [kind |-> "curve", data |-> conf.curve]

\* controller_cfg_state_is_valid
CfgValid(cfg) == /\ cfg.br \in Bridges
                 /\ cfg.freq > 0
                 /\ cfg.rest # "invalid"       \* mode, counts per turn, gear ratio
                 /\ cfg.top >= 0               \* rpm_max

\* comm_enqueue_controller_cfg_save: the curve travels along, its last point
\* the maximum of the configuration
CfgSave == [kind |-> "cfg", data |-> conf.cfg,
            curve |-> [conf.curve EXCEPT !.top = conf.cfg.top]]

-----------------------------------------------------------------------------
(* traction_control_app_nvs_save_task                                      *)

\* Mutant: the encoder is masked before storage is found to be missing.
SaverTakeEarly ==
    /\ saver.pc = "wait" /\ slot # NoRequest /\ loop.pc = "delay"
    /\ slot' = NoRequest
    /\ hw' = [hw EXCEPT !.irq = FALSE]
    /\ saver' = IF ready THEN [pc |-> "suspend", job |-> slot] ELSE saver
    /\ UNCHANGED <<drive, tune, conf, loop, nvs, ready, boots>>

\* The request leaves the slot.  Without storage it is answered S,ERR and
\* dropped; otherwise the encoder's interrupts are masked.
SaverTake ==
    /\ saver.pc = "wait" /\ slot # NoRequest /\ loop.pc = "delay"
    /\ slot' = NoRequest
    /\ IF ready
       THEN /\ hw' = [hw EXCEPT !.irq = FALSE]
            /\ saver' = [pc |-> "suspend", job |-> slot]
       ELSE UNCHANGED <<saver, hw>>
    /\ UNCHANGED <<drive, tune, conf, loop, nvs, ready, boots>>

\* The speed task is suspended in its sleep, and S,START goes out.  Its tick may
\* come first: a pass then runs with the encoder masked.
SaverSuspend ==
    /\ saver.pc = "suspend" /\ loop.pc = "delay"
    /\ saver' = [saver EXCEPT !.pc = "write"]
    /\ loop' = [loop EXCEPT !.susp = TRUE]
    /\ UNCHANGED <<drive, tune, conf, hw, nvs, ready, slot, boots>>

Committed(kind, data) == nvs' = [nvs EXCEPT ![kind] = data]

\* Mutant: a save that fails is tried again from its first blob.
SaverWriteAgain ==
    /\ saver.pc \in {"write", "write cfg"} /\ loop.pc = "delay"
    /\ \/ /\ saver.job.kind = "cfg" /\ saver.pc = "write"
          /\ Committed("curve", saver.job.curve)
          /\ saver' = [saver EXCEPT !.pc = "write cfg"]
       \/ /\ saver.job.kind = "cfg" => saver.pc = "write cfg"
          /\ Committed(saver.job.kind, saver.job.data)
          /\ saver' = [saver EXCEPT !.pc = "S,OK"]
       \/ saver' = [saver EXCEPT !.pc = "write"] /\ UNCHANGED nvs
    /\ UNCHANGED <<controlVars, ready, slot, boots>>

\* One nvs_set_blob and nvs_commit of the *_save_to_nvs functions; a
\* configuration comes back for its second blob.  Either may fail.
SaverWrite ==
    /\ saver.pc \in {"write", "write cfg"} /\ loop.pc = "delay"
    /\ \/ /\ saver.job.kind = "cfg" /\ saver.pc = "write"
          /\ Committed("curve", saver.job.curve)
          /\ saver' = [saver EXCEPT !.pc = "write cfg"]
       \/ /\ saver.job.kind = "cfg" => saver.pc = "write cfg"
          /\ Committed(saver.job.kind, saver.job.data)
          /\ saver' = [saver EXCEPT !.pc = "S,OK"]
       \/ /\ saver' = [saver EXCEPT !.pc = "S,ERR"]
          /\ UNCHANGED nvs
    /\ UNCHANGED <<controlVars, ready, slot, boots>>

\* The result and S,END go out and the speed task goes on, at once: it outranks
\* this one and its sleep is over with the suspension.
SaverResume ==
    /\ saver.pc \in {"S,OK", "S,ERR"}
    /\ saver' = [saver EXCEPT !.pc = "unmask"]
    /\ loop' = [loop EXCEPT !.susp = FALSE, !.pc = "due"]
    /\ UNCHANGED <<drive, tune, conf, hw, nvs, ready, slot, boots>>

\* When the speed task sleeps again the encoder's interrupts come back
SaverUnmask ==
    /\ saver.pc = "unmask" /\ loop.pc = "delay"
    /\ saver' = SaverAtStart
    /\ hw' = [hw EXCEPT !.irq = TRUE]
    /\ UNCHANGED <<drive, tune, conf, loop, nvs, ready, slot, boots>>

Saver == SaverTake \/ SaverSuspend \/ SaverWrite \/ SaverResume \/ SaverUnmask

-----------------------------------------------------------------------------
(* Boot: pid_defaults, then pid_load_from_nvs over it, blob by blob.       *)

DriveDefaults == [sp |-> 0, force |-> NoForce, raw |-> FALSE, pos |-> FALSE,
                  sine |-> FALSE, expl |-> FALSE, tgt |-> 0]
TuneDefaults == [rpm |-> "default", pos |-> "default", iwin |-> 5, offset |-> 180]

\* motor_curve_defaults and controller_cfg_defaults: both end at 199.89 rpm
CurveDefaults == [low |-> 0, top |-> 200]
CfgDefaults == [br |-> TB6612, mi |-> FALSE, ei |-> FALSE, freq |-> DefaultHz,
                top |-> 200, rest |-> "default"]
ConfDefaults == [mi |-> FALSE, ei |-> FALSE, br |-> TB6612,
                 curve |-> CurveDefaults, cfg |-> CfgDefaults]

\* The first block of pid_load_from_nvs: gains and set-point of the speed loop
LoadRpm(n, d, t) ==
    IF Stored(n, "rpm")
    THEN [drive |-> [d EXCEPT !.sp = Within(-150, 150, n["rpm"].sp)],
          tune  |-> [t EXCEPT !.rpm = n["rpm"].gains]]
    ELSE [drive |-> d, tune |-> t]

\* traction_storage_load_pos_pid: the layouts of version 1 and before it have
\* no integral window (5 degrees then), the oldest counts turns
LoadPosPid(blob) ==
    CASE blob.ver = 2 -> blob
      [] blob.ver = 1 -> [blob EXCEPT !.ver = 2, !.iwin = 5]
      [] blob.ver = 0 -> [blob EXCEPT !.ver = 2, !.iwin = 5, !.tgt = 360 * @]

\* Its second block: a stored position target counts as an explicit one
LoadPos(n, d, t) ==
    IF Stored(n, "pos")
    THEN LET b == LoadPosPid(n["pos"])
         IN  [drive |-> [d EXCEPT !.tgt = b.tgt, !.expl = TRUE],
              tune  |-> [t EXCEPT !.pos = b.gains, !.iwin = b.iwin]]
    ELSE [drive |-> d, tune |-> t]

\* Mutant: the maximum of the stored configuration is taken as it is.
LoadConfTorn(n) ==
    LET curve == IF Stored(n, "curve") THEN n["curve"] ELSE CurveDefaults
        cfg == IF Stored(n, "cfg") THEN n["cfg"] ELSE CfgDefaults
    IN  [mi |-> cfg.mi, ei |-> cfg.ei, br |-> cfg.br, curve |-> curve, cfg |-> cfg]

\* Its blocks on inversion, bridge, curve and configuration; what the stored
\* configuration says of inversion and bridge wins over their own blobs when
\* the runtime is applied, and the curve's last point over its maximum.
LoadConf(n) ==
    LET mi == IF Stored(n, "invert") THEN n["invert"].mi ELSE FALSE
        ei == IF Stored(n, "invert") THEN n["invert"].ei ELSE FALSE
        br == IF Stored(n, "bridge") THEN n["bridge"].br ELSE TB6612
        curve == IF Stored(n, "curve") THEN n["curve"] ELSE CurveDefaults
        cfg == IF Stored(n, "cfg") THEN n["cfg"]
               ELSE [CfgDefaults EXCEPT !.br = br, !.mi = mi, !.ei = ei]
    IN  [mi |-> mi, ei |-> ei, br |-> br, curve |-> curve,
         cfg |-> [cfg EXCEPT !.top = curve.top]]

\* pid_load_from_nvs as a whole; with no storage the defaults are kept and
\* nothing is applied
Loaded(n, ok, deg) ==
    IF ~ok THEN [drive |-> DriveDefaults, tune |-> TuneDefaults,
                 conf |-> ConfDefaults, hw |-> HwAtReset]
    ELSE LET r == LoadRpm(n, DriveDefaults, TuneDefaults)
             p == LoadPos(n, r.drive, r.tune)
             c == LoadConf(n)
             a == ApplyRuntime(c, p.drive, SetBridge(HwAtReset, c.br), deg)
         IN  [drive |-> a.drive, tune |-> p.tune, conf |-> a.conf, hw |-> a.hw]

\* Mutant: the stored set-points are kept at boot.
BootStatesResumed(n, ok) == {Loaded(n, ok, deg) : deg \in Angles}

\* app_main and traction_control_app_init: nothing of the stored set-points is
\* acted on, and the save queue starts empty
BootStates(n, ok) ==
    {[b EXCEPT !.drive = ControlToZero(@, TRUE)] : b \in {Loaded(n, ok, deg) : deg \in Angles}}

Booted(n, ok) ==
    /\ \E b \in BootStates(n, ok) :
          drive' = b.drive /\ tune' = b.tune /\ conf' = b.conf /\ hw' = b.hw
    /\ loop' = LoopAtStart
    /\ ready' = ok
    /\ slot' = NoRequest
    /\ saver' = SaverAtStart

\* traction_storage_init: a partition without free pages or of another version
\* is erased; initialisation may fail
StorageInit(ok) ==
    \/ nvs' = nvs
    \/ ok /\ nvs' = [k \in Kinds |-> NoBlob]

\* Power is lost and comes back
PowerCycle ==
    /\ boots < MaxBoots
    /\ boots' = boots + 1
    /\ \E ok \in BOOLEAN : StorageInit(ok) /\ Booted(nvs', ok)
=============================================================================
