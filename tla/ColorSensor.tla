----------------------------- MODULE ColorSensor -----------------------------
(***************************************************************************)
(* The colour board (color_module).                                        *)
(*                                                                         *)
(* Both tasks set the exposure of the sensor, the serial task on SET CFG   *)
(* and RESET CFG, the sampling task when the gain mode is AUTO, and both   *)
(* go through the same driver, which notes the exposure, marks the sensor  *)
(* as not configured and then programs it over I2C.  The sampling task     *)
(* writes the exposure of its pass back into the configuration.  The LED   *)
(* belongs to the serial task: it is lit while a host is heard.            *)
(*                                                                         *)
(* Colours and the matching of patches are left out; a sample is its       *)
(* brightness against the target, and whether both references were valid   *)
(* in the profile it was processed with.                                   *)
(***************************************************************************)
EXTENDS SensorBoard, Sequences

CONSTANT MaxSamples      \* COLOR_PROC_CAPTURE_MAX_SAMPLES: the ring of a capture

ASSUME ColorAssumption == MaxSamples \in Nat \ {0}

OFF == 0    \* the LED modes; the gain modes are MANUAL and AUTO
ON == 1
AUTO == 2

DARK == -2                     \* the targets of a capture that are not slots
WHITE == -1
NONE == -128

Palettes == {5, 8, 16}          \* a palette of that many slots
Profiles == [dark : BOOLEAN, white : BOOLEAN, measured : SUBSET (0 .. 15)]

GainModes == {"MANUAL", "AUTO"}
ColorBlobs == [led : Nat, mode : GainModes, gain : Nat, ms : Nat, palette : Nat, period : Nat]
ColorNumbers == {"LED", "GAIN", "INTEGRATION_MS", "PALETTE_MODE", "SAMPLE_MS"}

\* A stored configuration has its fields, and a stored calibration a profile of each
\* palette; SET CFG names a field, and its numbers and those of LED are unsigned
ASSUME ColorSessions ==
    \A s \in DOMAIN Sessions : Sessions[s].board = "color" =>
        LET flash == Sessions[s].nvs
        IN  /\ flash.cfg # NoBlob => flash.cfg[1] \in ColorBlobs
            /\ flash.cal # NoBlob =>
                  /\ flash.cal[1] \in [Palettes -> Profiles]
                  /\ \A mode \in Palettes : flash.cal[1][mode].measured \subseteq 0 .. mode - 1
            /\ \A f \in Sessions[s].frames :
                  /\ f.c[1] = "LED" => f.c[2] \in Nat
                  /\ f.c[1] = "SET CFG" =>
                        \/ f.c[2][1] = "GAIN_MODE"
                        \/ f.c[2][1] \in ColorNumbers /\ f.c[2][2] \in Nat

-----------------------------------------------------------------------------
(* Configuration, calibration and boot.                                    *)

ColorDefaults == [led |-> ON, mode |-> "AUTO", gain |-> 4, ms |-> 50, palette |-> 8, period |-> 80]

TargetClear == 18000      \* target_clear, left at its default

\* sanitize_cfg: a value out of range is replaced, never refused
ColorSanitized(cfg) ==
    [cfg EXCEPT !.led = IF @ > AUTO THEN AUTO ELSE @,
                !.palette = IF @ \notin Palettes THEN 8 ELSE @,
                !.period = Within(20, 1000, @),
                !.gain = IF @ = 0 THEN ColorDefaults.gain ELSE @,
                !.ms = IF @ < 3 THEN ColorDefaults.ms ELSE @]

\* color_proc_get_default_profile: nominal patches, no references
DefaultProfile(mode) == [dark |-> FALSE, white |-> FALSE, measured |-> {}]

NoCapture == [active |-> FALSE, target |-> 0, samples |-> <<>>]

\* gain_to_reg and integration_to_atime: what the sensor can do of a request,
\* four gains, and integration times of 1 to 256 cycles of 2.4 ms
Gains == {1, 4, 16, 60}
ResolvedGain(gain) == IF gain <= 1 THEN 1 ELSE IF gain <= 4 THEN 4 ELSE IF gain <= 16 THEN 16 ELSE 60

CyclesMs(cycles) == (24 * cycles + 5) \div 10
Times == {CyclesMs(cycles) : cycles \in 1 .. 256}
ResolvedMs(ms) == CyclesMs(Within(1, 256, (10 * Within(3, UINT16_MAX, ms) + 12) \div 24))

\* app_main: the LED is on in the configuration whatever was stored
ColorLoadCfg(stored) == IF stored = NoBlob THEN ColorDefaults
                        ELSE [ColorSanitized(stored[1]) EXCEPT !.led = ON]

ColorLoadCal(stored) == IF stored = NoBlob THEN [mode \in Palettes |-> DefaultProfile(mode)]
                        ELSE stored[1]

ColorTaskAtStart == [pc |-> "snap"]

\* color_sensor_init: the first probe may fail
ColorBoots(n) ==
    { LET cfg == ColorLoadCfg(n.cfg)
      IN  [app  |-> [cfg |-> cfg, cal |-> ColorLoadCal(n.cal), capture |-> NoCapture,
                     link |-> FALSE],
           dev  |-> [led |-> FALSE, configured |-> probed,
                     gain |-> IF probed THEN ResolvedGain(cfg.gain) ELSE cfg.gain,
                     ms |-> IF probed THEN ResolvedMs(cfg.ms) ELSE cfg.ms],
           task |-> ColorTaskAtStart] : probed \in BOOLEAN }

-----------------------------------------------------------------------------
(* The driver.                                                             *)

\* color_sensor_set_exposure, up to the probe
SetExposure(gain, ms) ==
    dev' = [dev EXCEPT !.gain = ResolvedGain(gain), !.ms = ResolvedMs(ms), !.configured = FALSE]

\* probe_and_configure: the exposure is read, and set again when I2C is done
Resolved == [gain |-> ResolvedGain(dev.gain), ms |-> ResolvedMs(dev.ms)]

Configure(exposure, works) ==
    dev' = IF works
           THEN [dev EXCEPT !.gain = exposure.gain, !.ms = exposure.ms, !.configured = TRUE]
           ELSE dev

\* refresh_indicator_led
LedFor(link, cfg) == link /\ cfg.led # OFF
RefreshLed == dev' = [dev EXCEPT !.led = LedFor(app.link, app.cfg)]

-----------------------------------------------------------------------------
(* Captures.                                                               *)

\* color_proc_capture_reset
CaptureFor(target) == [active |-> TRUE, target |-> target, samples |-> <<>>]

\* Mutant: a full capture goes on to grow.
CaptureAddBeyond(capture, processed) == [capture EXCEPT !.samples = Append(@, processed)]

\* color_proc_capture_add: a full capture drops its oldest sample
CaptureAdd(capture, processed) ==
    [capture EXCEPT !.samples =
        Append(IF Len(@) >= MaxSamples THEN Tail(@) ELSE @, processed)]

\* color_proc_capture_finalize_reference and _patch: a patch is made of processed samples
FinalizeReference(capture) == capture.samples # <<>>
FinalizePatch(capture) == \E i \in DOMAIN capture.samples : capture.samples[i]

\* A target that parse_target_token knows in this palette
IsTarget(target, palette) == target \in {DARK, WHITE} \cup 0 .. palette - 1

\* What a reference or a patch changes in the profile of a palette
WithTarget(cal, palette, target) ==
    CASE target = DARK -> [cal EXCEPT ![palette].dark = TRUE]
      [] target = WHITE -> [cal EXCEPT ![palette].white = TRUE]
      [] OTHER -> [cal EXCEPT ![palette].measured = @ \cup {target}]

\* comm_commit_cal_target
CommitTarget(target) ==
    LET capture == app.capture
        fits == /\ capture.active /\ capture.target = target /\ capture.samples # <<>>
                /\ IF target \in {DARK, WHITE} THEN FinalizeReference(capture)
                   ELSE FinalizePatch(capture)
    IN  IF IsTarget(target, app.cfg.palette) /\ fits
        THEN /\ app' = [app EXCEPT !.cal = WithTarget(@, app.cfg.palette, target),
                                   !.capture = NoCapture]
             /\ Executes("DATA")
        ELSE UNCHANGED app /\ Executes("ERR")

-----------------------------------------------------------------------------
(* try_apply_color_command.                                                *)

ColorReads == {"GET DATA", "GET TELEM", "GET CFG", "GET INFO", "GET CAL", "GET CAL PATCH"}

\* A number keeps the low bits that its field has room for.  NAME, CONF_TH,
\* TARGET_CLEAR, PATCH_SAMPLES and CLASSIFIER are left out: no property is about them.
ColorCfgWith(cfg, key, v) ==
    CASE key = "GAIN" -> [cfg EXCEPT !.gain = v % 65536]
      [] key = "INTEGRATION_MS" -> [cfg EXCEPT !.ms = v % 65536]
      [] key = "GAIN_MODE" -> [cfg EXCEPT !.mode = v]
      [] key = "LED" -> [cfg EXCEPT !.led = v]
      [] key = "PALETTE_MODE" -> [cfg EXCEPT !.palette = v % 256]
      [] key = "SAMPLE_MS" -> [cfg EXCEPT !.period = v]

\* Tokens that name no mode are refused
TokenFits(key, v) ==
    CASE key = "GAIN_MODE" -> v \in GainModes
      [] key = "LED" -> v \in {OFF, ON, AUTO}
      [] OTHER -> TRUE

\* The commands on the configuration.  LED is SET CFG LED.
ColorCfgCommand(f) ==
    \/ /\ \/ IsCommand(f, "SET CFG") /\ TokenFits(f.c[2][1], f.c[2][2])
          \/ IsCommand(f, "LED")
       /\ LET change == IF f.c[1] = "LED" THEN <<"LED", f.c[2]>> ELSE f.c[2]
          IN  comm' = [pc |-> "expose", f |-> f,
                       cfg |-> ColorSanitized(ColorCfgWith(app.cfg, change[1], change[2]))]
       /\ UNCHANGED <<app, dev, task, wire, nvs>>
    \/ /\ IsCommand(f, "SET CFG") /\ ~TokenFits(f.c[2][1], f.c[2][2])
       /\ Executes("ERR") /\ UNCHANGED <<app, dev, nvs>>
    \/ /\ IsCommand(f, "RESET CFG")
       /\ app' = [app EXCEPT !.cfg = ColorDefaults]
       /\ comm' = [pc |-> "expose", f |-> f, cfg |-> ColorDefaults]
       /\ UNCHANGED <<dev, task, wire, nvs>>
    \/ /\ IsCommand(f, "SAVE CFG") /\ UNCHANGED <<app, dev>>
       /\ \E saved \in BOOLEAN :
             CommitFits("cfg", app.cfg, saved) /\ Executes(IF saved THEN "OK" ELSE "ERR")

\* The commands on a whole calibration
ColorCalCommand(f) ==
    /\ UNCHANGED dev
    /\ \/ /\ IsCommand(f, "RESET CAL") /\ UNCHANGED nvs    \* one palette, or 0: ALL
          /\ IF f.c[2] \in Palettes \cup {0}
             THEN app' = [app EXCEPT !.cal = [mode \in Palettes |->
                              IF f.c[2] \in {mode, 0} THEN DefaultProfile(mode) ELSE @[mode]]]
                  /\ Executes("OK")
             ELSE UNCHANGED app /\ Executes("ERR")
       \/ /\ IsCommand(f, "SAVE CAL") /\ UNCHANGED app
          /\ \E saved \in BOOLEAN :
                CommitFits("cal", app.cal, saved) /\ Executes(IF saved THEN "OK" ELSE "ERR")

\* A capture, as the sampling task sees it from its next sample on
ColorCaptureCommand(f) ==
    /\ UNCHANGED <<dev, nvs>>
    /\ \/ IsCommand(f, "START CAL")
          /\ app' = [app EXCEPT !.capture = CaptureFor(NONE)] /\ Executes("OK")
       \/ IsCommand(f, "STOP CAL")
          /\ app' = [app EXCEPT !.capture = NoCapture] /\ Executes("OK")

\* The commands on one target: SET CAL PATCH aims the capture, COMMIT CAL PATCH
\* ends it, SET CAL (DARK, WHITE and PROTO, of any palette) does without
ColorPatchCommand(f) ==
    /\ UNCHANGED <<dev, nvs>>
    /\ \/ IsCommand(f, "SET CAL PATCH")
          /\ IF IsTarget(f.c[2], app.cfg.palette)
             THEN app' = [app EXCEPT !.capture = CaptureFor(f.c[2])] /\ Executes("OK")
             ELSE UNCHANGED app /\ Executes("ERR")
       \/ IsCommand(f, "COMMIT CAL PATCH") /\ CommitTarget(f.c[2])
       \/ IsCommand(f, "SET CAL")
          /\ IF f.c[2][1] \in Palettes /\ IsTarget(f.c[2][2], f.c[2][1])
             THEN app' = [app EXCEPT !.cal = WithTarget(@, f.c[2][1], f.c[2][2])]
                  /\ Executes("OK")
             ELSE UNCHANGED app /\ Executes("ERR")

\* RUN SELFTEST samples like the sampling task does
ColorCommand(f) ==
    \/ \E text \in ColorReads :
          IsCommand(f, text) /\ Executes("DATA") /\ UNCHANGED <<app, dev, nvs>>
    \/ /\ IsCommand(f, "RUN SELFTEST")
       /\ comm' = [pc |-> IF dev.configured THEN "test" ELSE "probe", f |-> f, cfg |-> NoBlob]
       /\ UNCHANGED <<app, dev, task, wire, nvs>>
    \/ ColorCfgCommand(f) \/ ColorCalCommand(f)
    \/ ColorCaptureCommand(f) \/ ColorPatchCommand(f)

\* apply_sensor_exposure in the serial task; whether it works is not looked at
\* in comm_set_cfg_state and comm_reset_cfg, and ends the self-test
CommExpose ==
    /\ UNCHANGED <<app, task, nvs>>
    /\ \/ /\ comm.pc = "expose" /\ SetExposure(comm.cfg.gain, comm.cfg.ms)
          /\ comm' = [comm EXCEPT !.pc = "probe"] /\ UNCHANGED wire
       \/ /\ comm.pc = "probe"
          /\ comm' = [pc |-> "configure", f |-> comm.f, cfg |-> comm.cfg, exposure |-> Resolved]
          /\ UNCHANGED <<dev, wire>>
       \/ /\ comm.pc = "configure"
          /\ \E works \in BOOLEAN :
                /\ Configure(comm.exposure, works)
                /\ IF IsCommand(comm.f, "RUN SELFTEST")
                   THEN IF works THEN comm' = [pc |-> "test", f |-> comm.f, cfg |-> NoBlob]
                                      /\ UNCHANGED wire
                        ELSE Ends("DATA")
                   ELSE comm' = [pc |-> "cfg", f |-> comm.f, cfg |-> comm.cfg] /\ UNCHANGED wire

\* The sample of the self-test, whatever comes of it
CommTest == /\ comm.pc = "test" /\ Ends("DATA") /\ UNCHANGED <<app, dev, nvs>>

\* SET CFG takes effect after the exposure, RESET CFG did before; then the LED
CommCfgLed ==
    /\ UNCHANGED nvs
    /\ \/ /\ comm.pc = "cfg"
          /\ app' = IF IsCommand(comm.f, "RESET CFG") THEN app ELSE [app EXCEPT !.cfg = comm.cfg]
          /\ comm' = [pc |-> "led", f |-> comm.f]
          /\ UNCHANGED <<dev, task, wire>>
       \/ comm.pc = "led" /\ RefreshLed /\ Ends("DATA") /\ UNCHANGED app

-----------------------------------------------------------------------------
(* The link and the frames.                                                *)

\* set_link_active_state: the first byte lights the LED
ColorLinkActive ==
    /\ comm.pc = "idle" /\ ~wire.link /\ ~host.gone
    /\ wire' = [wire EXCEPT !.link = TRUE]
    /\ app' = [app EXCEPT !.link = TRUE]
    /\ dev' = [dev EXCEPT !.led = LedFor(TRUE, app.cfg)]
    /\ UNCHANGED <<task, comm, nvs>>

\* Mutant: a lost link is noted, and the LED left as it is.
ColorLinkTimeoutDark ==
    /\ LosesLink
    /\ UNCHANGED <<app, dev, task, comm, nvs>>

ColorLinkTimeout ==
    /\ LosesLink
    /\ app' = [app EXCEPT !.link = FALSE]
    /\ dev' = [dev EXCEPT !.led = FALSE]
    /\ UNCHANGED <<task, comm, nvs>>

ColorControlFrame(f) == HostFrame(f)

ColorStreamFrame(f) ==
    ColorCommand(f) \/ OtherFrame(f, IF f.c[1] \in TractionOut THEN "OK" ELSE "ERR")

ColorTelemetry == SendsTelemetry

ColorComm ==
    \/ \E f \in This.frames :
          /\ Hears(f) /\ wire.link
          /\ IF f.type = "HOST" THEN ColorControlFrame(f) ELSE ColorStreamFrame(f)
    \/ CommExpose \/ CommTest \/ CommCfgLed
    \/ ColorLinkActive \/ ColorLinkTimeout \/ ColorTelemetry

-----------------------------------------------------------------------------
(* color_sampling_task.                                                    *)

\* s_auto_exposure_steps
AutoExposureSteps == <<<<1, 24>>, <<1, 50>>, <<4, 24>>, <<1, 101>>, <<4, 50>>, <<16, 24>>,
                       <<1, 154>>, <<4, 101>>, <<16, 50>>, <<60, 24>>, <<4, 154>>, <<16, 101>>,
                       <<60, 50>>, <<16, 154>>, <<60, 101>>, <<60, 154>>, <<60, 240>>>>

\* find_exposure_index: the first of the nearest steps
Apart(a, b) == IF a > b THEN a - b ELSE b - a
Score(i, gain, ms) == 1000 * Apart(AutoExposureSteps[i][1], gain) + Apart(AutoExposureSteps[i][2], ms)

NearestStep ==
    [e \in Gains \X Times |->
        CHOOSE i \in DOMAIN AutoExposureSteps :
            \A j \in DOMAIN AutoExposureSteps :
                \/ Score(i, e[1], e[2]) < Score(j, e[1], e[2])
                \/ Score(i, e[1], e[2]) = Score(j, e[1], e[2]) /\ i <= j]

\* choose_auto_exposure_step: one step darker or brighter when the clear channel
\* is off the target by more than a third
ChosenStep(sample, clear) ==
    LET at == NearestStep[<<sample.gain, sample.ms>>]
        next == IF clear > TargetClear + TargetClear \div 3 THEN IF at > 1 THEN at - 1 ELSE at
                ELSE IF clear < TargetClear - TargetClear \div 3 /\ at < Len(AutoExposureSteps)
                     THEN at + 1 ELSE at
    IN  [gain |-> AutoExposureSteps[next][1], ms |-> AutoExposureSteps[next][2]]

\* The snapshot of the configuration and of the profile
ColorSnap ==
    /\ task.pc = "snap"
    /\ task' = [pc |-> "read", mode |-> app.cfg.mode, gain |-> app.cfg.gain, ms |-> app.cfg.ms,
                processed |-> app.cal[app.cfg.palette].dark /\ app.cal[app.cfg.palette].white,
                sample |-> NoBlob, next |-> NoBlob]
    /\ UNCHANGED <<app, dev, comm, wire, nvs>>

\* The exposure the driver notes
Noted == [gain |-> dev.gain, ms |-> dev.ms]

\* color_sensor_read_sample: the exposure of the sample is read before the sample,
\* and again after the probe of a sensor that was not configured
ColorRead ==
    /\ UNCHANGED <<app, comm, wire, nvs>>
    /\ \/ /\ task.pc = "read" /\ UNCHANGED dev
          /\ task' = [task EXCEPT !.pc = IF dev.configured THEN "sample" ELSE "identify",
                                  !.sample = Noted]
       \/ /\ task.pc = "identify" /\ UNCHANGED dev
          /\ task' = [task EXCEPT !.pc = "configure", !.sample = Resolved]
       \/ /\ task.pc = "configure"
          /\ \E works \in BOOLEAN :
                /\ Configure(task.sample, works)
                /\ task' = [task EXCEPT !.pc = IF works THEN "reread" ELSE "publish"]
       \/ /\ task.pc = "reread" /\ UNCHANGED dev
          /\ task' = [task EXCEPT !.pc = "sample", !.sample = Noted]

\* color_proc_process, and color_proc_capture_add under the lock
ColorProcess ==
    /\ task.pc = "sample" /\ UNCHANGED <<dev, comm, wire, nvs>>
    /\ \/ task' = [task EXCEPT !.pc = "publish"] /\ UNCHANGED app       \* no sample
       \/ /\ app' = IF app.capture.active /\ app.capture.target # NONE
                    THEN [app EXCEPT !.capture = CaptureAdd(@, task.processed)] ELSE app
          /\ task' = [task EXCEPT !.pc = IF task.mode = "AUTO" THEN "auto" ELSE "publish"]

\* The exposure of the next sample, and apply_sensor_exposure if it is another
ColorAuto ==
    /\ UNCHANGED <<app, comm, wire, nvs>>
    /\ \/ /\ task.pc = "auto"
          /\ \E clear \in This.scene :
                LET next == ChosenStep(task.sample, clear)
                IN  IF next = task.sample
                    THEN /\ task' = [task EXCEPT !.pc = "publish", !.gain = next.gain, !.ms = next.ms]
                         /\ UNCHANGED dev
                    ELSE /\ task' = [task EXCEPT !.pc = "probe", !.next = next]
                         /\ SetExposure(next.gain, next.ms)
       \/ /\ task.pc = "probe" /\ UNCHANGED dev
          /\ task' = [task EXCEPT !.pc = "apply", !.sample = Resolved]
       \/ /\ task.pc = "apply"
          /\ \E works \in BOOLEAN :
                /\ Configure(task.sample, works)
                /\ task' = [task EXCEPT !.pc = "publish",
                                        !.gain = IF works THEN task.next.gain ELSE @,
                                        !.ms = IF works THEN task.next.ms ELSE @]

\* The last critical section: the exposure of the pass goes into the configuration
ColorPublish ==
    /\ task.pc = "publish"
    /\ app' = [app EXCEPT !.cfg.gain = task.gain, !.cfg.ms = task.ms]
    /\ task' = ColorTaskAtStart
    /\ UNCHANGED <<dev, comm, wire, nvs>>

ColorTask == ColorSnap \/ ColorRead \/ ColorProcess \/ ColorAuto \/ ColorPublish
=============================================================================
