----------------------------- MODULE LineSensor -----------------------------
(***************************************************************************)
(* The line sensor board (line_sensor_module).                             *)
(*                                                                         *)
(* A calibration is a minimum and a maximum per channel.  It is kept in    *)
(* the driver (dev.cal), where a capture widens it sample by sample, in    *)
(* s_app (app.cal), from which commands read it, and in flash; the         *)
(* sampling task carries the driver's copy to s_app, and after a capture   *)
(* to flash.                                                               *)
(***************************************************************************)
EXTENDS SensorBoard

CONSTANT Channels      \* the reflectance sensors; the scene is in 0 .. RAW_MAX

ASSUME LineAssumption == Channels # {}

RAW_MAX == 4095        \* of a reading
Calibrations == [Channels -> (0 .. UINT16_MAX) \X (0 .. RAW_MAX)]

\* Readings have 12 bits; what is stored was saved by this firmware, with or without
\* a name; SET CFG names a field, and the arguments of a number are numbers
ASSUME LineSessions ==
    \A s \in DOMAIN Sessions : Sessions[s].board = "line" =>
        LET flash == Sessions[s].nvs
        IN  /\ Sessions[s].scene \subseteq 0 .. RAW_MAX
            /\ flash.cal # NoBlob => flash.cal[1] \in Calibrations
            /\ flash.cfg # NoBlob => flash.cfg[1].level \in 5 .. 95 /\ flash.cfg[1].time >= 100
            /\ \A f \in Sessions[s].frames :
                  /\ f.c[1] = "SET CAL" => {f.c[2][2], f.c[2][3]} \subseteq Int
                  /\ f.c[1] = "SET CFG" =>
                        /\ f.c[2][1] \in {"TRACK", "CAL_TIME_MS", "LEVEL", "NAME"}
                        /\ f.c[2][1] = "LEVEL" => f.c[2][2] \in Int

-----------------------------------------------------------------------------
(* Calibrations.                                                           *)

DefaultCal == [ch \in Channels |-> <<0, RAW_MAX>>]
CaptureExtremes == [ch \in Channels |-> <<UINT16_MAX, 0>>]

\* calibration_sanitize
Sanitized(cal) ==
    [ch \in Channels |-> IF cal[ch][2] <= cal[ch][1] THEN <<0, RAW_MAX>> ELSE cal[ch]]

\* The loop of ls_sensor_sample over the readings of one pass
Widened(cal, raw) ==
    [ch \in Channels |-> <<IF raw[ch] < cal[ch][1] THEN raw[ch] ELSE cal[ch][1],
                           IF raw[ch] > cal[ch][2] THEN raw[ch] ELSE cal[ch][2]>>]

\* The bounds SET CAL checks
CalFits(ch, lo, hi) == ch \in Channels /\ lo >= 0 /\ hi <= RAW_MAX /\ hi > lo

\* apply_default_cfg; the checks of the command
LineDefaults == [track |-> 0, level |-> 45, time |-> 3000, name |-> "line-sensor-esp"]

LineCfgFits(key, v) ==
    CASE key = "TRACK" -> v \in 0 .. 1
      [] key = "CAL_TIME_MS" -> v >= 100
      [] OTHER -> TRUE

\* comm_set_cfg_state.  LEVEL is DIGITAL_TH and DETECT_TH in hundredths: a NaN, which
\* the code's clamps let through, is outside this model.
LineCfgWith(cfg, key, v) ==
    CASE key = "TRACK" -> [cfg EXCEPT !.track = v]
      [] key = "CAL_TIME_MS" -> [cfg EXCEPT !.time = v]
      [] key = "LEVEL" -> [cfg EXCEPT !.level = Within(5, 95, v)]   \* both thresholds
      [] key = "NAME" -> [cfg EXCEPT !.name = IF v = "" THEN LineDefaults.name ELSE v]

-----------------------------------------------------------------------------
(* Boot.                                                                   *)

\* ls_storage_load_cfg: the first layout had no name
LineLoadCfg(stored) ==
    IF stored = NoBlob THEN LineDefaults
    ELSE LET blob == stored[1]
         IN  [track |-> blob.track, level |-> blob.level, time |-> blob.time,
              name |-> IF blob.ver = 1 THEN LineDefaults.name ELSE blob.name]

\* ls_storage_save_cfg
LineBlob(cfg) == [ver |-> 2, track |-> cfg.track, level |-> cfg.level,
                  time |-> cfg.time, name |-> cfg.name]

LineTaskAtStart == [pc |-> "sample", cal |-> NoBlob, on |-> FALSE]

\* app_main: s_app keeps the stored calibration as it is, the driver sanitizes it
LineBoot(n) ==
    LET cal == IF n.cal = NoBlob THEN DefaultCal ELSE n.cal[1]
    IN  [app  |-> [cfg |-> LineLoadCfg(n.cfg), cal |-> cal, on |-> FALSE],
         dev  |-> [cal |-> Sanitized(cal), on |-> FALSE, done |-> FALSE],
         task |-> LineTaskAtStart]

-----------------------------------------------------------------------------
(* Commands.                                                               *)

LineReads == {"GET DATA", "GET TELEM", "GET CFG", "GET CAL", "GET INFO", "GET VERSION"}

\* ls_sensor_start_calibration, with the time the configuration gives
StartCal == dev' = [cal |-> CaptureExtremes, on |-> TRUE, done |-> FALSE]

\* Mutant: a capture that is stopped is not marked as done.
StopCalQuietly == dev' = [cal |-> Sanitized(dev.cal), on |-> FALSE, done |-> FALSE]

\* ls_sensor_stop_calibration, keeping the data
StopCal == dev' = [cal |-> Sanitized(dev.cal), on |-> FALSE, done |-> TRUE]

\* ls_sensor_set_calibration
SetCal(cal) == dev' = [dev EXCEPT !.cal = Sanitized(cal)]

\* try_apply_line_sensor_command.  SET CAL edits the calibration of s_app; it
\* and the commands that write the calibration go on in the steps below.
LineCommand(f) ==
    \/ \E text \in LineReads :
          IsCommand(f, text) /\ Executes("DATA") /\ UNCHANGED <<app, dev, nvs>>
    \/ IsCommand(f, "START CAL") /\ StartCal /\ Executes("OK") /\ UNCHANGED <<app, nvs>>
    \/ IsCommand(f, "STOP CAL") /\ StopCal /\ Begins("get", f) /\ UNCHANGED <<app, nvs>>
    \/ IsCommand(f, "SAVE CAL") /\ Begins("get", f) /\ UNCHANGED <<app, dev, nvs>>
    \/ /\ IsCommand(f, "SAVE CFG")
       /\ \E saved \in BOOLEAN :
             /\ CommitFits("cfg", LineBlob(app.cfg), saved)
             /\ Executes(IF saved THEN "OK" ELSE "ERR")
       /\ UNCHANGED <<app, dev>>
    \/ /\ IsCommand(f, "SET CFG")
       /\ IF LineCfgFits(f.c[2][1], f.c[2][2])
          THEN app' = [app EXCEPT !.cfg = LineCfgWith(@, f.c[2][1], f.c[2][2])] /\ Executes("DATA")
          ELSE UNCHANGED app /\ Executes("ERR")
       /\ UNCHANGED <<dev, nvs>>
    \/ /\ IsCommand(f, "SET CAL") /\ UNCHANGED <<app, dev, nvs>>
       /\ IF CalFits(f.c[2][1], f.c[2][2], f.c[2][3])
          THEN /\ comm' = [pc |-> "set", f |-> f,
                           cal |-> [app.cal EXCEPT ![f.c[2][1]] = <<f.c[2][2], f.c[2][3]>>]]
               /\ wire' = [wire EXCEPT !.link = TRUE] /\ UNCHANGED task
          ELSE Executes("ERR")

\* comm_set_cal_state: to the driver
CommSet == /\ comm.pc = "set"
           /\ SetCal(comm.cal)
           /\ comm' = [pc |-> "get", f |-> comm.f]
           /\ UNCHANGED <<app, task, wire, nvs>>

\* comm_set_cal_state and persist_current_calibration: back from the driver
CommGet == /\ comm.pc = "get"
           /\ comm' = [pc |-> "put", f |-> comm.f, cal |-> dev.cal]
           /\ UNCHANGED <<app, dev, task, wire, nvs>>

\* Both: to s_app.  SET CAL ends here.
CommPut == /\ comm.pc = "put"
           /\ app' = [app EXCEPT !.cal = comm.cal]
           /\ IF IsCommand(comm.f, "SET CAL") THEN Ends("DATA")
              ELSE comm' = [comm EXCEPT !.pc = "save"] /\ UNCHANGED <<wire, task>>
           /\ UNCHANGED <<dev, nvs>>

\* ls_storage_save_cal.  STOP CAL is OK whatever comes of it.
CommSave == /\ comm.pc = "save"
            /\ \E saved \in BOOLEAN :
                  /\ CommitFits("cal", comm.cal, saved)
                  /\ Ends(IF saved \/ IsCommand(comm.f, "STOP CAL") THEN "OK" ELSE "ERR")
            /\ UNCHANGED <<app, dev>>

-----------------------------------------------------------------------------
(* Frames.                                                                 *)

\* handle_control_frame, handle_stream_frame
LineControlFrame(f) == HostFrame(f)

LineStreamFrame(f) ==
    LineCommand(f) \/ OtherFrame(f, IF f.c[1] \in TractionOut THEN "OK" ELSE "ERR")

\* maybe_send_stream_telemetry: every period the state as it is
LineTelemetry == SendsTelemetry

\* The link times out: nothing depends on it
LineLinkTimeout == LosesLink /\ UNCHANGED <<app, dev, task, comm, nvs>>

LineComm == \/ \E f \in This.frames :
                  Hears(f) /\ IF f.type = "HOST" THEN LineControlFrame(f) ELSE LineStreamFrame(f)
            \/ CommSet \/ CommGet \/ CommPut \/ CommSave
            \/ LineTelemetry \/ LineLinkTimeout

-----------------------------------------------------------------------------
(* line_sensor_task.                                                       *)

\* Mutant: a capture that ran out of time is left as it is.
SampleUnsanitized(raw, over) ==
    LET cal == Widened(dev.cal, raw)
    IN  dev' = IF ~dev.on THEN dev
               ELSE IF over THEN [cal |-> cal, on |-> FALSE, done |-> TRUE]
               ELSE [dev EXCEPT !.cal = cal]

\* ls_sensor_sample: the readings, folded in while a capture runs; the capture
\* ends with the first sample after its time.  A reading that fails ends the pass
\* with nothing changed.
SampleWith(raw, over) ==
    LET cal == Widened(dev.cal, raw)
    IN  dev' = IF ~dev.on THEN dev
               ELSE IF over THEN [cal |-> Sanitized(cal), on |-> FALSE, done |-> TRUE]
               ELSE [dev EXCEPT !.cal = cal]

LineSample(over) ==
    /\ task.pc = "sample"
    /\ \E raw \in [Channels -> This.scene] : SampleWith(raw, over)
    /\ task' = [task EXCEPT !.pc = "cal"]
    /\ UNCHANGED <<app, comm, wire, nvs>>

\* The driver's calibration, its state and the configuration, one by one
LineCopy ==
    /\ \/ task.pc = "cal" /\ task' = [task EXCEPT !.pc = "state", !.cal = dev.cal]
       \/ task.pc = "state" /\ task' = [task EXCEPT !.pc = "write", !.on = dev.on]
    /\ UNCHANGED <<app, dev, comm, wire, nvs>>

\* Mutant: only the state of the capture is published.
LinePublishState ==
    /\ task.pc = "write"
    /\ app' = [app EXCEPT !.on = task.on]
    /\ task' = [task EXCEPT !.pc = "done?", !.on = FALSE, !.cal = NoBlob]
    /\ UNCHANGED <<dev, comm, wire, nvs>>

\* The critical section that publishes the pass
LinePublish ==
    /\ task.pc = "write"
    /\ app' = [app EXCEPT !.cal = task.cal, !.on = task.on]
    /\ task' = [task EXCEPT !.pc = "done?", !.on = FALSE, !.cal = NoBlob]
    /\ UNCHANGED <<dev, comm, wire, nvs>>

\* ls_sensor_consume_calibration_done
LineConsume ==
    /\ task.pc = "done?"
    /\ task' = [task EXCEPT !.pc = IF dev.done THEN "get" ELSE "sample"]
    /\ dev' = [dev EXCEPT !.done = FALSE]
    /\ UNCHANGED <<app, comm, wire, nvs>>

\* persist_current_calibration, step by step
LinePersist ==
    /\ \/ /\ task.pc = "get"
          /\ task' = [task EXCEPT !.pc = "put", !.cal = dev.cal]
          /\ UNCHANGED <<app, nvs>>
       \/ /\ task.pc = "put"
          /\ app' = [app EXCEPT !.cal = task.cal]
          /\ task' = [task EXCEPT !.pc = "save"]
          /\ UNCHANGED nvs
       \/ /\ task.pc = "save"
          /\ \E saved \in BOOLEAN : CommitFits("cal", task.cal, saved)
          /\ task' = LineTaskAtStart
          /\ UNCHANGED app
    /\ UNCHANGED <<dev, comm, wire>>

LineTask == (\E over \in BOOLEAN : LineSample(over))
            \/ LineCopy \/ LinePublish \/ LineConsume \/ LinePersist
=============================================================================
