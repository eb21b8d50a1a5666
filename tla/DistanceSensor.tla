--------------------------- MODULE DistanceSensor ---------------------------
(***************************************************************************)
(* The ultrasonic distance board (distance_sensor_module).                 *)
(*                                                                         *)
(* The range limit is in two places, the configuration of s_app and the    *)
(* driver (dev.max), and both tasks write the second from their own copy   *)
(* of the first.  A mutex makes a measurement atomic (dev.holder); it is   *)
(* waited for at most 100 ms.  The median filter belongs to the sampling   *)
(* task (task.ring); task.recent is a history variable: the valid readings *)
(* since the window was last changed, at most a window of them.            *)
(***************************************************************************)
EXTENDS SensorBoard, Sequences, Functions

DS_SENSOR_MIN_DISTANCE_MM == 20
DS_SENSOR_MAX_DISTANCE_MM == 4000
Windows == {1, 3, 5, 7}

\* Echoes are numbers, SET CFG names a field of the configuration, and a stored
\* one has them all
ASSUME DistanceSessions ==
    \A s \in DOMAIN Sessions : Sessions[s].board = "distance" =>
        LET flash == Sessions[s].nvs
        IN  /\ Sessions[s].scene \subseteq Int
            /\ flash.cfg # NoBlob => DOMAIN flash.cfg[1] = {"period", "max", "window", "name"}
            /\ \A f \in Sessions[s].frames :
                  f.c[1] = "SET CFG" => f.c[2][1] \in {"SAMPLE_MS", "MAX_MM", "FILTER", "NAME"}

-----------------------------------------------------------------------------
(* Configuration and boot.                                                 *)

\* apply_default_cfg
DistanceDefaults == [period |-> 100, max |-> 4000, window |-> 3, name |-> "distance-sensor-esp"]

NoName == ""

\* cfg_is_valid
DistanceCfgIsValid(cfg) ==
    /\ cfg.period \in 60 .. 2000
    /\ cfg.max \in DS_SENSOR_MIN_DISTANCE_MM .. DS_SENSOR_MAX_DISTANCE_MM
    /\ cfg.window \in Windows
    /\ cfg.name # NoName

\* The field of SET CFG
DistanceCfgWith(cfg, key, v) ==
    CASE key = "SAMPLE_MS" -> [cfg EXCEPT !.period = v]
      [] key = "MAX_MM" -> [cfg EXCEPT !.max = v]
      [] key = "FILTER" -> [cfg EXCEPT !.window = v]
      [] key = "NAME" -> [cfg EXCEPT !.name = v]

\* ds_proc_init: an empty filter
Filter(window) == [window |-> window, ring |-> [i \in 1 .. window |-> 0],
                   count |-> 0, at |-> 1, recent |-> <<>>]

\* ds_storage_load_cfg: a blob of another version or length is no configuration
DistanceLoadCfg(stored) ==
    IF stored # NoBlob => ~DistanceCfgIsValid(stored[1])
    THEN [cfg |-> DistanceDefaults, loaded |-> FALSE]
    ELSE [cfg |-> stored[1], loaded |-> TRUE]

NoResult == [health |-> "NO_ECHO", raw |-> -1, filtered |-> -1]

\* app_main: the driver starts with the limit of the configuration
DistanceBoot(n) ==
    LET start == DistanceLoadCfg(n.cfg)
    IN  [app  |-> [cfg |-> start.cfg, loaded |-> start.loaded, result |-> NoResult],
         dev  |-> [max |-> start.cfg.max, holder |-> "none"],
         task |-> [pc |-> "cfg", cfg |-> NoBlob, applied |-> start.cfg.max, sample |-> NoResult,
                   proc |-> Filter(start.cfg.window)]]

-----------------------------------------------------------------------------
(* The driver.                                                             *)

\* ds_sensor_set_max_distance: in the mutex, or not at all after 100 ms
SetMax(mm) == dev.holder = "none" /\ dev' = [dev EXCEPT !.max = mm]
TakeTimesOut == dev.holder # "none" /\ UNCHANGED dev

\* ds_sensor_measure: the mutex is held from the trigger to the echo
Take(who) == dev.holder = "none" /\ dev' = [dev EXCEPT !.holder = who]
Give == dev' = [dev EXCEPT !.holder = "none"]

\* A completed echo of so many mm, classified under the limit of the driver
Sampled(mm) == [health |-> IF mm < DS_SENSOR_MIN_DISTANCE_MM THEN "BELOW_MIN"
                           ELSE IF mm > dev.max THEN "ABOVE_MAX" ELSE "VALID",
                raw |-> mm]

\* What the interrupt and the deadline leave: an echo, none, or a line that stays high
Samples == {Sampled(mm) : mm \in This.scene}
           \cup [health : {"NO_ECHO", "ECHO_STUCK"}, raw : {-1}]

Stuck == [health |-> "ECHO_STUCK", raw |-> -1]

-----------------------------------------------------------------------------
(* The filter.                                                             *)

\* median_of_values: it sorts a copy and takes the upper one of an even count
Sorts(order, values) ==
    \A i, j \in DOMAIN values : i < j => values[order[i]] <= values[order[j]]
SortingOrder(values) ==
    CHOOSE order \in Bijection(DOMAIN values, DOMAIN values) : Sorts(order, values)
Median(values) == values[SortingOrder(values)[Len(values) \div 2 + 1]]

\* Mutant: a new window keeps the count and the index.
SetFilterWindowOnly(proc, window) ==
    IF proc.window = window THEN proc
    ELSE [Filter(window) EXCEPT !.count = IF proc.count > window THEN window ELSE proc.count]

\* ds_proc_set_filter_window: a new window forgets the readings
SetFilterWindow(proc, window) == IF proc.window = window THEN proc ELSE Filter(window)

\* ds_proc_process: a valid reading goes in the ring; any other leaves it alone
Filtered(proc, mm) ==
    [proc EXCEPT !.ring[proc.at] = mm,
                 !.at = (proc.at % proc.window) + 1,
                 !.count = IF @ < proc.window THEN @ + 1 ELSE @,
                 !.recent = IF Len(@) < proc.window THEN Append(@, mm) ELSE Append(Tail(@), mm)]

RingValues(proc) == SubSeq(proc.ring, 1, proc.count)

-----------------------------------------------------------------------------
(* try_apply_command.                                                      *)

DistanceReads == {"GET DATA", "GET TELEM", "GET CFG", "GET INFO"}

DistanceCommand(f) ==
    \/ \E text \in DistanceReads :
          IsCommand(f, text) /\ Executes("DATA") /\ UNCHANGED <<app, dev, nvs>>
    \/ IsCommand(f, "RUN SELFTEST") /\ Begins("test", f) /\ UNCHANGED <<app, dev, nvs>>
    \/ IsCommand(f, "SAVE CFG") /\ Begins("save", f) /\ UNCHANGED <<app, dev, nvs>>
    \/ IsCommand(f, "RESET CFG") /\ Begins("max", f) /\ UNCHANGED <<app, dev, nvs>>
    \/ /\ IsCommand(f, "SET CFG") /\ UNCHANGED <<app, dev, nvs>>
       /\ IF DistanceCfgIsValid(DistanceCfgWith(app.cfg, f.c[2][1], f.c[2][2]))
          THEN Begins("max", f) ELSE Executes("ERR")

\* What SET CFG and RESET CFG leave
NextCfg(f) == IF IsCommand(f, "RESET CFG") THEN DistanceDefaults
              ELSE DistanceCfgWith(app.cfg, f.c[2][1], f.c[2][2])

\* comm_set_cfg_state and comm_reset_cfg: first the driver
CommMax ==
    /\ comm.pc = "max" /\ UNCHANGED <<app, task, nvs>>
    /\ \/ SetMax(NextCfg(comm.f).max) /\ comm' = [comm EXCEPT !.pc = "cfg"] /\ UNCHANGED wire
       \/ TakeTimesOut /\ Ends("ERR")

\* and then the configuration
CommCfg ==
    /\ comm.pc = "cfg" /\ UNCHANGED <<dev, nvs>>
    /\ app' = [app EXCEPT !.cfg = NextCfg(comm.f),
                          !.loaded = @ /\ ~IsCommand(comm.f, "RESET CFG")]
    /\ Ends("DATA")

\* comm_save_cfg: the flag only after a commit
CommStore ==
    /\ UNCHANGED <<dev, task>>
    /\ \/ /\ comm.pc = "save" /\ UNCHANGED app
          /\ \E saved \in BOOLEAN :
                /\ CommitFits("cfg", app.cfg, saved)
                /\ IF saved THEN comm' = [comm EXCEPT !.pc = "mark"] /\ UNCHANGED wire
                   ELSE Ends("ERR")
       \/ /\ comm.pc = "mark" /\ UNCHANGED nvs
          /\ app' = [app EXCEPT !.loaded = TRUE]
          /\ Ends("OK")

\* comm_run_selftest: a failure to set the limit is ignored
CommSelftest ==
    /\ UNCHANGED <<app, task, nvs>>
    /\ \/ /\ comm.pc = "test"
          /\ SetMax(app.cfg.max) \/ TakeTimesOut
          /\ comm' = [comm EXCEPT !.pc = "take"] /\ UNCHANGED wire
       \/ /\ comm.pc = "take"
          /\ \/ Take("comm") /\ comm' = [comm EXCEPT !.pc = "echo"] /\ UNCHANGED wire
             \/ TakeTimesOut /\ Ends("DATA")
       \/ /\ comm.pc = "echo" /\ Give /\ Ends("DATA")

\* handle_control_frame, handle_stream_frame
DistanceControlFrame(f) == HostFrame(f)

DistanceStreamFrame(f) == DistanceCommand(f) \/ OtherFrame(f, "ERR")

\* maybe_send_stream_telemetry: the last sample, if it is a new one
DistanceTelemetry == SendsTelemetry

\* The link times out: the parser starts anew and nothing else changes
DistanceLinkTimeout == LosesLink /\ UNCHANGED <<app, dev, task, comm, nvs>>

DistanceComm ==
    \/ \E f \in This.frames :
          Hears(f) /\ IF f.type = "HOST" THEN DistanceControlFrame(f) ELSE DistanceStreamFrame(f)
    \/ CommMax \/ CommCfg \/ CommStore \/ CommSelftest
    \/ DistanceTelemetry \/ DistanceLinkTimeout

-----------------------------------------------------------------------------
(* distance_sampling_task.                                                 *)

DistanceSnapshot == /\ task.pc = "cfg"
                    /\ task' = [task EXCEPT !.pc = "max", !.cfg = app.cfg]
                    /\ UNCHANGED <<app, dev, comm, wire, nvs>>

\* Mutant: the limit is noted as applied before the driver has it.
DistanceApplyOnce ==
    /\ task.pc = "max" /\ UNCHANGED <<app, comm, wire, nvs>>
    /\ LET proc == SetFilterWindow(task.proc, task.cfg.window)
           next == [task EXCEPT !.pc = "take", !.proc = proc, !.applied = task.cfg.max]
       IN  \/ task.applied = task.cfg.max /\ task' = next /\ UNCHANGED dev
           \/ task.applied # task.cfg.max /\ SetMax(task.cfg.max) /\ task' = next
           \/ task.applied # task.cfg.max /\ TakeTimesOut /\ task' = next

\* A limit that is not the one applied is set; if that fails, the next pass tries again
DistanceApply ==
    /\ task.pc = "max" /\ UNCHANGED <<app, comm, wire, nvs>>
    /\ LET proc == SetFilterWindow(task.proc, task.cfg.window)
           next == [task EXCEPT !.pc = "take", !.proc = proc]
       IN  \/ task.applied = task.cfg.max /\ task' = next /\ UNCHANGED dev
           \/ /\ task.applied # task.cfg.max /\ SetMax(task.cfg.max)
              /\ task' = [next EXCEPT !.applied = task.cfg.max]
           \/ task.applied # task.cfg.max /\ TakeTimesOut /\ task' = next

DistanceMeasure ==
    /\ UNCHANGED <<app, comm, wire, nvs>>
    /\ \/ /\ task.pc = "take"
          /\ \/ Take("task") /\ task' = [task EXCEPT !.pc = "echo"]
             \/ TakeTimesOut /\ task' = [task EXCEPT !.pc = "publish", !.sample = Stuck]
       \/ /\ task.pc = "echo" /\ Give
          /\ \E sample \in Samples : task' = [task EXCEPT !.pc = "publish", !.sample = sample]

\* ds_proc_process and the critical section that publishes the result
DistancePublish ==
    /\ task.pc = "publish" /\ UNCHANGED <<dev, comm, wire, nvs>>
    /\ LET valid == task.sample.health = "VALID"
           proc == IF valid THEN Filtered(task.proc, task.sample.raw) ELSE task.proc
       IN  /\ app' = [app EXCEPT !.result =
                         [health |-> task.sample.health, raw |-> task.sample.raw,
                          filtered |-> IF valid THEN Median(RingValues(proc)) ELSE -1]]
           /\ task' = [task EXCEPT !.pc = "cfg", !.cfg = NoBlob, !.sample = NoResult,
                                   !.proc = proc]

DistanceTask == DistanceSnapshot \/ DistanceApply \/ DistanceMeasure \/ DistancePublish
=============================================================================
