---------------------------- MODULE SensorBoards ----------------------------
(***************************************************************************)
(* The three sensor boards side by side, each with the host programs of    *)
(* its sessions, the loss of the host and of the supply, and what every    *)
(* board promises.                                                         *)
(***************************************************************************)
EXTENDS LineSensor, DistanceSensor, ColorSensor

On(board) == This.board = board

\* A board after power-up, with what its flash holds
Boots(board, n) == CASE board = "line" -> {LineBoot(n)}
                     [] board = "distance" -> {DistanceBoot(n)}
                     [] board = "color" -> ColorBoots(n)

Init ==
    /\ session \in DOMAIN Sessions
    /\ nvs = This.nvs
    /\ \E b \in Boots(This.board, nvs) : app = b.app /\ dev = b.dev /\ task = b.task
    /\ comm = Idle /\ wire = WireAtStart
    /\ host = [gone |-> FALSE, boots |-> 0]

\* Power is lost and comes back: only the flash is left
Restart ==
    /\ host.boots < This.boots
    /\ host' = [host EXCEPT !.boots = @ + 1]
    /\ \E b \in Boots(This.board, nvs) : app' = b.app /\ dev' = b.dev /\ task' = b.task
    /\ comm' = Idle /\ wire' = WireAtStart
    /\ UNCHANGED <<session, nvs>>

CommStep == \/ On("line") /\ LineComm /\ HostStays
            \/ On("distance") /\ DistanceComm /\ HostStays
            \/ On("color") /\ ColorComm /\ HostStays

TaskStep == \/ On("line") /\ LineTask /\ HostStays
            \/ On("distance") /\ DistanceTask /\ HostStays
            \/ On("color") /\ ColorTask /\ HostStays

LinkTimeout == \/ On("line") /\ LineLinkTimeout /\ HostStays
               \/ On("distance") /\ DistanceLinkTimeout /\ HostStays
               \/ On("color") /\ ColorLinkTimeout /\ HostStays

Next == CommStep \/ TaskStep \/ HostIsGone \/ Restart

\* The two tasks have one priority and share the core in time slices, so both go
\* on.  A handler that has begun ends, a capture meets a sample after its time,
\* and the link times out for certain once the host has gone.
CaptureEnds == On("line") /\ LineSample(TRUE) /\ HostStays

Fairness == /\ WF_boardVars(TaskStep)
            /\ WF_boardVars(comm.pc # "idle" /\ CommStep)
            /\ SF_boardVars(CaptureEnds)
            /\ WF_boardVars(host.gone /\ LinkTimeout)

Spec == Init /\ [][Next]_boardVars /\ Fairness

-----------------------------------------------------------------------------
(* Properties.                                                             *)

LineTypeOK == /\ app.cal \in Calibrations /\ dev.cal \in Calibrations
              /\ {app.on, dev.on, dev.done} \subseteq BOOLEAN
              /\ app.cfg.level \in 5 .. 95 /\ app.cfg.time >= 100

DistanceTypeOK == /\ DistanceCfgIsValid(app.cfg) /\ app.loaded \in BOOLEAN
                  /\ dev.max \in DS_SENSOR_MIN_DISTANCE_MM .. DS_SENSOR_MAX_DISTANCE_MM
                  /\ dev.holder \in {"none", "comm", "task"}
                  /\ task.proc.at \in DOMAIN task.proc.ring
                  /\ task.proc.count \in 0 .. task.proc.window

ColorTypeOK == /\ app.cfg = ColorSanitized(app.cfg)
               /\ \A mode \in Palettes : app.cal[mode].measured \subseteq 0 .. mode - 1
               /\ Len(app.capture.samples) <= MaxSamples
               /\ {dev.led, dev.configured, app.link} \subseteq BOOLEAN

\* Types, and the ranges the handlers and the driver keep to.
TypeOK == /\ On("line") => LineTypeOK
          /\ On("distance") => DistanceTypeOK
          /\ On("color") => ColorTypeOK
          /\ {wire.link, wire.stream, host.gone, nvs.works} \subseteq BOOLEAN
          /\ host.boots \in 0 .. This.boots

\* Outside a capture every channel of the driver has a minimum below its maximum:
\* ls_proc divides by the difference.  A capture may end with a sample, with STOP
\* CAL or with a power loss, after no sample at all, or after equal readings.
CalibrationUsable ==
    On("line") /\ ~dev.on => \A ch \in Channels : dev.cal[ch][1] < dev.cal[ch][2]

\* When the host has gone a capture ends, and the calibration commands read is
\* that of the driver, whichever task copied it last.
CalibrationSettles ==
    <>[](host.gone /\ On("line") => app.cal = dev.cal /\ ~dev.on /\ ~dev.done)

UsesNo(texts) == \A f \in This.frames : f.c[1] \notin texts

\* The calibration in flash is the one in use when the host has gone, however
\* the saves of the two tasks cross: a capture that ends is saved after the save
\* of an earlier one.  SAVE CAL and SET CAL give no such promise.
CaptureIsKept ==
    <>[](/\ host.gone /\ On("line")
         /\ nvs.works /\ UsesNo({"SAVE CAL", "SET CAL"}) /\ nvs.cal # NoBlob
         => Sanitized(nvs.cal[1]) = dev.cal)

\* How often a sequence has a value below m, and one of at most m
IsMedian(m, values) ==
    LET below == {i \in DOMAIN values : values[i] < m}
        upTo == {i \in DOMAIN values : values[i] <= m}
    IN  Cardinality(below) <= Len(values) \div 2 /\ Cardinality(upTo) > Len(values) \div 2

\* A filtered distance is the median of the valid readings since the window was
\* set, of the last window of them: never of a slot of the ring not yet written.
MedianOfRecent ==
    On("distance") /\ task.pc \in {"cfg", "max"} /\ app.result.filtered # -1 =>
        IsMedian(app.result.filtered, task.proc.recent)

\* The limit of the driver ends up the configured one, though both tasks write it
\* from copies and may time out on its mutex.
RangeLimitSettles == <>[](host.gone /\ On("distance") => dev.max = app.cfg.max)

\* Between commands the LED is lit exactly while a host is heard and the mode is
\* not OFF, whichever command changed the mode.
LedFollowsHost ==
    On("color") /\ comm.pc = "idle" => (dev.led <=> app.link /\ app.cfg.led # OFF)

\* When the host has gone the LED goes out for good.
LedGoesOut == <>[](host.gone /\ On("color") => ~dev.led)
=============================================================================
