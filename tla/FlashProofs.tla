----------------------------- MODULE FlashProofs -----------------------------
(***************************************************************************)
(* What a flash can meet in Keepalive: for any number of calls, workers,   *)
(* attempts and threads that attach, detach, stop and resume, and whether  *)
(* or not a join may give up.                                              *)
(*                                                                         *)
(* FlashExclusive itself is not a theorem: the udev thread may be joining  *)
(* the worker that the flash then cannot find (run flash_vs_udev).  What   *)
(* holds is that such a worker is on its way out, and that it is there     *)
(* because somebody else waits for it.                                     *)
(***************************************************************************)
EXTENDS KeepaliveProofs

Flashes == {"flash", "flashByNode"}

\* At most one thread flashes the device: a second one would take the lock of
\* the first away with its own unlock.
OneFlasher ==
    \A s, t \in Supervisors :
        Ops[s] \cap Flashes # {} /\ Ops[t] \cap Flashes # {} => s = t

\* When flash_firmware runs esptool, a worker that still has the port was told to
\* stop or is leaving; and, unless joins give up, another thread is joining it.
FlashMeetsOnlyStopped ==
    \A s \in Supervisors, w \in Workers :
        spc[s] = "flashing" /\ op[s] = "flash" /\ w \in holders =>
            /\ stop[w] \/ wpc[w] = "leaving"
            /\ ~JoinExpires => \E t \in Supervisors \ {s} : target[t] = w

-----------------------------------------------------------------------------
(* The inductive invariant. *)

\* From flash_firmware's lock to its unlock.
FlashPCs == {"snapshot", "rejoin", "esptool", "flashing", "unlock"}
Flashing(s) == op[s] = "flash" /\ spc[s] \in FlashPCs \cup {"unregister", "join", "sweep"}

\* flash_firmware has popped the registered worker; it has joined it
Popped(s) == Flashing(s) /\ spc[s] \in {"join", "sweep", "rejoin", "esptool", "flashing"}
Joined(s) == Flashing(s) /\ spc[s] \in {"sweep", "rejoin", "esptool", "flashing"}

\* A worker that has no port, and looks at the lock before it opens one.
Quiet(w) == w \notin holders /\ wpc[w] \in {"dead", "top", "lockCheck", "leaving"}

\* The operation and the joined worker go with the place of the supervisor.
PlacesAgree ==
    \A s \in Supervisors :
        /\ op[s] # None => op[s] \in Ops[s]
        /\ spc[s] # "idle" => op[s] # None
        /\ spc[s] \in {"lockCheck", "mark"} => op[s] \notin Flashes
        /\ spc[s] \in FlashPCs \cup {"lock"} => op[s] \in Flashes
        /\ spc[s] # "join" => target[s] = None
        /\ Flashing(s) => locked

OnlyLiveHold == \A w \in Workers : w \in holders => Alive(w)

\* A live worker is the registered one, or one that is joined.
LiveIsKnown ==
    ~JoinExpires => \A w \in Workers : Alive(w) =>
        registered = w \/ \E t \in Supervisors : target[t] = w

\* Once a flash has unregistered the worker, whatever is not quiet was told to
\* stop or leaves ...
OthersStopped ==
    \A s \in Supervisors : Popped(s) =>
        \A w \in Workers : Quiet(w) \/ stop[w] \/ wpc[w] = "leaving"

\* ... and is joined by a thread, and by another one once the flash has joined its
\* own.
OthersJoined ==
    ~JoinExpires => \A s \in Supervisors, w \in Workers : Popped(s) =>
        \/ Quiet(w)
        \/ spc[s] = "join" /\ w = target[s]
        \/ \E t \in Supervisors \ {s} : target[t] = w

FlashInv == PlacesAgree /\ OnlyLiveHold /\ LiveIsKnown /\ OthersStopped /\ OthersJoined

\* What TypeOK and ConstantsAssumption say of the variables of FlashInv.
FlashTypes ==
    /\ wpc \in [Workers -> WorkerPCs]
    /\ stop \in [Workers -> BOOLEAN]
    /\ registered \in Workers \cup {None}
    /\ spc \in [Supervisors -> SuperPCs]
    /\ op \in [Supervisors -> OpNames \cup {None}]
    /\ target \in [Supervisors -> Workers \cup {None}]
    /\ None \notin Workers \cup OpNames /\ None # "flash" /\ None # "flashByNode"
    /\ Workers \cap Supervisors = {}

LEMMA TypesOfFlash == TypeOK => FlashTypes
  BY ConstantsAssumption DEF ConstantsAssumption, Actors, FlashTypes, TypeOK, OpNames

LEMMA FlashInit == Init => FlashInv
<1> SUFFICES ASSUME Init PROVE FlashInv
  OBVIOUS
<1>1. FlashTypes
  BY TypeInit, TypesOfFlash
<1> QED BY <1>1 DEF Init, FlashInv, FlashTypes, PlacesAgree, OnlyLiveHold, LiveIsKnown,
           OthersStopped, OthersJoined, Popped, Flashing, FlashPCs, Alive

-----------------------------------------------------------------------------
(* Workers. *)

\* The step of a worker changes its own place, its own hold on the port and its
\* own stop event; it stays quiet while the lock is there, closes the port before
\* it ends, and neither forgets that it was told to stop nor turns back.
WorkerMoves(w) ==
    /\ UNCHANGED <<locked, spc, op, target>>
    /\ wpc[w] # "dead"
    /\ \A v \in Workers : v # w => /\ wpc'[v] = wpc[v] /\ stop'[v] = stop[v]
                                   /\ (v \in holders' <=> v \in holders)
    /\ registered' = registered \/ (registered = w /\ wpc'[w] = "dead")
    /\ wpc'[w] = "dead" => w \notin holders'
    /\ locked /\ Quiet(w) => w \notin holders' /\ wpc'[w] \in {"dead", "top", "lockCheck", "leaving"}
    /\ stop[w] => stop'[w] \/ wpc'[w] = "dead"
    /\ wpc[w] = "leaving" => wpc'[w] \in {"leaving", "dead"}

LEMMA WorkerStepMoves ==
  ASSUME FlashTypes, NEW w \in Workers, WorkerStep(w)
  PROVE  WorkerMoves(w)
<1> USE DEF WorkerMoves, FlashTypes, Quiet, WGoto, calls, workers, supers
<1>1. CASE WorkerTop(w)        BY <1>1 DEF WorkerTop, Leave
<1>2. CASE WorkerPort(w)       BY <1>2 DEF WorkerPort, OpenFails, Release
<1>3. CASE WorkerHandshake(w)  BY <1>3 DEF WorkerHandshake, OpenFails, Release
<1>4. CASE WorkerTake(w)       BY <1>4 DEF WorkerTake
<1>5. CASE WorkerIdle(w)       BY <1>5 DEF WorkerIdle
<1>6. CASE WorkerSend(w)       BY <1>6 DEF WorkerSend
<1>7. CASE WorkerComplete(w)   BY <1>7 DEF WorkerComplete
<1>8. CASE WorkerException(w)  BY <1>8 DEF WorkerException
<1>9. CASE WorkerRecovered(w)  BY <1>9 DEF WorkerRecovered, Release
<1>10. CASE WorkerEnd(w)       BY <1>10 DEF WorkerEnd, Release
<1>11. CASE WorkerSweeping(w) /\ (CancelPop(w) \/ CancelComplete(w))
  BY <1>11 DEF WorkerSweeping, CancelPop, CancelComplete
<1>12. CASE WorkerLockCheck(w) BY <1>12 DEF WorkerLockCheck, Leave
<1>13. CASE WorkerRefresh(w)   BY <1>13 DEF WorkerRefresh, Leave
<1> QED BY <1>1, <1>2, <1>3, <1>4, <1>5, <1>6, <1>7, <1>8, <1>9, <1>10, <1>11, <1>12, <1>13
        DEF WorkerStep

LEMMA WorkerKeepsFlash ==
  ASSUME FlashTypes, FlashInv, NEW w \in Workers, WorkerMoves(w)
  PROVE  FlashInv'
<1> USE DEF FlashTypes, FlashInv, WorkerMoves
<1>1. PlacesAgree'
  BY DEF PlacesAgree, Flashing
<1>2. OnlyLiveHold' /\ LiveIsKnown'
  BY DEF OnlyLiveHold, LiveIsKnown, Alive
<1>3. \A s \in Supervisors : Popped(s)' = Popped(s) /\ (Popped(s) => locked)
  BY DEF Popped, Flashing, PlacesAgree
<1>4. \A v \in Workers : locked /\ Quiet(v) => Quiet(v)'
  BY DEF Quiet
<1>5. OthersStopped'
  <2> SUFFICES ASSUME NEW s \in Supervisors, Popped(s), NEW v \in Workers
               PROVE  (Quiet(v) \/ stop[v] \/ wpc[v] = "leaving")'
    BY <1>3 DEF OthersStopped
  <2>1. locked /\ (Quiet(v) \/ stop[v] \/ wpc[v] = "leaving")
    BY <1>3 DEF OthersStopped
  <2>2. CASE Quiet(v)
    BY <1>4, <2>1, <2>2
  <2>3. CASE v = w
    BY <2>1, <2>2, <2>3 DEF Quiet
  <2>4. CASE v # w
    BY <2>1, <2>2, <2>4
  <2> QED BY <2>3, <2>4
<1>6. OthersJoined'
  BY <1>3, <1>4 DEF OthersJoined
<1> QED BY <1>1, <1>2, <1>5, <1>6 DEF FlashInv

\* A new worker is quiet: the identity was dead, and its first look is at the lock.
\* A call starts it, or an operation that ends with that.
LEMMA StartKeepsFlash ==
  ASSUME FlashTypes, FlashInv, StartMonitor, UNCHANGED <<locked, target, holders>>,
         \A t \in Supervisors : \/ spc'[t] = spc[t] /\ op'[t] = op[t]
                                \/ spc[t] = "start" /\ spc'[t] = "idle" /\ op'[t] = None
  PROVE  FlashInv'
<1> USE DEF FlashTypes, FlashInv
<1>p. PlacesAgree' /\ \A t \in Supervisors : Popped(t)' => Popped(t) /\ spc'[t] = spc[t]
  BY DEF PlacesAgree, Popped, Flashing, FlashPCs
<1>1. CASE UNCHANGED <<registered, workers>>
  BY <1>p, <1>1 DEF workers, OnlyLiveHold, LiveIsKnown, OthersStopped, OthersJoined, Quiet, Alive
<1>2. CASE ~UNCHANGED <<registered, workers>>
  <2>1. ~(registered # None /\ Alive(registered))
    BY <1>2 DEF StartMonitor
  <2>2. PICK w \in Workers : /\ ~Alive(w) /\ registered' = w
                             /\ wpc' = [wpc EXCEPT ![w] = "top"] /\ stop' = stop
    BY <1>2 DEF StartMonitor
  <2>4. OnlyLiveHold' /\ LiveIsKnown'
    BY <2>1, <2>2 DEF OnlyLiveHold, LiveIsKnown, Alive
  <2>5. \A v \in Workers : Quiet(v) => Quiet(v)'
    BY <2>2 DEF Quiet
  <2>6. Quiet(w)'
    BY <2>2 DEF OnlyLiveHold, Quiet
  <2>7. OthersStopped' /\ OthersJoined'
    BY <1>p, <2>2, <2>5, <2>6 DEF OthersStopped, OthersJoined
  <2> QED BY <1>p, <2>4, <2>7
<1> QED BY <1>1, <1>2

-----------------------------------------------------------------------------
(* Supervisors. *)

\* The steps of a supervisor that touch neither a worker nor a flash under way:
\* where it goes must fit its operation.
LEMMA SuperMovesKeepFlash ==
  ASSUME FlashTypes, FlashInv, NEW s \in Supervisors,
         UNCHANGED <<registered, wpc, stop, target>>,
         \A w \in Workers : w \in holders' <=> w \in holders,
         \A t \in Supervisors : t # s => spc'[t] = spc[t] /\ op'[t] = op[t],
         PlacesAgree', Popped(s)' => Joined(s) /\ Joined(s)'
  PROVE  FlashInv'
<1> USE DEF FlashTypes, FlashInv
<1>1. OnlyLiveHold' /\ LiveIsKnown'
  BY DEF OnlyLiveHold, LiveIsKnown, Alive
<1>2. \A w \in Workers : Quiet(w)' = Quiet(w)
  BY DEF Quiet
<1>3. \A t \in Supervisors : Popped(t)' => Popped(t) /\ (spc'[t] = spc[t] \/ Joined(t))
  BY DEF Popped, Joined, Flashing
<1>4. OthersStopped'
  BY <1>2, <1>3 DEF OthersStopped
<1>5. OthersJoined'
  BY <1>2, <1>3 DEF OthersJoined, Joined
<1> QED BY <1>1, <1>4, <1>5

\* Nobody but the flasher touches the lock.
LEMMA LockIsTheFlashers ==
  ASSUME OneFlasher, FlashTypes, PlacesAgree, NEW s \in Supervisors,
         op[s] \in Flashes, NEW t \in Supervisors, t # s
  PROVE  ~Flashing(t)
BY DEF OneFlasher, FlashTypes, PlacesAgree, Flashing, Flashes

LEMMA UnregisterKeepsFlash ==
  ASSUME FlashTypes, FlashInv, NoOrphanWorker, NEW s \in Supervisors, SuperUnregister(s)
  PROVE  FlashInv'
<1> USE DEF FlashTypes, FlashInv
<1>1. /\ UNCHANGED <<locked, op, wpc, holders>> /\ spc[s] = "unregister"
      /\ op[s] # None
      /\ spc' = [spc EXCEPT ![s] = "join"] /\ target[s] = None
      /\ target' = [target EXCEPT ![s] = registered] /\ registered' = None
      /\ stop' = [w \in Workers |-> stop[w] \/ w = registered]
  <2>1. op' = op /\ spc' = [spc EXCEPT ![s] = "join"]
    BY DEF SuperUnregister, SGoto
  <2> QED BY <2>1 DEF SuperUnregister, PlacesAgree
<1>2. PlacesAgree'
  BY <1>1 DEF PlacesAgree, Flashing, FlashPCs
<1>3. OnlyLiveHold' /\ LiveIsKnown'
  BY <1>1 DEF OnlyLiveHold, LiveIsKnown, Alive
<1>4. \A w \in Workers : /\ Quiet(w)' = Quiet(w)
                         /\ ~Alive(w) => Quiet(w)
                         /\ stop[w] \/ w = registered => stop'[w]
  BY <1>1 DEF Quiet, OnlyLiveHold, Alive
<1>5. \A t \in Supervisors : t # s => Popped(t)' = Popped(t)
  BY <1>1 DEF Popped, Flashing
<1>6. OthersStopped'
  <2>1. \A w \in Workers : (Quiet(w) \/ stop[w] \/ wpc[w] = "leaving")' \/ Popped(s) \/ Alive(w)
    BY <1>4
  <2>2. \A w \in Workers : Alive(w) => (stop[w] \/ wpc[w] = "leaving")'
    BY <1>1, <1>4 DEF NoOrphanWorker
  <2>3. ~Popped(s)
    BY <1>1 DEF Popped
  <2> QED BY <1>1, <1>4, <1>5, <2>1, <2>2, <2>3 DEF OthersStopped
<1>7. OthersJoined'
  <2> SUFFICES ASSUME ~JoinExpires, NEW t \in Supervisors, NEW w \in Workers, Popped(t)', ~Quiet(w)
               PROVE  \/ spc'[t] = "join" /\ w = target'[t]
                      \/ \E u \in Supervisors \ {t} : target'[u] = w
    BY <1>4 DEF OthersJoined
  <2>1. CASE t = s
    <3>1. registered = w \/ \E u \in Supervisors : target[u] = w
      BY <1>4 DEF LiveIsKnown
    <3>2. \A u \in Supervisors : target[u] = w => u # s
      BY <1>1
    <3> QED BY <1>1, <2>1, <3>1, <3>2
  <2>2. CASE t # s
    <3>1. \/ spc[t] = "join" /\ w = target[t]
          \/ \E u \in Supervisors \ {t} : target[u] = w
      BY <1>5, <2>2 DEF OthersJoined
    <3>2. \A u \in Supervisors : target[u] = w => target'[u] = w
      BY <1>1
    <3> QED BY <1>1, <2>2, <3>1, <3>2
  <2> QED BY <2>1, <2>2
<1> QED BY <1>2, <1>3, <1>6, <1>7

LEMMA JoinKeepsFlash ==
  ASSUME FlashTypes, FlashInv, NEW s \in Supervisors, SuperJoin(s)
  PROVE  FlashInv'
<1> USE DEF FlashTypes, FlashInv
<1>1. /\ UNCHANGED <<locked, op, wpc, stop, registered, holders>> /\ spc[s] = "join"
      /\ spc' = [spc EXCEPT ![s] = "sweep"]
      /\ target' = [target EXCEPT ![s] = None]
      /\ ~JoinExpires /\ target[s] # None => ~Alive(target[s])
  <2>1. op' = op /\ spc' = [spc EXCEPT ![s] = "sweep"]
    BY DEF SuperJoin, SGoto
  <2> QED BY <2>1 DEF SuperJoin, workers
<1>2. PlacesAgree'
  BY <1>1 DEF PlacesAgree, Flashing, FlashPCs
<1>3. OnlyLiveHold' /\ LiveIsKnown'
  BY <1>1 DEF OnlyLiveHold, LiveIsKnown, Alive
<1>4. \A w \in Workers : Quiet(w)' = Quiet(w) /\ (~Alive(w) => Quiet(w))
  BY <1>1 DEF Quiet, OnlyLiveHold, Alive
<1>5. \A t \in Supervisors : Popped(t)' = Popped(t)
  BY <1>1 DEF Popped, Flashing, FlashPCs
<1>6. OthersStopped'
  BY <1>1, <1>4, <1>5 DEF OthersStopped
<1>7. OthersJoined'
  <2> SUFFICES ASSUME ~JoinExpires, NEW t \in Supervisors, NEW w \in Workers, Popped(t), ~Quiet(w)
               PROVE  \/ spc'[t] = "join" /\ w = target'[t]
                      \/ \E u \in Supervisors \ {t} : target'[u] = w
    BY <1>4, <1>5 DEF OthersJoined
  <2>1. w # target[s]
    BY <1>1, <1>4
  <2>2. \/ spc[t] = "join" /\ w = target[t]
        \/ \E u \in Supervisors \ {t} : target[u] = w
    BY DEF OthersJoined
  <2> QED BY <1>1, <2>1, <2>2
<1> QED BY <1>2, <1>3, <1>6, <1>7

LEMMA SuperKeepsFlash ==
  ASSUME OneFlasher, FlashTypes, FlashInv, NoOrphanWorker, NEW s \in Supervisors,
         SuperStep(s) \/ \E o \in OpNames : SuperBegin(s, o)
  PROVE  FlashInv'
<1> DEFINE Moves == /\ UNCHANGED <<registered, wpc, stop, target>>
                    /\ \A w \in Workers : w \in holders' <=> w \in holders
                    /\ \A t \in Supervisors : t # s => spc'[t] = spc[t] /\ op'[t] = op[t]
                    /\ PlacesAgree' /\ (Popped(s)' => Joined(s) /\ Joined(s)')
<1>0. \A t \in Supervisors : op[s] \in Flashes /\ t # s => ~Flashing(t)
  BY LockIsTheFlashers DEF FlashInv
<1>m. Moves => FlashInv'
  BY SuperMovesKeepFlash
<1> USE DEF FlashTypes, FlashInv, PlacesAgree, Flashing, Popped, Joined, FlashPCs, SGoto,
        Flashes, calls, workers, supers
<1>2. ASSUME NEW o \in OpNames, SuperBegin(s, o)
      PROVE  Moves
  <2>1. /\ FirstPC[o] \in {"lockCheck", "mark", "lock", "snapshot", "unregister", "start"}
        /\ FirstPC[o] \in {"lockCheck", "mark"} => o \notin Flashes
        /\ FirstPC[o] \in {"lock", "snapshot"} <=> o \in Flashes
        /\ o = "flash" => FirstPC[o] = "lock"
    BY DEF FirstPC, OpNames
  <2> QED BY <1>2, <2>1 DEF SuperBegin
<1>3. CASE SuperLockCheck(s)   BY <1>m, <1>3 DEF SuperLockCheck
<1>4. CASE SuperMark(s)        BY <1>m, <1>4 DEF SuperMark
<1>5. CASE SuperProbe(s)       BY <1>m, <1>5 DEF SuperProbe
<1>6. CASE SuperLock(s)        BY <1>m, <1>6 DEF SuperLock
<1>7. CASE SuperSnapshot(s)    BY <1>m, <1>7 DEF SuperSnapshot
<1>8. CASE SuperUnregister(s)  BY <1>8, UnregisterKeepsFlash
<1>9. CASE SuperJoin(s)        BY <1>9, JoinKeepsFlash
<1>10. CASE SuperSwept(s)
  <2>1. /\ AfterStop[op[s]] \in {"start", "idle", "rejoin"}
        /\ AfterStop[op[s]] = "rejoin" <=> op[s] \in Flashes
    BY <1>10 DEF SuperSwept, AfterStop, OpNames
  <2> QED BY <1>m, <1>10, <2>1 DEF SuperSwept
<1>11. CASE SuperRejoin(s)     BY <1>m, <1>11 DEF SuperRejoin
<1>12. CASE SuperEsptool(s)    BY <1>m, <1>12 DEF SuperEsptool
<1>13. CASE SuperFlashed(s)    BY <1>m, <1>13 DEF SuperFlashed
<1>14. CASE SuperUnlock(s)     BY <1>0, <1>m, <1>14 DEF SuperUnlock
<1>15. CASE spc[s] = "sweep" /\ (CancelPop(s) \/ CancelComplete(s))
  BY <1>m, <1>15 DEF CancelPop, CancelComplete
<1>16. CASE SuperStart(s)
  <2>1. UNCHANGED <<locked, target, holders>> /\ StartMonitor
    BY <1>16 DEF SuperStart
  <2>2. \A t \in Supervisors : \/ spc'[t] = spc[t] /\ op'[t] = op[t]
                               \/ spc[t] = "start" /\ spc'[t] = "idle" /\ op'[t] = None
    BY <1>16 DEF SuperStart
  <2> QED BY <2>1, <2>2, StartKeepsFlash
<1> QED BY <1>m, <1>2, <1>3, <1>4, <1>5, <1>6, <1>7, <1>8, <1>9, <1>10, <1>11, <1>12, <1>13,
           <1>14, <1>15, <1>16 DEF SuperStep

-----------------------------------------------------------------------------

LEMMA FlashNext ==
  ASSUME OneFlasher, TypeOK, NoOrphanWorker, FlashInv, [Next]_vars
  PROVE  FlashInv'
<1>0. FlashTypes
  BY TypesOfFlash
<1>1. ASSUME UNCHANGED <<registered, wpc, stop, locked, spc, op, target, holders>>
      PROVE  FlashInv'
  BY <1>1 DEF FlashInv, PlacesAgree, OnlyLiveHold, LiveIsKnown, OthersStopped, OthersJoined,
     Popped, Flashing, Quiet, Alive
<1>2. ASSUME NEW c \in Calls, CallStep(c)
      PROVE  FlashInv'
  <2>1. CASE CallMonitor(c)
    BY <1>0, <2>1, StartKeepsFlash DEF CallMonitor, supers
  <2>2. CASE ~CallMonitor(c)
    BY <1>1, <1>2, <2>2 DEF CallStep, CallBegin, CallRecheck, CallEnqueue, CallSupersede,
       CallReturn, CallTimeout, CallGiveUp, workers, supers
  <2> QED BY <2>1, <2>2
<1>3. ASSUME NEW w \in Workers, WorkerStep(w)
      PROVE  FlashInv'
  BY <1>0, <1>3, WorkerStepMoves, WorkerKeepsFlash
<1>4. ASSUME NEW s \in Supervisors, SuperStep(s) \/ \E o \in OpNames : SuperBegin(s, o)
      PROVE  FlashInv'
  BY <1>0, <1>4, SuperKeepsFlash
<1>5. CASE (\E m \in SwitchModes : SetMessageType(m)) \/ ForgetDevice \/ UNCHANGED vars
  BY <1>1, <1>5 DEF SetMessageType, ForgetDevice, vars, workers, supers
<1> QED BY <1>2, <1>3, <1>4, <1>5 DEF Next

\* While flash_firmware runs esptool (flasher.py), whatever the udev thread, the
\* API and the calls do meanwhile, a worker that has the port was told to stop or
\* leaves; and if joins wait to the end, the only worker that can be there is one
\* that another thread popped first and is joining.
THEOREM FlashMeetsStopped ==
  ASSUME OneFlasher
  PROVE  Spec => []FlashMeetsOnlyStopped
<1>1. FlashInv => FlashMeetsOnlyStopped
  BY DEF FlashInv, OthersStopped, OthersJoined, Popped, Flashing, FlashPCs, Quiet,
         FlashMeetsOnlyStopped
<1>2. TypeOK /\ NoOrphanWorker /\ FlashInv /\ [Next]_vars => FlashInv'
  BY FlashNext
<1> QED BY <1>1, <1>2, FlashInit, TypeCorrect, NoWorkerIsOrphaned, PTL DEF Spec
=============================================================================
