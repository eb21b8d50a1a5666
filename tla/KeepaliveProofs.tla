--------------------------- MODULE KeepaliveProofs ---------------------------
(***************************************************************************)
(* Theorems about Keepalive, for any number of calls, workers, supervisors *)
(* and attempts.                                                           *)
(***************************************************************************)
EXTENDS Keepalive, TLAPS

-----------------------------------------------------------------------------
(* Type correctness. *)

LEMMA KindsOfCalls == UsedKinds \subseteq Kinds
  BY ConstantsAssumption DEF ConstantsAssumption, UsedKinds

LEMMA MaxSendsNat == \A c \in Calls : MaxSends[c] \in Nat
  BY ConstantsAssumption DEF ConstantsAssumption, MaxSends

LEMMA NoneIsNoOperation == None \notin OpNames
  BY ConstantsAssumption DEF ConstantsAssumption

LEMMA TypeInit == Init => TypeOK
<1> SUFFICES ASSUME Init PROVE TypeOK
  OBVIOUS
<1>1. mode \in Modes
  BY ConstantsAssumption DEF ConstantsAssumption, Init
<1>2. sent \in [Calls -> Nat] /\ \A c \in Calls : sent[c] <= MaxSends[c]
  BY MaxSendsNat DEF Init
<1>3. /\ op \in [Supervisors -> OpNames \cup {None}]
      /\ \A s \in Supervisors : spc[s] = "idle" <=> op[s] = None
  BY DEF Init
<1> QED BY <1>1, <1>2, <1>3 DEF Init, TypeOK, CallPCs, WorkerPCs, SuperPCs, Modes

\* Starting a monitor, answering, popping and sweeping keep the types.
LEMMA StartMonitorType ==
  ASSUME TypeOK, StartMonitor
  PROVE  /\ registered' \in Workers \cup {None}
         /\ wpc' \in [Workers -> WorkerPCs]
         /\ stop' \in [Workers -> BOOLEAN]
         /\ wmode' \in [Workers -> Modes \cup {None}]
         /\ line' \in [Workers -> BOOLEAN]
  BY DEF TypeOK, StartMonitor, workers, WorkerPCs

LEMMA CancelType ==
  ASSUME TypeOK, NEW p \in Actors, CancelPop(p) \/ CancelComplete(p)
  PROVE  TypeOK'
<1>1. CASE CancelPop(p)
  <2>1. NextSweep(p) \in Kinds
    BY DEF NextSweep, Kinds
  <2> QED BY <1>1, <2>1 DEF TypeOK, CancelPop, PopPending, calls, workers, supers
<1>2. CASE CancelComplete(p)
  BY <1>2 DEF TypeOK, CancelComplete, Complete, Answers, DropAnswers, workers, supers
<1> QED BY <1>1, <1>2

LEMMA CallType ==
  ASSUME TypeOK, NEW c \in Calls, CallStep(c)
  PROVE  TypeOK'
<1> USE DEF TypeOK, Goto, Finish, calls, workers, supers, CallPCs, Returns
<1>1. CASE CallBegin(c)      BY <1>1 DEF CallBegin
<1>2. CASE CallMonitor(c)    BY <1>2, StartMonitorType DEF CallMonitor
<1>3. CASE CallRecheck(c)    BY <1>3 DEF CallRecheck
<1>4. CASE CallEnqueue(c)    BY <1>4, ConstantsAssumption DEF CallEnqueue, ConstantsAssumption
<1>5. CASE CallSupersede(c)  BY <1>5 DEF CallSupersede, Complete, Answers, DropAnswers
<1>6. CASE CallReturn(c)     BY <1>6 DEF CallReturn
<1>7. CASE CallTimeout(c)    BY <1>7 DEF CallTimeout
<1>8. CASE CallGiveUp(c)     BY <1>8, ConstantsAssumption DEF CallGiveUp, ConstantsAssumption
<1> QED BY <1>1, <1>2, <1>3, <1>4, <1>5, <1>6, <1>7, <1>8 DEF CallStep

LEMMA SendType ==
  ASSUME TypeOK, NEW w \in Workers, WorkerSend(w)
  PROVE  sent' \in [Calls -> Nat] /\ \A c \in Calls : sent'[c] <= MaxSends[c]
<1>1. sent \in [Calls -> Nat] /\ \A c \in Calls : sent[c] <= MaxSends[c]
  BY DEF TypeOK
<1>2. /\ sent[hand[w]] < MaxSends[hand[w]]
      /\ sent' = [sent EXCEPT ![hand[w]] = @ + 1]
  BY DEF WorkerSend
<1>3. sent' \in [Calls -> Nat]
  <2>1. hand[w] \in Calls => sent[hand[w]] + 1 \in Nat
    BY <1>1
  <2> QED BY <1>1, <1>2, <2>1
<1>4. ASSUME NEW c \in Calls
      PROVE  sent'[c] <= MaxSends[c]
  <2>1. CASE c = hand[w]
    BY <1>1, <1>2, <2>1, MaxSendsNat
  <2>2. CASE c # hand[w]
    BY <1>1, <1>2, <2>2
  <2> QED BY <2>1, <2>2
<1> QED BY <1>3, <1>4

LEMMA WorkerType ==
  ASSUME TypeOK, NEW w \in Workers, WorkerStep(w)
  PROVE  TypeOK'
<1> USE KindsOfCalls
    DEF TypeOK, WGoto, Release, Leave, OpenFails, calls, workers, supers, WorkerPCs
<1>1. CASE WorkerTop(w) \/ WorkerLockCheck(w)
  <2>1. wpc' \in [Workers -> WorkerPCs] /\ sweep' \in [Actors -> SUBSET Kinds]
    BY <1>1 DEF WorkerTop, WorkerLockCheck
  <2> QED BY <1>1, <2>1 DEF WorkerTop, WorkerLockCheck
<1>12. CASE WorkerRefresh(w)
  <2>1. wmode' \in [Workers -> Modes \cup {None}]
    BY <1>12 DEF WorkerRefresh
  <2>2. wpc' \in [Workers -> WorkerPCs] /\ sweep' \in [Actors -> SUBSET Kinds]
    BY <1>12 DEF WorkerRefresh
  <2> QED BY <1>12, <2>1, <2>2 DEF WorkerRefresh
<1>2. CASE WorkerPort(w)
  <2>1. wpc' \in [Workers -> WorkerPCs] /\ sweep' \in [Actors -> SUBSET Kinds]
    BY <1>2 DEF WorkerPort
  <2>2. line' \in [Workers -> BOOLEAN] /\ holders' \subseteq Workers \cup Supervisors
    BY <1>2 DEF WorkerPort
  <2> QED BY <1>2, <2>1, <2>2 DEF WorkerPort
<1>3. CASE WorkerHandshake(w)  BY <1>3 DEF WorkerHandshake
<1>4. CASE WorkerTake(w)       BY <1>4 DEF WorkerTake, PopPending, Kinds
<1>5. CASE WorkerIdle(w)       BY <1>5 DEF WorkerIdle
<1>6. CASE WorkerSend(w)
  BY <1>6, SendType DEF WorkerSend
<1>7. CASE WorkerComplete(w)   BY <1>7 DEF WorkerComplete, Complete, Answers, RunAnswers
<1>8. CASE WorkerException(w)
  <2>1. answer' \in [Calls -> Answers \cup {None}] /\ hand' \in [Actors -> Calls \cup {None}]
    BY <1>8 DEF WorkerException, Complete, Answers, RunAnswers
  <2>2. wpc' \in [Workers -> WorkerPCs] /\ sweep' \in [Actors -> SUBSET Kinds]
    BY <1>8 DEF WorkerException
  <2> QED BY <1>8, <2>1, <2>2 DEF WorkerException
<1>9. CASE WorkerRecovered(w)  BY <1>9 DEF WorkerRecovered
<1>10. CASE WorkerEnd(w)       BY <1>10 DEF WorkerEnd, Modes
<1>11. CASE CancelPop(w) \/ CancelComplete(w)  BY <1>11, CancelType DEF Actors
<1> QED BY <1>1, <1>2, <1>3, <1>4, <1>5, <1>6, <1>7, <1>8, <1>9, <1>10, <1>11, <1>12
        DEF WorkerStep

LEMMA BeginType ==
  ASSUME TypeOK, NEW s \in Supervisors, NEW o \in OpNames, SuperBegin(s, o)
  PROVE  /\ spc' \in [Supervisors -> SuperPCs]
         /\ op' \in [Supervisors -> OpNames \cup {None}]
         /\ \A t \in Supervisors : spc'[t] = "idle" <=> op'[t] = None
<1>1. /\ spc \in [Supervisors -> SuperPCs]
      /\ op \in [Supervisors -> OpNames \cup {None}]
      /\ \A t \in Supervisors : spc[t] = "idle" <=> op[t] = None
  BY DEF TypeOK
<1>2. FirstPC[o] \in SuperPCs \ {"idle"}
  BY DEF FirstPC, OpNames, SuperPCs
<1>3. spc' = [spc EXCEPT ![s] = FirstPC[o]] /\ op' = [op EXCEPT ![s] = o]
  BY DEF SuperBegin
<1> QED BY <1>1, <1>2, <1>3, NoneIsNoOperation

LEMMA SuperType ==
  ASSUME TypeOK, NEW s \in Supervisors,
         SuperStep(s) \/ \E o \in OpNames : SuperBegin(s, o)
  PROVE  TypeOK'
<1> USE KindsOfCalls DEF TypeOK, SGoto, calls, workers, supers, SuperPCs
<1>1. CASE \E o \in OpNames : SuperBegin(s, o)  BY <1>1, BeginType DEF SuperBegin
<1>2. CASE SuperLockCheck(s)   BY <1>2 DEF SuperLockCheck
<1>3. CASE SuperMark(s)        BY <1>3 DEF SuperMark
<1>4. CASE SuperProbe(s)       BY <1>4 DEF SuperProbe
<1>5. CASE SuperLock(s)        BY <1>5 DEF SuperLock
<1>6. CASE SuperSnapshot(s)    BY <1>6 DEF SuperSnapshot
<1>7. CASE SuperUnregister(s)  BY <1>7 DEF SuperUnregister
<1>8. CASE SuperJoin(s)        BY <1>8 DEF SuperJoin
<1>9. CASE SuperSwept(s)
  <2>1. op[s] \in OpNames
    BY <1>9 DEF SuperSwept
  <2>2. AfterStop[op[s]] \in SuperPCs
    BY <2>1 DEF AfterStop, OpNames
  <2> QED BY <1>9, <2>1, <2>2 DEF SuperSwept
<1>10. CASE SuperRejoin(s)     BY <1>10 DEF SuperRejoin
<1>11. CASE SuperEsptool(s)    BY <1>11 DEF SuperEsptool
<1>12. CASE SuperFlashed(s)    BY <1>12 DEF SuperFlashed
<1>13. CASE SuperUnlock(s)
  <2>1. locked' \in BOOLEAN /\ holders' \subseteq Workers \cup Supervisors
    BY <1>13 DEF SuperUnlock
  <2>2. /\ spc' \in [Supervisors -> SuperPCs]
        /\ op' \in [Supervisors -> OpNames \cup {None}]
        /\ \A t \in Supervisors : spc'[t] = "idle" <=> op'[t] = None
    BY <1>13  DEF SuperUnlock
  <2> QED BY <1>13, <2>1, <2>2 DEF SuperUnlock
<1>14. CASE SuperStart(s)      BY <1>14, StartMonitorType DEF SuperStart
<1>15. CASE CancelPop(s) \/ CancelComplete(s)  BY <1>15, CancelType DEF Actors
<1> QED BY <1>1, <1>2, <1>3, <1>4, <1>5, <1>6, <1>7, <1>8, <1>9, <1>10, <1>11,
           <1>12, <1>13, <1>14, <1>15 DEF SuperStep

LEMMA TypeNext == TypeOK /\ [Next]_vars => TypeOK'
<1> SUFFICES ASSUME TypeOK, [Next]_vars PROVE TypeOK'
  OBVIOUS
<1>1. CASE \E c \in Calls : CallStep(c)      BY <1>1, CallType
<1>2. CASE \E w \in Workers : WorkerStep(w)  BY <1>2, WorkerType
<1>3. CASE \E s \in Supervisors : SuperStep(s) \/ \E o \in OpNames : SuperBegin(s, o)
  BY <1>3, SuperType
<1>4. CASE \E m \in SwitchModes : SetMessageType(m)
  BY <1>4, ConstantsAssumption DEF ConstantsAssumption, TypeOK, SetMessageType, calls, workers, supers
<1>5. CASE ForgetDevice
  BY <1>5 DEF TypeOK, ForgetDevice, calls, workers, supers
<1>6. CASE UNCHANGED vars
  BY <1>6 DEF TypeOK, vars, calls, workers, supers
<1> QED BY <1>1, <1>2, <1>3, <1>4, <1>5, <1>6 DEF Next

\* Every variable keeps its type, and no frame is written more often than
\* _send_stream_frame_and_wait's max_attempts.
THEOREM TypeCorrect == Spec => []TypeOK
  BY TypeInit, TypeNext, PTL DEF Spec

-----------------------------------------------------------------------------
(* Who has which request. *)

\* What TypeOK and ConstantsAssumption say of the variables of Ownership.
OwnTypes ==
    /\ pending \in [Kinds -> Calls \cup {None}]
    /\ cpc \in [Calls -> CallPCs]
    /\ answer \in [Calls -> Answers \cup {None}]
    /\ sent \in [Calls -> Nat]
    /\ wpc \in [Workers -> WorkerPCs]
    /\ spc \in [Supervisors -> SuperPCs]
    /\ hand \in [Actors -> Calls \cup {None}]
    /\ CallKind \in [Calls -> Kinds]
    /\ None \notin Calls /\ None \notin Answers
    /\ Calls \subseteq Actors /\ Workers \subseteq Actors /\ Supervisors \subseteq Actors
    /\ Calls \cap Workers = {}
    /\ Calls \cap Supervisors = {}
    /\ Workers \cap Supervisors = {}

LEMMA TypesOfOwnership == TypeOK => OwnTypes
  BY ConstantsAssumption
  DEF ConstantsAssumption, Actors, OwnTypes, TypeOK, Returns

LEMMA OwnershipInit == Init => Ownership
<1> SUFFICES ASSUME Init PROVE Ownership
  OBVIOUS
<1>1. TypeOK /\ OwnTypes
  BY TypeInit, TypesOfOwnership
<1> QED
  BY <1>1 DEF Init, Ownership, OwnTypes, PendingIsAwaited, HeldIsOpen, HeldOnce,
     QueuedIsSomewhere, NewIsClean, HandsFollowPCs, SentIsRunning, NotQueued,
     Queued, EmptyHands

LEMMA OwnershipCancel ==
  ASSUME OwnTypes, Ownership, NEW p \in Actors,
         p \in Workers => WorkerSweeping(p),
         p \in Calls => FALSE,
         p \in Supervisors => spc[p] = "sweep",
         CancelPop(p) \/ CancelComplete(p)
  PROVE  Ownership'
<1> USE DEF OwnTypes, Ownership, PendingIsAwaited, HeldIsOpen, HeldOnce,
        QueuedIsSomewhere, NewIsClean, HandsFollowPCs, SentIsRunning, InSlot,
        NotQueued, Queued, EmptyHands, Running, RunAnswers, DropAnswers,
        Answers, WorkerSweeping, calls, workers, supers
<1>1. CASE CancelPop(p)
  <2>1. NextSweep(p) \in Kinds
    BY DEF NextSweep, Kinds
  <2> QED BY <1>1, <2>1 DEF CancelPop, PopPending
<1>2. CASE CancelComplete(p)
  BY <1>2 DEF CancelComplete, Complete
<1> QED BY <1>1, <1>2

LEMMA OwnershipCall ==
  ASSUME OwnTypes, Ownership, NEW c \in Calls, CallStep(c)
  PROVE  Ownership'
<1> USE DEF OwnTypes, Ownership, PendingIsAwaited, HeldIsOpen, HeldOnce,
        QueuedIsSomewhere, NewIsClean, HandsFollowPCs, SentIsRunning, InSlot,
        NotQueued, Queued, EmptyHands, Running, RunAnswers, DropAnswers,
        Answers, CallPCs, Goto, Finish, calls, workers, supers
<1>1. CASE CallBegin(c)      BY <1>1 DEF CallBegin
<1>2. CASE CallMonitor(c)    BY <1>2 DEF CallMonitor, StartMonitor, Alive
<1>3. CASE CallRecheck(c)    BY <1>3 DEF CallRecheck
<1>4. CASE CallEnqueue(c)    BY <1>4 DEF CallEnqueue
<1>5. CASE CallSupersede(c)  BY <1>5 DEF CallSupersede, Complete
<1>6. CASE CallReturn(c)     BY <1>6 DEF CallReturn
<1>7. CASE CallTimeout(c)    BY <1>7 DEF CallTimeout
<1>8. CASE CallGiveUp(c)     BY <1>8 DEF CallGiveUp
<1> QED BY <1>1, <1>2, <1>3, <1>4, <1>5, <1>6, <1>7, <1>8 DEF CallStep

LEMMA OwnershipWorker ==
  ASSUME OwnTypes, Ownership, NEW w \in Workers, WorkerStep(w)
  PROVE  Ownership'
<1>1. CASE WorkerSweeping(w) /\ (CancelPop(w) \/ CancelComplete(w))
  BY <1>1, OwnershipCancel DEF OwnTypes
<1> USE DEF OwnTypes, Ownership, PendingIsAwaited, HeldIsOpen, HeldOnce,
        QueuedIsSomewhere, NewIsClean, HandsFollowPCs, SentIsRunning, InSlot,
        NotQueued, Queued, EmptyHands, Running, RunAnswers, DropAnswers,
        Answers, WorkerPCs, WGoto, calls, workers, supers
<1>2. CASE WorkerTop(w) \/ WorkerLockCheck(w) \/ WorkerRefresh(w)
  BY <1>2 DEF WorkerTop, WorkerLockCheck, WorkerRefresh, Leave
<1>3. CASE WorkerPort(w)       BY <1>3 DEF WorkerPort, OpenFails, Swept
<1>4. CASE WorkerHandshake(w)  BY <1>4 DEF WorkerHandshake, OpenFails
<1>5. CASE WorkerTake(w)       BY <1>5 DEF WorkerTake, PopPending
<1>6. CASE WorkerIdle(w)       BY <1>6 DEF WorkerIdle
<1>7. CASE WorkerSend(w)       BY <1>7 DEF WorkerSend
<1>8. CASE WorkerComplete(w)   BY <1>8 DEF WorkerComplete, Complete
<1>9. CASE WorkerException(w)
  <2>1. CASE hand[w] = None
    BY <1>9, <2>1 DEF WorkerException
  <2>2. CASE hand[w] # None
    <3>1. /\ hand' = [hand EXCEPT ![w] = None]
          /\ answer' = [answer EXCEPT ![hand[w]] = "EXCEPTION"]
          /\ wpc' = [wpc EXCEPT ![w] = "exception"]
          /\ UNCHANGED <<pending, cpc, sent, spc>>
      BY <1>9, <2>2 DEF WorkerException, Complete
    <3>2. PendingIsAwaited' /\ HeldIsOpen' /\ HeldOnce' /\ NewIsClean'
      BY <2>2, <3>1
    <3>3. QueuedIsSomewhere' /\ HandsFollowPCs'
      BY <2>2, <3>1
    <3>4. SentIsRunning'
      BY <2>2, <3>1
    <3> QED BY <3>2, <3>3, <3>4
  <2> QED BY <2>1, <2>2
<1>10. CASE WorkerRecovered(w)  BY <1>10 DEF WorkerRecovered, Swept
<1>11. CASE WorkerEnd(w)       BY <1>11 DEF WorkerEnd, Swept
<1> QED BY <1>1, <1>2, <1>3, <1>4, <1>5, <1>6, <1>7, <1>8, <1>9, <1>10, <1>11
        DEF WorkerStep

\* The steps that leave the requests and the callers alone.
LEMMA OwnershipFrame ==
  ASSUME OwnTypes, Ownership,
         pending' = pending, cpc' = cpc, answer' = answer, sent' = sent, hand' = hand,
         \A w \in Workers : wpc'[w] = wpc[w] \/ (wpc[w] = "dead" /\ wpc'[w] = "top"),
         \A s \in Supervisors : spc'[s] # "sweep" => hand[s] = None
  PROVE  Ownership'
  BY DEF OwnTypes, Ownership, PendingIsAwaited, HeldIsOpen, HeldOnce,
     QueuedIsSomewhere, NewIsClean, HandsFollowPCs, SentIsRunning, InSlot,
     NotQueued, Queued, EmptyHands, Running

LEMMA OwnershipSuper ==
  ASSUME OwnTypes, Ownership, NEW s \in Supervisors,
         SuperStep(s) \/ \E o \in OpNames : SuperBegin(s, o)
  PROVE  Ownership'
<1> DEFINE Frame ==
        /\ pending' = pending /\ cpc' = cpc /\ answer' = answer
        /\ sent' = sent /\ hand' = hand
        /\ \A w \in Workers : wpc'[w] = wpc[w] \/ (wpc[w] = "dead" /\ wpc'[w] = "top")
        /\ \A t \in Supervisors : spc'[t] # "sweep" => hand[t] = None
<1>1. Frame => Ownership'
  BY OwnershipFrame
<1>2. /\ spc \in [Supervisors -> SuperPCs] /\ wpc \in [Workers -> WorkerPCs]
      /\ \A t \in Supervisors : spc[t] # "sweep" => hand[t] = None
  BY DEF OwnTypes, Ownership, HandsFollowPCs
<1> USE <1>2 DEF SGoto, calls, workers, supers
<1>3. ASSUME NEW o \in OpNames, SuperBegin(s, o)
      PROVE  Frame
  BY <1>3 DEF SuperBegin
<1>4. SuperLockCheck(s) => Frame    BY DEF SuperLockCheck
<1>5. SuperMark(s) => Frame         BY DEF SuperMark
<1>6. SuperProbe(s) => Frame        BY DEF SuperProbe
<1>7. SuperLock(s) => Frame         BY DEF SuperLock
<1>8. SuperSnapshot(s) => Frame     BY DEF SuperSnapshot
<1>9. SuperUnregister(s) => Frame   BY DEF SuperUnregister
<1>10. SuperJoin(s) => Frame        BY DEF SuperJoin
<1>11. SuperSwept(s) => Frame       BY DEF SuperSwept, Swept
<1>12. SuperRejoin(s) => Frame      BY DEF SuperRejoin
<1>13. SuperEsptool(s) => Frame     BY DEF SuperEsptool
<1>14. SuperFlashed(s) => Frame     BY DEF SuperFlashed
<1>15. SuperUnlock(s) => Frame      BY DEF SuperUnlock
<1>16. SuperStart(s) => Frame       BY DEF SuperStart, StartMonitor, Alive
<1>17. CASE spc[s] = "sweep" /\ (CancelPop(s) \/ CancelComplete(s))
  BY <1>17, OwnershipCancel DEF OwnTypes
<1> QED BY <1>1, <1>3, <1>4, <1>5, <1>6, <1>7, <1>8, <1>9, <1>10, <1>11,
           <1>12, <1>13, <1>14, <1>15, <1>16, <1>17 DEF SuperStep

LEMMA OwnershipNext == TypeOK /\ Ownership /\ [Next]_vars => Ownership'
<1> SUFFICES ASSUME TypeOK, Ownership, [Next]_vars PROVE Ownership'
  OBVIOUS
<1>0. OwnTypes
  BY TypesOfOwnership
<1>1. CASE \E c \in Calls : CallStep(c)      BY <1>0, <1>1, OwnershipCall
<1>2. CASE \E w \in Workers : WorkerStep(w)  BY <1>0, <1>2, OwnershipWorker
<1>3. CASE \E s \in Supervisors : SuperStep(s) \/ \E o \in OpNames : SuperBegin(s, o)
  BY <1>0, <1>3, OwnershipSuper
<1>4. CASE (\E m \in SwitchModes : SetMessageType(m)) \/ ForgetDevice \/ UNCHANGED vars
  <2>1. UNCHANGED <<pending, cpc, answer, sent, hand, wpc, spc>>
    BY <1>4 DEF SetMessageType, ForgetDevice, vars, calls, workers, supers
  <2>2. \A s \in Supervisors : spc'[s] # "sweep" => hand[s] = None
    BY <2>1 DEF Ownership, HandsFollowPCs
  <2>3. \A w \in Workers : wpc'[w] = wpc[w] \/ (wpc[w] = "dead" /\ wpc'[w] = "top")
    BY <2>1
  <2> QED BY <1>0, <2>1, <2>2, <2>3, OwnershipFrame
<1> QED BY <1>1, <1>2, <1>3, <1>4 DEF Next

\* In every reachable state each request is in one place only, and that place
\* is the one the pcs of the threads say.
THEOREM OwnershipHolds == Spec => []Ownership
<1>1. Init => TypeOK /\ Ownership
  BY TypeInit, OwnershipInit
<1>2. TypeOK /\ Ownership /\ [Next]_vars => (TypeOK /\ Ownership)'
  BY TypeNext, OwnershipNext
<1> QED BY <1>1, <1>2, PTL DEF Spec

LEMMA OwnershipImplies ==
  TypeOK /\ Ownership => NoRequestLost /\ PendingIsAwaited /\ WithdrawnNeverSent
<1> SUFFICES ASSUME TypeOK, Ownership
             PROVE  NoRequestLost /\ PendingIsAwaited /\ WithdrawnNeverSent
  OBVIOUS
<1>0. OwnTypes
  BY TypesOfOwnership
<1>1. NoRequestLost
  <2> SUFFICES ASSUME NEW c \in Calls
               PROVE  /\ cpc[c] \in {"displace", "waiting"} /\ answer[c] = None
                            => InSlot(c) \/ Hands(c) # {}
                      /\ \A p, q \in Hands(c) : p = q
                      /\ InSlot(c) => Hands(c) = {}
    BY DEF NoRequestLost
  <2>1. cpc[c] \in {"displace", "waiting"} /\ answer[c] = None
            => InSlot(c) \/ Hands(c) # {}
    BY DEF Ownership, QueuedIsSomewhere, Queued, Hands
  <2>2. \A p, q \in Hands(c) : p = q
    BY <1>0 DEF Ownership, HeldOnce, Hands, OwnTypes
  <2>3. InSlot(c) => Hands(c) = {}
    BY <1>0 DEF Ownership, HeldIsOpen, Hands, OwnTypes
  <2> QED BY <2>1, <2>2, <2>3
<1>2. WithdrawnNeverSent
  BY <1>0 DEF WithdrawnNeverSent, Ownership, SentIsRunning, OwnTypes, RunAnswers,
     DropAnswers, Answers
<1> QED BY <1>1, <1>2 DEF Ownership

\* However stops, mode changes, timeouts and other calls interleave, the request
\* of a caller that waits is in one place, and one actor will answer it.
THEOREM NoRequestIsLost == Spec => []NoRequestLost
  BY OwnershipImplies, TypeCorrect, OwnershipHolds, PTL

\* The mailboxes hold requests of callers that still wait, and no others.
THEOREM PendingRequestsAreAwaited == Spec => []PendingIsAwaited
  BY OwnershipImplies, TypeCorrect, OwnershipHolds, PTL

\* A command reported as superseded or cancelled was never written to the port.
THEOREM WithdrawnCommandsAreNotSent == Spec => []WithdrawnNeverSent
  BY OwnershipImplies, TypeCorrect, OwnershipHolds, PTL

-----------------------------------------------------------------------------
(* Answers are final. *)

\* What a step may do to the answers.
AnswersOne == \E p \in Actors, a \in Answers :
                 hand[p] # None /\ answer' = [answer EXCEPT ![hand[p]] = a]

LEMMA AnswerStep ==
  ASSUME OwnTypes, Ownership, [Next]_vars
  PROVE  answer' = answer \/ AnswersOne
<1> USE DEF calls, workers, supers
<1>1. ASSUME NEW p \in Actors, CancelPop(p) \/ CancelComplete(p)
      PROVE  answer' = answer \/ AnswersOne
  BY <1>1 DEF CancelPop, CancelComplete, Complete, AnswersOne, Answers, DropAnswers
<1>2. ASSUME NEW c \in Calls, CallStep(c)
      PROVE  answer' = answer \/ AnswersOne
  <2>1. CASE CallSupersede(c)
    <3>1. hand[c] # None /\ c \in Actors
      BY <2>1 DEF CallSupersede, Ownership, HandsFollowPCs, OwnTypes
    <3> QED BY <2>1, <3>1 DEF CallSupersede, Complete, AnswersOne, Answers, DropAnswers
  <2>2. CASE ~CallSupersede(c)
    BY <1>2, <2>2 DEF CallStep, CallBegin, CallMonitor, CallRecheck, CallEnqueue,
       CallReturn, CallTimeout, CallGiveUp
  <2> QED BY <2>1, <2>2
<1>3. ASSUME NEW w \in Workers, WorkerStep(w)
      PROVE  answer' = answer \/ AnswersOne
  <2>0. w \in Actors
    BY DEF OwnTypes
  <2>1. CASE WorkerComplete(w)
    <3>1. hand[w] # None
      BY <2>1 DEF WorkerComplete, Ownership, HandsFollowPCs
    <3> QED BY <2>0, <2>1, <3>1
            DEF WorkerComplete, Complete, AnswersOne, Answers, RunAnswers
  <2>2. CASE WorkerException(w)
    BY <2>0, <2>2 DEF WorkerException, Complete, AnswersOne, Answers, RunAnswers
  <2>3. CASE CancelPop(w) \/ CancelComplete(w)
    BY <1>1, <2>0, <2>3
  <2>4. CASE ~(WorkerComplete(w) \/ WorkerException(w) \/ CancelPop(w) \/ CancelComplete(w))
    BY <1>3, <2>4 DEF WorkerStep, WorkerTop, WorkerLockCheck, WorkerRefresh,
       WorkerPort, WorkerHandshake, WorkerTake,
       WorkerIdle, WorkerSend, WorkerRecovered, WorkerEnd
  <2> QED BY <2>1, <2>2, <2>3, <2>4
<1>4. ASSUME NEW s \in Supervisors, SuperStep(s) \/ \E o \in OpNames : SuperBegin(s, o)
      PROVE  answer' = answer \/ AnswersOne
  <2>1. CASE CancelPop(s) \/ CancelComplete(s)
    BY <1>1, <2>1 DEF OwnTypes
  <2>2. CASE ~(CancelPop(s) \/ CancelComplete(s))
    BY <1>4, <2>2 DEF SuperStep, SuperBegin, SuperLockCheck, SuperMark, SuperProbe,
       SuperLock, SuperSnapshot, SuperUnregister, SuperJoin, SuperSwept,
       SuperRejoin, SuperEsptool, SuperFlashed, SuperUnlock, SuperStart
  <2> QED BY <2>1, <2>2
<1>5. CASE (\E m \in SwitchModes : SetMessageType(m)) \/ ForgetDevice \/ UNCHANGED vars
  BY <1>5 DEF SetMessageType, ForgetDevice, vars
<1> QED BY <1>2, <1>3, <1>4, <1>5 DEF Next

\* An answer is written once and stays what it is, although _complete_*_request
\* stores without looking.
THEOREM AnswersAreFinal == Spec => AnsweredOnce
<1>1. TypeOK /\ Ownership /\ [Next]_vars
        => [\A c \in Calls : answer[c] # None => answer'[c] = answer[c]]_vars
  <2> SUFFICES ASSUME TypeOK, Ownership, [Next]_vars
               PROVE  \A c \in Calls : answer[c] # None => answer'[c] = answer[c]
    OBVIOUS
  <2>1. OwnTypes
    BY TypesOfOwnership
  <2>2. CASE answer' = answer
    BY <2>2
  <2>3. CASE AnswersOne
    <3>1. PICK p \in Actors, a \in Answers :
             hand[p] # None /\ answer' = [answer EXCEPT ![hand[p]] = a]
      BY <2>3 DEF AnswersOne
    <3>2. answer[hand[p]] = None
      BY <3>1 DEF Ownership, HeldIsOpen
    <3> QED BY <2>1, <3>1, <3>2 DEF OwnTypes
  <2> QED BY <2>1, <2>2, <2>3, AnswerStep
<1> QED BY <1>1, TypeCorrect, OwnershipHolds, PTL DEF Spec, AnsweredOnce

-----------------------------------------------------------------------------
(* No worker escapes. *)

LEMMA NoOrphanNext == TypeOK /\ NoOrphanWorker /\ [Next]_vars => NoOrphanWorker'
<1> SUFFICES ASSUME TypeOK, NoOrphanWorker, [Next]_vars PROVE NoOrphanWorker'
  OBVIOUS
<1>0. /\ wpc \in [Workers -> WorkerPCs] /\ stop \in [Workers -> BOOLEAN]
      /\ registered \in Workers \cup {None} /\ None \notin Workers
  BY ConstantsAssumption DEF ConstantsAssumption, Actors, TypeOK
<1> USE DEF NoOrphanWorker, Alive
<1>1. ASSUME StartMonitor
      PROVE  NoOrphanWorker'
  BY <1>0, <1>1 DEF StartMonitor, workers
<1>2. ASSUME UNCHANGED <<registered, wpc, stop>>
      PROVE  NoOrphanWorker'
  BY <1>2
<1>3. ASSUME NEW p \in Actors, CancelPop(p) \/ CancelComplete(p)
      PROVE  NoOrphanWorker'
  BY <1>2, <1>3 DEF CancelPop, CancelComplete, workers
<1>4. ASSUME NEW c \in Calls, CallStep(c)
      PROVE  NoOrphanWorker'
  <2>1. CASE CallMonitor(c)
    BY <1>1, <2>1 DEF CallMonitor
  <2>2. CASE ~CallMonitor(c)
    <3>1. UNCHANGED <<registered, wpc, stop>>
      BY <1>4, <2>2 DEF CallStep, CallBegin, CallRecheck, CallEnqueue, CallSupersede,
         CallReturn, CallTimeout, CallGiveUp, workers
    <3> QED BY <1>2, <3>1
  <2> QED BY <2>1, <2>2
<1>5. ASSUME NEW w \in Workers, WorkerStep(w)
      PROVE  NoOrphanWorker'
  <2>1. CASE WorkerEnd(w)
    BY <1>0, <2>1 DEF WorkerEnd
  <2>2. CASE CancelPop(w) \/ CancelComplete(w)
    BY <1>3, <2>2 DEF Actors
  <2>3. CASE ~WorkerEnd(w) /\ ~(CancelPop(w) \/ CancelComplete(w))
    <3>1. /\ UNCHANGED <<registered, stop>>
          /\ \A v \in Workers : v # w => wpc'[v] = wpc[v]
          /\ wpc[w] \notin {"dead", "leaving"}
      BY <1>0, <1>5, <2>3
      DEF WorkerStep, WorkerTop, WorkerLockCheck, WorkerRefresh,
         WorkerPort, WorkerHandshake, WorkerTake, WorkerIdle,
          WorkerSend, WorkerComplete, WorkerException, WorkerRecovered,
          WGoto, Leave, OpenFails, workers
    <3> QED BY <1>0, <3>1
  <2> QED BY <1>5, <2>1, <2>2, <2>3 DEF WorkerStep
<1>6. ASSUME NEW s \in Supervisors, SuperStep(s) \/ \E o \in OpNames : SuperBegin(s, o)
      PROVE  NoOrphanWorker'
  <2>1. CASE CancelPop(s) \/ CancelComplete(s)
    BY <1>3, <2>1 DEF Actors
  <2>2. CASE SuperStart(s)
    BY <1>1, <2>2 DEF SuperStart
  <2>3. CASE SuperUnregister(s)
    BY <1>0, <2>3 DEF SuperUnregister
  <2>4. CASE ~(CancelPop(s) \/ CancelComplete(s) \/ SuperStart(s) \/ SuperUnregister(s))
    <3>1. UNCHANGED <<registered, wpc, stop>>
      BY <1>6, <2>4 DEF SuperStep, SuperBegin, SuperLockCheck, SuperMark, SuperProbe,
         SuperLock, SuperSnapshot, SuperJoin, SuperSwept, SuperRejoin, SuperEsptool,
         SuperFlashed, SuperUnlock, workers
    <3> QED BY <1>2, <3>1
  <2> QED BY <2>1, <2>2, <2>3, <2>4
<1>7. CASE (\E m \in SwitchModes : SetMessageType(m)) \/ ForgetDevice \/ UNCHANGED vars
  <2>1. UNCHANGED <<registered, wpc, stop>>
    BY <1>7 DEF SetMessageType, ForgetDevice, vars, workers
  <2> QED BY <1>2, <2>1
<1> QED BY <1>4, <1>5, <1>6, <1>7 DEF Next

\* A live worker is always one that a stop can still reach, or that ends anyway:
\* no thread keeps the port for ever behind the back of the tables.
THEOREM NoWorkerIsOrphaned == Spec => []NoOrphanWorker
<1>1. Init => NoOrphanWorker
  BY DEF Init, NoOrphanWorker, Alive
<1> QED BY <1>1, NoOrphanNext, TypeCorrect, PTL DEF Spec
=============================================================================
