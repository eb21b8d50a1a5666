------------------------- MODULE KeepaliveRefinement -------------------------
(***************************************************************************)
(* Keepalive implements CommandCalls: under the mapping `phase` every step *)
(* of a thread is a step of one call, or changes nothing a caller sees.    *)
(***************************************************************************)
EXTENDS KeepaliveProofs

\* A call has a result exactly when it has returned.
ReturnedIsDone == \A c \in Calls : ret[c] # None <=> cpc[c] = "done"

RetTypes == ret \in [Calls -> Returns \cup {None}] /\ None \notin Returns

RefInv == OwnTypes /\ Ownership /\ RetTypes /\ ReturnedIsDone

-----------------------------------------------------------------------------
(* The mapping, case by case. *)

Held(c) == \E p \in Actors : hand[p] = c

PhaseCases(c) ==
    /\ answer[c] # None => phase[c] = "settled"
    /\ answer[c] = None =>
        /\ InSlot(c) => phase[c] = "queued"
        /\ ~InSlot(c) =>
            /\ Running(c) => phase[c] = "taken"
            /\ ~Running(c) =>
                /\ Held(c) => phase[c] = "dropped"
                /\ ~Held(c) =>
                    /\ cpc[c] # "done" => phase[c] = "new"
                    /\ cpc[c] = "done" =>
                         phase[c] = IF ret[c] = "REFUSED" THEN "refused" ELSE "gone"

LEMMA PhaseIs ==
  ASSUME NEW c \in Calls
  PROVE  PhaseCases(c) /\ PhaseCases(c)'
<1>1. Hands(c) # {} <=> Held(c)
  BY DEF Hands, Held
<1>2. Hands(c)' # {} <=> Held(c)'
  BY DEF Hands, Held
<1>3. PhaseCases(c)
  BY <1>1 DEF PhaseCases, phase
<1>4. PhaseCases(c)'
  BY <1>2 DEF PhaseCases, phase
<1> QED BY <1>3, <1>4

\* What phase[c] depends on.
SamePhase(c) ==
    /\ answer'[c] = answer[c] /\ ret'[c] = ret[c]
    /\ InSlot(c)' <=> InSlot(c)
    /\ Running(c)' <=> Running(c)
    /\ Held(c)' <=> Held(c)
    /\ cpc'[c] = "done" <=> cpc[c] = "done"

LEMMA PhaseUnchanged == ASSUME NEW c \in Calls, SamePhase(c) PROVE phase'[c] = phase[c]
  BY PhaseIs DEF PhaseCases, SamePhase

LEMMA PhaseIsFunction ==
  phase = [c \in Calls |-> phase[c]] /\ phase' = [c \in Calls |-> phase'[c]]
  BY DEF phase

LEMMA OnePhaseMoves ==
  ASSUME NEW c \in Calls, \A d \in Calls \ {c} : SamePhase(d)
  PROVE  phase' = [phase EXCEPT ![c] = phase'[c]]
<1>1. \A d \in Calls \ {c} : phase'[d] = phase[d]
  BY PhaseUnchanged
<1> QED BY <1>1, PhaseIsFunction

LEMMA NoPhaseMoves ==
  ASSUME \A d \in Calls : SamePhase(d)
  PROVE  phase' = phase
  BY PhaseUnchanged, PhaseIsFunction

Stutter == UNCHANGED Abstract!avars

-----------------------------------------------------------------------------
(* The callers. *)

LEMMA NewPhase ==
  ASSUME RefInv, NEW c \in Calls, cpc[c] \in NotQueued
  PROVE  /\ answer[c] = None /\ ~InSlot(c) /\ ~Held(c) /\ ~Running(c)
         /\ phase[c] = "new"
<1>1. answer[c] = None /\ ~InSlot(c) /\ ~Held(c)
  BY DEF RefInv, OwnTypes, Ownership, NewIsClean, PendingIsAwaited, HeldIsOpen,
         NotQueued, InSlot, Held
<1>2. ~Running(c)
  BY <1>1 DEF RefInv, OwnTypes, Running, Held
<1> QED BY <1>1, <1>2, PhaseIs DEF PhaseCases, NotQueued

LEMMA RefuseStep ==
  ASSUME RefInv, NEW c \in Calls, cpc[c] \in NotQueued, Finish(c, "REFUSED"),
         pending' = pending, answer' = answer, sent' = sent, wpc' = wpc, hand' = hand
  PROVE  Abstract!Refuse(c)
<1>1. \A d \in Calls \ {c} : SamePhase(d)
  BY DEF RefInv, OwnTypes, RetTypes, SamePhase, Finish, Goto, InSlot, Running, Held
<1>2. answer'[c] = None /\ ~InSlot(c)' /\ ~Held(c)' /\ ~Running(c)'
  BY NewPhase DEF InSlot, Running, Held
<1>3. cpc'[c] = "done" /\ ret'[c] = "REFUSED"
  BY DEF Finish, Goto, RefInv, OwnTypes, RetTypes
<1>4. phase'[c] = "refused"
  BY <1>2, <1>3, PhaseIs DEF PhaseCases
<1> QED BY <1>1, <1>4, OnePhaseMoves, NewPhase DEF Abstract!Refuse, Finish

LEMMA CallEnqueueStep ==
  ASSUME RefInv, NEW c \in Calls, CallEnqueue(c)
  PROVE  Abstract!Submit(c, {pending[CallKind[c]]} \ {None})
<1> DEFINE k == CallKind[c]
           old == {pending[k]} \ {None}
<1>1. /\ k \in Kinds /\ c \in Actors /\ cpc[c] \in NotQueued /\ hand[c] = None
      /\ pending' = [pending EXCEPT ![k] = c]
      /\ hand' = [hand EXCEPT ![c] = pending[k]]
      /\ cpc'[c] \in {"waiting", "displace"}
      /\ \A d \in Calls \ {c} : cpc'[d] = cpc[d]
      /\ answer' = answer /\ ret' = ret /\ sent' = sent /\ wpc' = wpc
  BY DEF CallEnqueue, Goto, RefInv, OwnTypes, NotQueued, Ownership, HandsFollowPCs, workers
<1>2. phase[c] = "new" /\ answer[c] = None
  BY <1>1, NewPhase
<1>3. InSlot(c)'
  BY <1>1 DEF InSlot, RefInv, OwnTypes
<1>4. phase'[c] = "queued"
  BY <1>1, <1>2, <1>3, PhaseIs DEF PhaseCases
<1>5. ASSUME NEW d \in old
      PROVE  d \in Calls /\ d # c /\ phase[d] = "queued" /\ phase'[d] = "dropped"
  <2>1. d \in Calls /\ pending[k] = d /\ d # None
    BY <1>1, <1>5 DEF RefInv, OwnTypes
  <2>2. CallKind[d] = k /\ answer[d] = None /\ InSlot(d) /\ cpc[d] \in Queued
    BY <1>1, <2>1 DEF RefInv, Ownership, PendingIsAwaited, InSlot, Queued
  <2>3. d # c /\ ~Held(d)
    BY <1>1, <2>1, <2>2 DEF RefInv, Ownership, HeldIsOpen, Held, Queued, NotQueued
  <2>4. phase[d] = "queued"
    BY <2>1, <2>2, PhaseIs DEF PhaseCases
  <2>5. ~InSlot(d)' /\ Held(d)'
    BY <1>1, <2>1, <2>2, <2>3 DEF InSlot, Held, RefInv, OwnTypes
  <2>6. ~Running(d)'
    BY <1>1, <2>1, <2>3 DEF Running, Held, RefInv, OwnTypes
  <2> QED BY <1>1, <2>1, <2>2, <2>3, <2>4, <2>5, <2>6, PhaseIs DEF PhaseCases
<1>6. ASSUME NEW d \in Calls, d # c, d \notin old
      PROVE  phase'[d] = phase[d]
  <2>1. d # None /\ pending[k] # d
    BY <1>6 DEF RefInv, OwnTypes
  <2>2. InSlot(d)' <=> InSlot(d)
    BY <1>1, <1>6, <2>1 DEF InSlot, RefInv, OwnTypes
  <2>3. \A p \in Actors : hand'[p] = d <=> hand[p] = d
    BY <1>1, <2>1 DEF RefInv, OwnTypes
  <2>4. (Running(d)' <=> Running(d)) /\ (Held(d)' <=> Held(d))
    BY <1>1, <2>3 DEF Running, Held, RefInv, OwnTypes
  <2> QED BY <1>1, <1>6, <2>2, <2>4, PhaseUnchanged DEF SamePhase
<1>7. phase' = [d \in Calls |-> IF d = c THEN "queued"
                                ELSE IF d \in old THEN "dropped" ELSE phase[d]]
  BY <1>4, <1>5, <1>6, PhaseIsFunction
<1> QED BY <1>1, <1>2, <1>5, <1>7 DEF Abstract!Submit

LEMMA CallReturnStep ==
  ASSUME RefInv, NEW c \in Calls, CallReturn(c)
  PROVE  Abstract!Return(c)
<1>1. \A d \in Calls \ {c} : SamePhase(d)
  BY DEF RefInv, OwnTypes, RetTypes, SamePhase, CallReturn, Finish, Goto, InSlot,
         Running, Held, workers
<1>2. phase[c] = "settled" /\ phase'[c] = "settled"
  BY PhaseIs DEF PhaseCases, CallReturn
<1>3. phase' = phase
  BY <1>1, <1>2, OnePhaseMoves, PhaseIsFunction
<1>4. ret[c] = None
  BY DEF RefInv, ReturnedIsDone, CallReturn
<1> QED BY <1>2, <1>3, <1>4 DEF Abstract!Return, CallReturn, Finish

LEMMA CallGiveUpStep ==
  ASSUME RefInv, NEW c \in Calls, CallGiveUp(c)
  PROVE  Abstract!GiveUp(c)
<1>1. /\ answer' = answer /\ sent' = sent /\ wpc' = wpc /\ hand' = hand
      /\ ret' = [ret EXCEPT ![c] = "TIMEOUT"]
      /\ pending' = [pending EXCEPT ![CallKind[c]] = IF @ = c THEN None ELSE @]
      /\ CallKind[c] \in Kinds /\ cpc[c] = "giveup"
  BY DEF CallGiveUp, Finish, RefInv, OwnTypes, workers
<1>2. (Running(c)' <=> Running(c)) /\ (Held(c)' <=> Held(c))
  BY <1>1 DEF Running, Held
<1>3. ~InSlot(c)' /\ cpc'[c] = "done" /\ ret'[c] = "TIMEOUT" /\ ret[c] = None
  BY <1>1 DEF InSlot, CallGiveUp, Finish, Goto, RefInv, OwnTypes, RetTypes, ReturnedIsDone
<1>4. ASSUME NEW d \in Calls \ {c}
      PROVE  SamePhase(d)
  <2>1. InSlot(d)' <=> InSlot(d)
    BY <1>1 DEF InSlot, RefInv, OwnTypes
  <2>2. (Running(d)' <=> Running(d)) /\ (Held(d)' <=> Held(d))
    BY <1>1 DEF Running, Held
  <2>3. ret'[d] = ret[d] /\ cpc'[d] = cpc[d]
    BY DEF CallGiveUp, Finish, Goto, RefInv, OwnTypes, RetTypes
  <2> QED BY <1>1, <2>1, <2>2, <2>3 DEF SamePhase
<1>5. /\ phase[c] \in {"queued", "dropped", "taken", "settled"}
      /\ phase'[c] = IF phase[c] = "queued" THEN "gone" ELSE phase[c]
  <2>1. CASE answer[c] # None
    BY <1>1, <2>1, PhaseIs DEF PhaseCases
  <2>2. CASE answer[c] = None /\ InSlot(c)
    <3>1. ~Held(c) /\ ~Running(c)
      BY <2>2 DEF RefInv, Ownership, HeldIsOpen, Held, Running, OwnTypes
    <3> QED BY <1>1, <1>2, <1>3, <2>2, <3>1, PhaseIs DEF PhaseCases
  <2>3. CASE answer[c] = None /\ ~InSlot(c)
    <3>1. Held(c)
      BY <1>1, <2>3 DEF RefInv, Ownership, QueuedIsSomewhere, Queued, Held
    <3> QED BY <1>1, <1>2, <1>3, <2>3, <3>1, PhaseIs DEF PhaseCases
  <2> QED BY <2>1, <2>2, <2>3
<1>6. phase' = [phase EXCEPT ![c] = IF @ = "queued" THEN "gone" ELSE @]
  BY <1>4, <1>5, OnePhaseMoves
<1> QED BY <1>1, <1>3, <1>5, <1>6 DEF Abstract!GiveUp

LEMMA SettleStep ==
  ASSUME RefInv, NEW p \in Actors, NEW a \in Answers,
         hand[p] # None, Complete(p, a),
         pending' = pending, ret' = ret, sent' = sent,
         \A c \in Calls : cpc'[c] = "done" <=> cpc[c] = "done",
         \A v \in Workers : v # p => wpc'[v] = wpc[v],
         IF Running(hand[p]) THEN a \in RunAnswers ELSE a \in DropAnswers,
         a = "REPLIED" => sent[hand[p]] > 0
  PROVE  Abstract!Settle(hand[p], a)
<1> DEFINE c == hand[p]
<1>1. c \in Calls /\ answer[c] = None /\ ~InSlot(c) /\ Held(c)
  BY DEF RefInv, OwnTypes, Ownership, HeldIsOpen, Held
<1>2. phase[c] = IF Running(c) THEN "taken" ELSE "dropped"
  BY <1>1, PhaseIs DEF PhaseCases
<1>3. answer'[c] = a /\ a # None
  BY <1>1 DEF Complete, RefInv, OwnTypes
<1>4. phase'[c] = "settled"
  BY <1>1, <1>3, PhaseIs DEF PhaseCases
<1>5. ASSUME NEW d \in Calls \ {c}
      PROVE  SamePhase(d)
  <2>1. answer'[d] = answer[d] /\ (InSlot(d)' <=> InSlot(d))
    BY DEF Complete, RefInv, OwnTypes, InSlot
  <2>2. \A q \in Actors : hand'[q] = d <=> hand[q] = d
    BY DEF Complete, RefInv, OwnTypes
  <2>3. Held(d)' <=> Held(d)
    BY <2>2 DEF Held
  <2>4. Running(d)' <=> Running(d)
    BY <2>2 DEF Running, RefInv, OwnTypes
  <2> QED BY <2>1, <2>3, <2>4 DEF SamePhase
<1>6. phase' = [phase EXCEPT ![c] = "settled"]
  BY <1>1, <1>4, <1>5, OnePhaseMoves
<1> HIDE DEF c
<1> QED BY <1>2, <1>6 DEF Abstract!Settle, Abstract!RunAnswers, Abstract!DropAnswers,
        RunAnswers, DropAnswers, Complete, c

LEMMA CallSupersedeStep ==
  ASSUME RefInv, NEW c \in Calls, CallSupersede(c)
  PROVE  Abstract!Settle(hand[c], "SUPERSEDED") /\ hand[c] \in Calls
<1>1. c \in Actors /\ hand[c] # None /\ hand[c] \in Calls
  BY DEF CallSupersede, RefInv, OwnTypes, Ownership, HandsFollowPCs
<1>2. ~Running(hand[c])
  BY <1>1 DEF Running, RefInv, OwnTypes, Ownership, HeldOnce
<1>3. \A d \in Calls : cpc'[d] = "done" <=> cpc[d] = "done"
  BY DEF CallSupersede, Goto, RefInv, OwnTypes
<1>4. Complete(c, "SUPERSEDED") /\ wpc' = wpc /\ pending' = pending /\ ret' = ret /\ sent' = sent
  BY DEF CallSupersede, workers
<1>5. "SUPERSEDED" \in Answers /\ "SUPERSEDED" \in DropAnswers /\ "SUPERSEDED" # "REPLIED"
  BY DEF Answers, DropAnswers
<1> QED BY <1>1, <1>2, <1>3, <1>4, <1>5, SettleStep

\* Steps that move no request, answer no call and return to nobody.
LEMMA StutterStep ==
  ASSUME RefInv, pending' = pending, answer' = answer, ret' = ret, sent' = sent,
         hand' = hand,
         \A c \in Calls : cpc'[c] = "done" <=> cpc[c] = "done",
         \A w \in Workers : wpc'[w] = "running" <=> wpc[w] = "running"
  PROVE  Stutter
<1>1. ASSUME NEW c \in Calls
      PROVE  SamePhase(c)
  BY DEF SamePhase, InSlot, Running, Held
<1> QED BY <1>1, NoPhaseMoves DEF Stutter, Abstract!avars

LEMMA CallRefines ==
  ASSUME RefInv, NEW c \in Calls, CallStep(c)
  PROVE  [Abstract!Next]_(Abstract!avars)
<1> USE DEF Goto, workers
<1>0. cpc \in [Calls -> CallPCs] /\ wpc \in [Workers -> WorkerPCs]
  BY DEF RefInv, OwnTypes
<1>1. CASE CallBegin(c)
  <2>1. CASE cpc'[c] = "monitor"
    <3>1. Stutter
      BY <1>0, <1>1, <2>1, StutterStep DEF CallBegin, Finish
    <3> QED BY <3>1 DEF Stutter
  <2>2. CASE cpc'[c] # "monitor"
    <3>1. Finish(c, "REFUSED") /\ cpc[c] \in NotQueued
      BY <1>0, <1>1, <2>2 DEF CallBegin, NotQueued
    <3>2. Abstract!Refuse(c)
      BY <1>1, <3>1, RefuseStep DEF CallBegin
    <3> QED BY <3>2 DEF Abstract!Next
  <2> QED BY <2>1, <2>2
<1>2. CASE CallMonitor(c)
  <2>1. \A w \in Workers : wpc'[w] = "running" <=> wpc[w] = "running"
    BY <1>0, <1>2 DEF CallMonitor, StartMonitor, Alive
  <2>2. Stutter
    BY <1>0, <1>2, <2>1, StutterStep DEF CallMonitor
  <2> QED BY <2>2 DEF Stutter
<1>3. CASE CallRecheck(c)
  <2>1. CASE cpc'[c] = "enqueue"
    <3>1. Stutter
      BY <1>0, <1>3, <2>1, StutterStep DEF CallRecheck, Finish
    <3> QED BY <3>1 DEF Stutter
  <2>2. CASE cpc'[c] # "enqueue"
    <3>1. Finish(c, "REFUSED") /\ cpc[c] \in NotQueued
      BY <1>0, <1>3, <2>2 DEF CallRecheck, NotQueued
    <3>2. Abstract!Refuse(c)
      BY <1>3, <3>1, RefuseStep DEF CallRecheck
    <3> QED BY <3>2 DEF Abstract!Next
  <2> QED BY <2>1, <2>2
<1>4. CASE CallEnqueue(c)
  <2>1. {pending[CallKind[c]]} \ {None} \in SUBSET Calls
    BY DEF RefInv, OwnTypes
  <2> QED BY <1>4, <2>1, CallEnqueueStep DEF Abstract!Next
<1>5. CASE CallSupersede(c)
  <2>1. "SUPERSEDED" \in Abstract!Answers
    BY DEF Abstract!Answers, Abstract!DropAnswers
  <2> QED BY <1>5, <2>1, CallSupersedeStep DEF Abstract!Next
<1>6. CASE CallReturn(c)
  BY <1>6, CallReturnStep DEF Abstract!Next
<1>7. CASE CallTimeout(c)
  <2>1. Stutter
    BY <1>0, <1>7, StutterStep DEF CallTimeout
  <2> QED BY <2>1 DEF Stutter
<1>8. CASE CallGiveUp(c)
  BY <1>8, CallGiveUpStep DEF Abstract!Next
<1> QED BY <1>1, <1>2, <1>3, <1>4, <1>5, <1>6, <1>7, <1>8 DEF CallStep

-----------------------------------------------------------------------------
(* Whoever pops a mailbox: a sweeping worker or supervisor, or a worker that *)
(* takes a request to run it.                                                *)

LEMMA PopStep ==
  ASSUME RefInv, NEW p \in Actors, NEW k \in Kinds, NEW c \in Calls,
         hand[p] = None, pending[k] = c, PopPending(p, k),
         answer' = answer, ret' = ret, sent' = sent, cpc' = cpc,
         \A v \in Workers : v # p => wpc'[v] = wpc[v]
  PROVE  /\ p \in Workers /\ wpc'[p] = "running" => Abstract!Take(c)
         /\ ~(p \in Workers /\ wpc'[p] = "running") => Abstract!Drop(c)
<1>1. CallKind[c] = k /\ answer[c] = None /\ InSlot(c)
  BY DEF RefInv, OwnTypes, Ownership, PendingIsAwaited, InSlot
<1>2. ~Held(c)
  BY <1>1 DEF RefInv, OwnTypes, Ownership, HeldIsOpen, Held
<1>3. ~InSlot(c)' /\ Held(c)' /\ \A q \in Actors : hand'[q] = c <=> q = p
  BY <1>1, <1>2 DEF PopPending, RefInv, OwnTypes, InSlot, Held
<1>4. Running(c)' <=> p \in Workers /\ wpc'[p] = "running"
  BY <1>3 DEF Running, RefInv, OwnTypes
<1>5. phase[c] = "queued"
  BY <1>1, PhaseIs DEF PhaseCases
<1>6. phase'[c] = IF p \in Workers /\ wpc'[p] = "running" THEN "taken" ELSE "dropped"
  BY <1>1, <1>3, <1>4, PhaseIs DEF PhaseCases
<1>7. ASSUME NEW d \in Calls \ {c}
      PROVE  SamePhase(d)
  <2>1. InSlot(d)' <=> InSlot(d)
    BY DEF PopPending, RefInv, OwnTypes, InSlot
  <2>2. \A q \in Actors : hand'[q] = d <=> hand[q] = d
    BY DEF PopPending, RefInv, OwnTypes
  <2>3. (Held(d)' <=> Held(d)) /\ (Running(d)' <=> Running(d))
    BY <2>2 DEF Held, Running, RefInv, OwnTypes
  <2> QED BY <2>1, <2>3 DEF SamePhase
<1>8. phase' = [phase EXCEPT ![c] = phase'[c]]
  BY <1>1, <1>7, OnePhaseMoves
<1> QED BY <1>1, <1>5, <1>6, <1>8 DEF Abstract!Take, Abstract!Drop, Abstract!Move

LEMMA CancelRefines ==
  ASSUME RefInv, NEW p \in Actors, p \notin Calls,
         p \in Workers => wpc[p] # "running",
         CancelPop(p) \/ CancelComplete(p)
  PROVE  [Abstract!Next]_(Abstract!avars)
<1> USE DEF calls, workers
<1>1. CASE CancelPop(p)
  <2>1. NextSweep(p) \in Kinds
    BY DEF NextSweep, Kinds
  <2>2. CASE pending[NextSweep(p)] = None
    <3>1. hand' = hand /\ pending' = pending
      BY <1>1, <2>1, <2>2 DEF CancelPop, PopPending, RefInv, OwnTypes
    <3>2. Stutter
      BY <1>1, <3>1, StutterStep DEF CancelPop
    <3> QED BY <3>2 DEF Stutter
  <2>3. CASE pending[NextSweep(p)] # None
    <3>1. ~(p \in Workers /\ wpc'[p] = "running")
      BY <1>1 DEF CancelPop
    <3>2. pending[NextSweep(p)] \in Calls
      BY <2>1, <2>3 DEF RefInv, OwnTypes
    <3>3. Abstract!Drop(pending[NextSweep(p)])
      BY <1>1, <2>1, <3>1, <3>2, PopStep DEF CancelPop
    <3> QED BY <3>2, <3>3 DEF Abstract!Next
  <2> QED BY <2>2, <2>3
<1>2. CASE CancelComplete(p)
  <2>1. hand[p] # None /\ hand[p] \in Calls
    BY <1>2 DEF CancelComplete, RefInv, OwnTypes
  <2>2. ~Running(hand[p])
    BY <2>1 DEF Running, RefInv, OwnTypes, Ownership, HeldOnce
  <2>3. "CANCELLED" \in Answers /\ "CANCELLED" \in DropAnswers /\ "CANCELLED" # "REPLIED"
    BY DEF Answers, DropAnswers
  <2>4. Abstract!Settle(hand[p], "CANCELLED")
    BY <1>2, <2>1, <2>2, <2>3, SettleStep DEF CancelComplete
  <2>5. "CANCELLED" \in Abstract!Answers
    BY DEF Abstract!Answers, Abstract!DropAnswers
  <2> QED BY <2>1, <2>4, <2>5 DEF Abstract!Next
<1> QED BY <1>1, <1>2

-----------------------------------------------------------------------------
(* The workers. *)

LEMMA RunningHand ==
  ASSUME RefInv, NEW w \in Workers, wpc[w] = "running"
  PROVE  /\ w \in Actors /\ hand[w] \in Calls /\ hand[w] # None
         /\ Running(hand[w])
  BY DEF RefInv, OwnTypes, Ownership, HandsFollowPCs, Running

LEMMA WorkerSendStep ==
  ASSUME RefInv, NEW w \in Workers, WorkerSend(w)
  PROVE  Abstract!Send(hand[w]) /\ hand[w] \in Calls
<1>1. wpc[w] = "running" /\ hand[w] \in Calls /\ hand[w] # None /\ Running(hand[w])
  BY RunningHand DEF WorkerSend
<1>2. answer[hand[w]] = None /\ ~InSlot(hand[w])
  BY <1>1 DEF RefInv, OwnTypes, Ownership, HeldIsOpen
<1>3. phase[hand[w]] = "taken"
  BY <1>1, <1>2, PhaseIs DEF PhaseCases
<1>4. \A d \in Calls : SamePhase(d)
  BY DEF SamePhase, WorkerSend, InSlot, Running, Held, workers
<1>5. phase' = phase
  BY <1>4, NoPhaseMoves
<1> QED BY <1>1, <1>3, <1>5 DEF Abstract!Send, WorkerSend

LEMMA WorkerRefines ==
  ASSUME RefInv, NEW w \in Workers, WorkerStep(w)
  PROVE  [Abstract!Next]_(Abstract!avars)
<1>0. w \in Actors /\ w \notin Calls /\ wpc \in [Workers -> WorkerPCs]
  BY DEF RefInv, OwnTypes
<1>1. CASE WorkerSweeping(w) /\ (CancelPop(w) \/ CancelComplete(w))
  BY <1>0, <1>1, CancelRefines DEF WorkerSweeping
<1>2. CASE WorkerSend(w)
  BY <1>2, WorkerSendStep DEF Abstract!Next
<1> USE DEF WGoto, calls, workers
<1>3. CASE WorkerTake(w)
  <2>1. /\ hand[w] = None /\ wmode[w] \in Kinds /\ wpc'[w] = "running"
        /\ \A v \in Workers : v # w => wpc'[v] = wpc[v]
    BY <1>0, <1>3 DEF WorkerTake, RefInv, Ownership, HandsFollowPCs, EmptyHands
  <2>2. pending[wmode[w]] \in Calls
    BY <1>3, <2>1 DEF WorkerTake, RefInv, OwnTypes
  <2>3. Abstract!Take(pending[wmode[w]])
    BY <1>0, <1>3, <2>1, <2>2, PopStep DEF WorkerTake
  <2> QED BY <2>2, <2>3 DEF Abstract!Next
<1>4. CASE WorkerComplete(w)
  <2>1. /\ hand[w] \in Calls /\ hand[w] # None /\ Running(hand[w])
        /\ \A v \in Workers : v # w => wpc'[v] = wpc[v]
    BY <1>0, <1>4, RunningHand DEF WorkerComplete
  <2>2. "REPLIED" \in Answers /\ "REPLIED" \in RunAnswers
    BY DEF Answers, RunAnswers
  <2>3. Abstract!Settle(hand[w], "REPLIED")
    BY <1>0, <1>4, <2>1, <2>2, SettleStep DEF WorkerComplete
  <2>4. "REPLIED" \in Abstract!Answers
    BY DEF Abstract!Answers, Abstract!RunAnswers
  <2> QED BY <2>1, <2>3, <2>4 DEF Abstract!Next
<1>5. CASE WorkerException(w)
  <2>0. \A v \in Workers : v # w => wpc'[v] = wpc[v]
    BY <1>0, <1>5 DEF WorkerException
  <2>1. CASE hand[w] = None
    <3>1. wpc[w] # "running" /\ wpc'[w] # "running"
      BY <1>0, <1>5, <2>1 DEF WorkerException, RefInv, Ownership, HandsFollowPCs
    <3>2. Stutter
      BY <1>5, <2>0, <2>1, <3>1, StutterStep DEF WorkerException
    <3> QED BY <3>2 DEF Stutter
  <2>2. CASE hand[w] # None
    <3>1. wpc[w] = "running"
      BY <1>5, <2>2 DEF WorkerException, RefInv, Ownership, HandsFollowPCs, EmptyHands
    <3>2. hand[w] \in Calls /\ Running(hand[w])
      BY <3>1, RunningHand
    <3>3. "EXCEPTION" \in Answers /\ "EXCEPTION" \in RunAnswers /\ "EXCEPTION" # "REPLIED"
      BY DEF Answers, RunAnswers
    <3>4. Complete(w, "EXCEPTION")
      BY <1>5, <2>2 DEF WorkerException
    <3>5. Abstract!Settle(hand[w], "EXCEPTION")
      BY <1>0, <1>5, <2>0, <2>2, <3>2, <3>3, <3>4, SettleStep DEF WorkerException
    <3>6. "EXCEPTION" \in Abstract!Answers
      BY DEF Abstract!Answers, Abstract!RunAnswers
    <3> QED BY <3>2, <3>5, <3>6 DEF Abstract!Next
  <2> QED BY <2>1, <2>2
<1>6. CASE WorkerTop(w) \/ WorkerLockCheck(w) \/ WorkerRefresh(w)
           \/ WorkerPort(w) \/ WorkerHandshake(w) \/ WorkerIdle(w)
           \/ WorkerRecovered(w) \/ WorkerEnd(w)
  <2>1. /\ pending' = pending /\ answer' = answer /\ ret' = ret /\ sent' = sent
        /\ hand' = hand /\ cpc' = cpc
    BY <1>6 DEF WorkerTop, WorkerLockCheck, WorkerRefresh,
       WorkerPort, WorkerHandshake, WorkerIdle, WorkerRecovered, WorkerEnd
  <2>2. /\ wpc[w] # "running" /\ wpc'[w] # "running"
        /\ \A v \in Workers : v # w => wpc'[v] = wpc[v]
    BY <1>0, <1>6 DEF WorkerTop, WorkerLockCheck, WorkerRefresh,
       WorkerPort, WorkerHandshake, WorkerIdle,
       WorkerRecovered, WorkerEnd, Leave, OpenFails
  <2>3. Stutter
    BY <2>1, <2>2, StutterStep
  <2> QED BY <2>3 DEF Stutter
<1> QED BY <1>1, <1>2, <1>3, <1>4, <1>5, <1>6 DEF WorkerStep

-----------------------------------------------------------------------------
(* The supervisors, and the theorem. *)

LEMMA SuperRefines ==
  ASSUME RefInv, NEW s \in Supervisors,
         SuperStep(s) \/ \E o \in OpNames : SuperBegin(s, o)
  PROVE  [Abstract!Next]_(Abstract!avars)
<1>1. CASE spc[s] = "sweep" /\ (CancelPop(s) \/ CancelComplete(s))
  <2>1. s \in Actors /\ s \notin Calls /\ s \notin Workers
    BY DEF RefInv, OwnTypes
  <2> QED BY <1>1, <2>1, CancelRefines
<1>2. CASE ~(spc[s] = "sweep" /\ (CancelPop(s) \/ CancelComplete(s)))
  <2>1. /\ pending' = pending /\ answer' = answer /\ ret' = ret /\ sent' = sent
        /\ hand' = hand /\ cpc' = cpc
    BY <1>2 DEF SuperStep, SuperBegin, SuperLockCheck, SuperMark, SuperProbe, SuperLock,
       SuperSnapshot, SuperUnregister, SuperJoin, SuperSwept, SuperRejoin,
       SuperEsptool, SuperFlashed, SuperUnlock, SuperStart, calls
  <2>2. wpc' = wpc \/ StartMonitor
    BY <1>2 DEF SuperStep, SuperBegin, SuperLockCheck, SuperMark, SuperProbe, SuperLock,
       SuperSnapshot, SuperUnregister, SuperJoin, SuperSwept, SuperRejoin,
       SuperEsptool, SuperFlashed, SuperUnlock, SuperStart, workers
  <2>3. \A w \in Workers : wpc'[w] = "running" <=> wpc[w] = "running"
    BY <2>2 DEF StartMonitor, Alive, workers, RefInv, OwnTypes
  <2>4. Stutter
    BY <2>1, <2>3, StutterStep
  <2> QED BY <2>4 DEF Stutter
<1> QED BY <1>1, <1>2

LEMMA InitRefines == Init => Abstract!Init
<1> SUFFICES ASSUME Init PROVE Abstract!Init
  OBVIOUS
<1>1. OwnTypes
  BY TypeInit, TypesOfOwnership
<1>2. ASSUME NEW c \in Calls
      PROVE  phase[c] = "new"
  <2>1. answer[c] = None /\ ~InSlot(c) /\ ~Held(c) /\ ~Running(c) /\ cpc[c] # "done"
    BY <1>1 DEF Init, OwnTypes, InSlot, Held, Running
  <2> QED BY <2>1, PhaseIs DEF PhaseCases
<1>3. phase = [c \in Calls |-> "new"]
  BY <1>2, PhaseIsFunction
<1> QED BY <1>3 DEF Init, Abstract!Init

LEMMA ReturnedNext ==
  ASSUME RefInv, TypeOK', [Next]_vars
  PROVE  RetTypes' /\ ReturnedIsDone'
<1>0. RetTypes'
  BY ConstantsAssumption DEF ConstantsAssumption, TypeOK, RetTypes
<1>1. ASSUME ret' = ret, \A c \in Calls : cpc'[c] = "done" <=> cpc[c] = "done"
      PROVE  ReturnedIsDone'
  BY <1>1 DEF RefInv, ReturnedIsDone
<1>2. ASSUME NEW c \in Calls, NEW a \in Returns, Finish(c, a)
      PROVE  ReturnedIsDone'
  BY <1>2 DEF Finish, Goto, RefInv, ReturnedIsDone, OwnTypes, RetTypes
<1>3. ASSUME NEW c \in Calls, CallStep(c)
      PROVE  ReturnedIsDone'
  <2>1. CASE \E a \in Returns : Finish(c, a)
    BY <1>2, <2>1
  <2>2. CASE ~\E a \in Returns : Finish(c, a)
    <3>1. answer[c] # None => answer[c] \in Returns
      BY DEF RefInv, OwnTypes, Returns
    <3>2. {"REFUSED", "TIMEOUT"} \subseteq Returns
      BY DEF Returns
    <3>3. cpc \in [Calls -> CallPCs]
      BY DEF RefInv, OwnTypes
    <3>4. ret' = ret /\ \A d \in Calls : cpc'[d] = "done" <=> cpc[d] = "done"
      BY <1>3, <2>2, <3>1, <3>2, <3>3 DEF CallStep, CallBegin, CallMonitor, CallRecheck,
         CallEnqueue, CallSupersede, CallReturn, CallTimeout, CallGiveUp, Goto
    <3> QED BY <1>1, <3>4
  <2> QED BY <2>1, <2>2
<1>4. ASSUME NEW w \in Workers, WorkerStep(w)
      PROVE  ReturnedIsDone'
  BY <1>1, <1>4 DEF WorkerStep, WorkerTop, WorkerLockCheck, WorkerRefresh,
     WorkerPort, WorkerHandshake, WorkerTake,
     WorkerIdle, WorkerSend, WorkerComplete, WorkerException, WorkerRecovered,
     WorkerEnd, CancelPop, CancelComplete, calls
<1>5. ASSUME NEW s \in Supervisors, SuperStep(s) \/ \E o \in OpNames : SuperBegin(s, o)
      PROVE  ReturnedIsDone'
  BY <1>1, <1>5 DEF SuperStep, SuperBegin, SuperLockCheck, SuperMark, SuperProbe, SuperLock,
     SuperSnapshot, SuperUnregister, SuperJoin, SuperSwept, SuperRejoin, SuperEsptool,
     SuperFlashed, SuperUnlock, SuperStart, CancelPop, CancelComplete, calls
<1>6. CASE (\E m \in SwitchModes : SetMessageType(m)) \/ ForgetDevice \/ UNCHANGED vars
  <2>1. ret' = ret /\ cpc' = cpc
    BY <1>6 DEF SetMessageType, ForgetDevice, vars, calls
  <2>2. \A c \in Calls : cpc'[c] = "done" <=> cpc[c] = "done"
    BY <2>1
  <2> QED BY <1>0, <1>1, <2>1, <2>2
<1> QED BY <1>0, <1>3, <1>4, <1>5, <1>6 DEF Next

LEMMA NextRefines == ASSUME RefInv, [Next]_vars PROVE [Abstract!Next]_(Abstract!avars)
<1>1. CASE (\E m \in SwitchModes : SetMessageType(m)) \/ ForgetDevice \/ UNCHANGED vars
  <2>1. /\ pending' = pending /\ answer' = answer /\ ret' = ret /\ sent' = sent
        /\ hand' = hand /\ cpc' = cpc /\ wpc' = wpc
    BY <1>1 DEF SetMessageType, ForgetDevice, vars, calls, workers
  <2>2. Stutter
    BY <2>1, StutterStep
  <2> QED BY <2>2 DEF Stutter
<1> QED BY <1>1, CallRefines, WorkerRefines, SuperRefines DEF Next

\* Whatever the threads do, a caller of the command API sees what CommandCalls
\* promises: its call is refused or queued, taken or withdrawn once, sent only
\* when taken, answered once and with an answer that says whether it was sent.
THEOREM KeepaliveImplementsCommandCalls == Spec => CallsSpec
<1>1. Init => TypeOK /\ RefInv
  <2> SUFFICES ASSUME Init PROVE TypeOK /\ RefInv
    OBVIOUS
  <2>1. RetTypes /\ ReturnedIsDone
    BY ConstantsAssumption, TypeInit
    DEF ConstantsAssumption, Init, TypeOK, RetTypes, ReturnedIsDone
  <2> QED BY <2>1, TypeInit, TypesOfOwnership, OwnershipInit DEF RefInv
<1>2. TypeOK /\ RefInv /\ [Next]_vars => (TypeOK /\ RefInv)'
  <2> SUFFICES ASSUME TypeOK, RefInv, [Next]_vars PROVE (TypeOK /\ RefInv)'
    OBVIOUS
  <2>1. TypeOK' /\ Ownership'
    BY TypeNext, OwnershipNext DEF RefInv
  <2>2. OwnTypes'
    BY <2>1, ConstantsAssumption
    DEF ConstantsAssumption, Actors, OwnTypes, TypeOK, Returns
  <2> QED BY <2>1, <2>2, ReturnedNext DEF RefInv
<1> QED BY <1>1, <1>2, InitRefines, NextRefines, PTL DEF Spec, CallsSpec, Abstract!Spec
=============================================================================
