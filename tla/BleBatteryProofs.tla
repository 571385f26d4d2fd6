--------------------------- MODULE BleBatteryProofs ---------------------------
(***************************************************************************)
(* Theorems about BleBattery for any battery levels, any number of pin     *)
(* changes and any number of faults.                                       *)
(***************************************************************************)
EXTENDS BleBattery, SequenceTheorems, TLAPS

\* The part of TypeOK that the calls of a thread write.
CallTypeOK ==
  /\ job \in [Threads -> Jobs]
  /\ calls \in [Threads -> Seq(Frames)]
  /\ ble \in [level : 0 .. 100, charging : BOOLEAN,
              charge_level : ChargeLevels, charge_state : ChargeStates]
  /\ bas \in [level : 0 .. 100, charge_level : ChargeLevels, charge_state : ChargeStates]
  /\ publishFailed \in BOOLEAN
  /\ poll \in BOOLEAN

\* The part of TypeOK that they do not write.
OtherTypeOK ==
  /\ pin \in BOOLEAN /\ edges \in 0 .. MaxEdges /\ faults \in 0 .. MaxFaults
  /\ last_charging_state \in BOOLEAN /\ debounce \in BOOLEAN
  /\ sample \in [valid : BOOLEAN, level : 0 .. 100, charging : BOOLEAN]
  /\ connected_count \in 0 .. 1

LEMMA TypeParts == TypeOK <=> CallTypeOK /\ OtherTypeOK
BY Zenon DEF TypeOK, CallTypeOK, OtherTypeOK

\* A client is counted only after the sensor manager's sample.
AttachInv == job[Rx] \in {"connect", "attach"} => connected_count = 0

IInv == TypeOK /\ AttachInv /\ DerivedConsistent /\ PollAlive

-----------------------------------------------------------------------------
(* The stack of calls *)

LEMMA TopType ==
  ASSUME CallTypeOK, NEW t \in Threads, calls[t] # <<>>
  PROVE  Head(calls[t]) \in Frames /\ Below(t) \in Seq(Frames)
<1>1. calls[t] \in Seq(Frames)
  BY DEF CallTypeOK
<1>2. QED
  BY <1>1, HeadTailProperties DEF Below

LEMMA FrameMoves ==
  ASSUME NEW f \in Frames, NEW place \in {"fetch", "resume", "notify", "status"}
  PROVE  /\ [f EXCEPT !.at = place] \in Frames
         /\ \A level \in 0 .. 100, charging \in BOOLEAN :
              [f EXCEPT !.at = place, !.level = level, !.charging = charging] \in Frames
BY DEF Frames

LEMMA FetchingType == ASSUME NEW by \in {"ble", "sm"} PROVE Fetching(by) \in Frames
BY DEF Fetching, Frames

LEMMA PushType ==
  ASSUME CallTypeOK, NEW t \in Threads, NEW frame \in Frames, NEW below \in Seq(Frames),
         Push(t, frame, below)
  PROVE  calls' \in [Threads -> Seq(Frames)]
<1>1. <<frame>> \in Seq(Frames)
  OBVIOUS
<1>2. <<frame>> \o below \in Seq(Frames)
  BY <1>1, ConcatProperties
<1>3. QED
  BY <1>2 DEF Push, CallTypeOK

LEMMA StateTypes ==
  ASSUME NEW level \in 0 .. 100, NEW charging \in BOOLEAN
  PROVE  /\ ChargeLevel(level) \in ChargeLevels
         /\ ChargeState(charging, level) \in ChargeStates
         /\ BatteryState(level, charging) \in
              [level : 0 .. 100, charging : BOOLEAN,
               charge_level : ChargeLevels, charge_state : ChargeStates]
<1>1. ChargeLevel(level) \in ChargeLevels
  BY DEF ChargeLevel, ChargeLevels
<1>2. ChargeState(charging, level) \in ChargeStates
  BY DEF ChargeState, ChargeStates
<1>3. QED
  BY <1>1, <1>2 DEF BatteryState

-----------------------------------------------------------------------------
(* What a call writes has its type *)

LEMMA ReturnType ==
  ASSUME CallTypeOK, NEW t \in Threads, calls[t] # <<>>, NEW ok, Return(t, ok)
  PROVE  /\ job' \in [Threads -> Jobs] /\ poll' \in BOOLEAN
         /\ calls' \in [Threads -> Seq(Frames)]
<1>1. calls' \in [Threads -> Seq(Frames)]
  BY TopType DEF Return, CallTypeOK
<1>2. job' \in [Threads -> Jobs]
  BY DEF Return, CallTypeOK, Jobs, Afterwards
<1>3. poll' \in BOOLEAN
  BY Zenon DEF Return, CallTypeOK
<1>4. QED
  BY <1>1, <1>2, <1>3

LEMMA ChargingStatusChangedType ==
  ASSUME TypeOK, NEW t \in Threads, NEW below \in Seq(Frames), ChargingStatusChanged(t, below),
         job' \in [Threads -> Jobs]
  PROVE  CallTypeOK'
<1>1. CallTypeOK /\ pin \in BOOLEAN
  BY TypeParts DEF OtherTypeOK
<1>2. ChargeState(pin, ble.level) \in ChargeStates
  BY <1>1, StateTypes DEF CallTypeOK
<1>3. ble' \in [level : 0 .. 100, charging : BOOLEAN,
                charge_level : ChargeLevels, charge_state : ChargeStates]
  BY <1>1, <1>2 DEF ChargingStatusChanged, CallTypeOK
<1>4. calls' \in [Threads -> Seq(Frames)]
  BY <1>1, PushType, FetchingType DEF ChargingStatusChanged
<1>5. QED
  BY <1>1, <1>3, <1>4 DEF ChargingStatusChanged, CallTypeOK

LEMMA ContinueType ==
  ASSUME CallTypeOK, NEW t \in Threads, calls[t] # <<>>,
         NEW level \in 0 .. 100, NEW charging \in BOOLEAN, Continue(t, level, charging)
  PROVE  CallTypeOK'
<1>1. CASE Return(t, TRUE) /\ UNCHANGED bleVars
  BY <1>1, ReturnType DEF CallTypeOK, bleVars
<1>2. CASE /\ ble' = BatteryState(level, charging)
           /\ bas' = [bas EXCEPT !.level = level]
           /\ Push(t, [Head(calls[t]) EXCEPT !.at = "notify"], Below(t))
           /\ UNCHANGED <<publishFailed, job, poll>>
  <2>1. calls' \in [Threads -> Seq(Frames)]
    BY <1>2, TopType, FrameMoves, PushType
  <2>2. bas' \in [level : 0 .. 100, charge_level : ChargeLevels, charge_state : ChargeStates]
    BY <1>2 DEF CallTypeOK
  <2>3. QED
    BY <1>2, <2>1, <2>2, StateTypes DEF CallTypeOK
<1>3. QED
  BY <1>1, <1>2 DEF Continue, UpdateManual

LEMMA IsChargingType ==
  ASSUME TypeOK, NEW t \in Threads, calls[t] # <<>>, NEW level \in 0 .. 100, IsCharging(t, level)
  PROVE  CallTypeOK' /\ last_charging_state' \in BOOLEAN
<1>1. CallTypeOK /\ pin \in BOOLEAN
  BY TypeParts DEF OtherTypeOK
<1>2. last_charging_state' \in BOOLEAN
  BY <1>1 DEF IsCharging
<1>3. CASE Continue(t, level, pin)
  BY <1>1, <1>2, <1>3, ContinueType
<1>4. CASE /\ ChargingStatusChanged(t,
                <<[Head(calls[t]) EXCEPT !.at = "resume", !.level = level, !.charging = pin]>>
                \o Below(t))
           /\ UNCHANGED job
  <2> DEFINE frame == [Head(calls[t]) EXCEPT !.at = "resume", !.level = level, !.charging = pin]
  <2>1. frame \in Frames
    BY <1>1, TopType, FrameMoves
  <2>2. <<frame>> \in Seq(Frames) /\ Below(t) \in Seq(Frames)
    BY <1>1, <2>1, TopType
  <2>3. <<frame>> \o Below(t) \in Seq(Frames)
    BY <2>2, ConcatProperties
  <2>4. job' \in [Threads -> Jobs]
    BY <1>1, <1>4 DEF CallTypeOK
  <2>5. QED
    BY <1>2, <1>4, <2>3, <2>4, ChargingStatusChangedType
<1>5. QED
  BY <1>3, <1>4 DEF IsCharging

-----------------------------------------------------------------------------
(* What a call does to the derived values, to its job and to the poll *)

LEMMA DerivedOfState ==
  ASSUME NEW level, NEW charging, ble' = BatteryState(level, charging)
  PROVE  DerivedConsistent'
BY DEF DerivedConsistent, BatteryState

LEMMA DerivedOfCallback ==
  ASSUME CallTypeOK, DerivedConsistent, NEW t, NEW below, ChargingStatusChanged(t, below)
  PROVE  DerivedConsistent'
BY DEF DerivedConsistent, ChargingStatusChanged, CallTypeOK

LEMMA DerivedOfContinue ==
  ASSUME DerivedConsistent, NEW t, NEW level, NEW charging, Continue(t, level, charging)
  PROVE  DerivedConsistent'
<1>1. ble' = BatteryState(level, charging) \/ UNCHANGED ble
  BY DEF Continue, UpdateManual, bleVars
<1>2. CASE UNCHANGED ble
  BY <1>2 DEF DerivedConsistent
<1>3. QED
  BY <1>1, <1>2, DerivedOfState

LEMMA DerivedOfIsCharging ==
  ASSUME CallTypeOK, DerivedConsistent, NEW t, NEW level, IsCharging(t, level)
  PROVE  DerivedConsistent'
BY DerivedOfCallback, DerivedOfContinue DEF IsCharging

\* A thread either keeps its job and the poll, or ends its job and arms the
\* poll when on_connected() and the poll handler do.
CallEnds(t) ==
  /\ job' = [job EXCEPT ![t] = Afterwards(job[t])]
  /\ poll' = (poll \/ (Periodic /\ job[t] \in {"update", "poll"}))

JobMoves(t) == UNCHANGED <<job, poll>> \/ CallEnds(t)

LEMMA ReturnMoves == ASSUME NEW t, NEW ok, Return(t, ok) PROVE JobMoves(t)
BY Zenon DEF Return, JobMoves, CallEnds

LEMMA ContinueMoves ==
  ASSUME NEW t, NEW level, NEW charging, Continue(t, level, charging) PROVE JobMoves(t)
<1>1. CASE Return(t, TRUE)
  BY <1>1, ReturnMoves
<1>2. CASE UNCHANGED <<job, poll>>
  BY <1>2 DEF JobMoves
<1>3. QED
  BY <1>1, <1>2 DEF Continue, UpdateManual

LEMMA IsChargingMoves ==
  ASSUME NEW t, NEW level, IsCharging(t, level) PROVE JobMoves(t)
<1>1. CASE Continue(t, level, pin)
  BY <1>1, ContinueMoves
<1>2. CASE UNCHANGED <<job, poll>>
  BY <1>2 DEF JobMoves
<1>3. QED
  BY <1>1, <1>2 DEF IsCharging, ChargingStatusChanged

LEMMA StepMoves ==
  ASSUME CallTypeOK, AttachInv, PollAlive, UNCHANGED connected_count,
         NEW t \in Threads, JobMoves(t)
  PROVE  AttachInv' /\ PollAlive'
<1>1. CASE UNCHANGED <<job, poll>>
  BY <1>1 DEF AttachInv, PollAlive
<1>2. CASE CallEnds(t)
  <2>1. job \in [Threads -> Jobs] /\ poll \in BOOLEAN /\ Rx \in Threads /\ WorkQueue \in Threads
    BY DEF CallTypeOK, Threads
  <2>2. AttachInv'
    BY <1>2, <2>1 DEF CallEnds, AttachInv, Afterwards
  <2>3. PollAlive'
    <3> SUFFICES ASSUME Periodic, connected_count > 0
                 PROVE  poll' \/ job'[Rx] = "update" \/ job'[WorkQueue] = "poll"
      BY DEF PollAlive
    <3>1. CASE job[t] \in {"update", "poll"}
      BY Zenon, <1>2, <3>1 DEF CallEnds
    <3>2. CASE job[t] \notin {"update", "poll"}
      <4>1. poll \/ job[Rx] = "update" \/ job[WorkQueue] = "poll"
        BY DEF PollAlive
      <4>2. CASE poll
        BY Zenon, <1>2, <4>2 DEF CallEnds
      <4>3. CASE job[Rx] = "update"
        <5>1. t # Rx
          BY <3>2, <4>3
        <5>2. job'[Rx] = job[Rx]
          BY <1>2, <2>1, <5>1 DEF CallEnds
        <5>3. QED
          BY <4>3, <5>2
      <4>4. CASE job[WorkQueue] = "poll"
        <5>1. t # WorkQueue
          BY <3>2, <4>4
        <5>2. job'[WorkQueue] = job[WorkQueue]
          BY <1>2, <2>1, <5>1 DEF CallEnds
        <5>3. QED
          BY <4>4, <5>2
      <4>5. QED
        BY <4>1, <4>2, <4>3, <4>4
    <3>3. QED
      BY <3>1, <3>2
  <2>4. QED
    BY <2>2, <2>3
<1>3. QED
  BY <1>1, <1>2 DEF JobMoves

-----------------------------------------------------------------------------
(* The invariant *)

LEMMA InvInit == Init => IInv
<1> SUFFICES ASSUME Init PROVE IInv
  OBVIOUS
<1>1. Fetching("sm") \in Frames /\ <<Fetching("sm")>> \in Seq(Frames)
  BY FetchingType
<1>2. calls \in [Threads -> Seq(Frames)]
  BY <1>1 DEF Init
<1>3. job \in [Threads -> Jobs]
  BY DEF Init, Jobs
<1>4. CallTypeOK
  <2>1. 0 \in 0 .. 100 /\ 100 \in 0 .. 100
    OBVIOUS
  <2>2. "unknown" \in ChargeLevels /\ "unknown" \in ChargeStates
    BY DEF ChargeLevels, ChargeStates
  <2>3. /\ ble \in [level : 0 .. 100, charging : BOOLEAN,
                    charge_level : ChargeLevels, charge_state : ChargeStates]
        /\ bas \in [level : 0 .. 100, charge_level : ChargeLevels, charge_state : ChargeStates]
    BY <2>1, <2>2 DEF Init
  <2>4. poll \in BOOLEAN /\ publishFailed \in BOOLEAN
    BY DEF Init
  <2>5. QED
    BY <1>2, <1>3, <2>3, <2>4 DEF CallTypeOK
<1>5. OtherTypeOK
  <2>1. pin \in BOOLEAN /\ debounce \in BOOLEAN
    BY DEF Init
  <2>2. last_charging_state \in BOOLEAN
    BY <2>1, Zenon DEF Init
  <2>3. /\ edges \in 0 .. MaxEdges /\ faults \in 0 .. MaxFaults /\ connected_count \in 0 .. 1
        /\ sample \in [valid : BOOLEAN, level : 0 .. 100, charging : BOOLEAN]
    BY BoundsAssumption DEF Init
  <2>4. QED
    BY <2>1, <2>2, <2>3 DEF OtherTypeOK
<1>6. AttachInv /\ DerivedConsistent /\ PollAlive
  BY DEF Init, AttachInv, DerivedConsistent, PollAlive
<1>7. QED
  BY <1>4, <1>5, <1>6, TypeParts DEF IInv

LEMMA InvFetchSucceeds ==
  ASSUME IInv, NEW t \in Threads, FetchSucceeds(t) PROVE IInv'
<1>1. TypeOK /\ CallTypeOK /\ OtherTypeOK /\ calls[t] # <<>>
  BY TypeParts DEF IInv, FetchSucceeds, At
<1>2. PICK level \in Levels :
        /\ IsCharging(t, level)
        /\ sample' = IF job[t] = "boot"
                       THEN [valid |-> TRUE, level |-> level, charging |-> pin] ELSE sample
  BY DEF FetchSucceeds
<1>3. level \in 0 .. 100
  BY LevelsAssumption
<1>4. CallTypeOK' /\ last_charging_state' \in BOOLEAN
  BY <1>1, <1>2, <1>3, IsChargingType
<1>5. OtherTypeOK'
  BY <1>1, <1>2, <1>3, <1>4 DEF FetchSucceeds, OtherTypeOK, pinVars
<1>6. DerivedConsistent'
  BY <1>1, <1>2, DerivedOfIsCharging DEF IInv
<1>7. AttachInv' /\ PollAlive'
  BY <1>1, <1>2, IsChargingMoves, StepMoves DEF IInv, FetchSucceeds
<1>8. QED
  BY <1>4, <1>5, <1>6, <1>7, TypeParts DEF IInv, TypeOK, CallTypeOK, OtherTypeOK

LEMMA InvFetchFails ==
  ASSUME IInv, NEW t \in Threads, FetchFails(t) PROVE IInv'
<1>1. TypeOK /\ CallTypeOK /\ OtherTypeOK /\ calls[t] # <<>>
  BY TypeParts DEF IInv, FetchFails, At
<1>2. /\ faults' \in 0 .. MaxFaults
      /\ UNCHANGED <<pinVars, debounce, sample, connected_count>>
  BY <1>1, BoundsAssumption DEF FetchFails, OtherTypeOK
<1>3. CASE Return(t, FALSE) /\ UNCHANGED <<last_charging_state, bleVars>>
  <2>1. CallTypeOK'
    BY <1>1, <1>3, ReturnType DEF CallTypeOK, bleVars
  <2>2. OtherTypeOK'
    BY <1>1, <1>2, <1>3 DEF OtherTypeOK, pinVars
  <2>3. DerivedConsistent'
    BY <1>3 DEF IInv, DerivedConsistent, bleVars
  <2>4. AttachInv' /\ PollAlive'
    BY <1>1, <1>2, <1>3, ReturnMoves, StepMoves DEF IInv
  <2>5. QED
    BY <2>1, <2>2, <2>3, <2>4 DEF IInv, TypeOK, CallTypeOK, OtherTypeOK
<1>4. CASE IsCharging(t, 0)
  <2>1. CallTypeOK' /\ last_charging_state' \in BOOLEAN
    BY <1>1, <1>4, IsChargingType
  <2>2. OtherTypeOK'
    BY <1>1, <1>2, <2>1 DEF OtherTypeOK, pinVars
  <2>3. DerivedConsistent'
    BY <1>1, <1>4, DerivedOfIsCharging DEF IInv
  <2>4. AttachInv' /\ PollAlive'
    BY <1>1, <1>2, <1>4, IsChargingMoves, StepMoves DEF IInv
  <2>5. QED
    BY <2>1, <2>2, <2>3, <2>4 DEF IInv, TypeOK, CallTypeOK, OtherTypeOK
<1>5. QED
  BY <1>3, <1>4 DEF FetchFails

LEMMA InvResume ==
  ASSUME IInv, NEW t \in Threads, Resume(t) PROVE IInv'
<1>1. TypeOK /\ CallTypeOK /\ OtherTypeOK /\ calls[t] # <<>>
  BY TypeParts DEF IInv, Resume, At
<1>2. Head(calls[t]).level \in 0 .. 100 /\ Head(calls[t]).charging \in BOOLEAN
  BY <1>1, TopType DEF Frames
<1>3. CallTypeOK'
  BY <1>1, <1>2, ContinueType DEF Resume
<1>4. OtherTypeOK'
  BY <1>1 DEF Resume, OtherTypeOK, pinVars
<1>5. DerivedConsistent'
  BY DerivedOfContinue DEF Resume, IInv
<1>6. AttachInv' /\ PollAlive'
  BY <1>1, ContinueMoves, StepMoves DEF IInv, Resume
<1>7. QED
  BY <1>3, <1>4, <1>5, <1>6 DEF IInv, TypeOK, CallTypeOK, OtherTypeOK

LEMMA InvNotifySucceeds ==
  ASSUME IInv, NEW t \in Threads, NotifySucceeds(t) PROVE IInv'
<1>1. TypeOK /\ CallTypeOK /\ OtherTypeOK /\ calls[t] # <<>>
  BY TypeParts DEF IInv, NotifySucceeds, At
<1>2. calls' \in [Threads -> Seq(Frames)]
  <2>1. [Head(calls[t]) EXCEPT !.at = "status"] \in Frames /\ Below(t) \in Seq(Frames)
    BY <1>1, TopType, FrameMoves
  <2>2. QED
    BY <1>1, <2>1, PushType DEF NotifySucceeds
<1>3. CallTypeOK'
  BY <1>1, <1>2 DEF NotifySucceeds, CallTypeOK
<1>4. OtherTypeOK'
  BY <1>1 DEF NotifySucceeds, OtherTypeOK, pinVars
<1>5. DerivedConsistent'
  BY DEF NotifySucceeds, IInv, DerivedConsistent
<1>6. AttachInv' /\ PollAlive'
  BY <1>1, StepMoves DEF IInv, NotifySucceeds, JobMoves
<1>7. QED
  BY <1>3, <1>4, <1>5, <1>6 DEF IInv, TypeOK, CallTypeOK, OtherTypeOK

LEMMA InvNotifyFails ==
  ASSUME IInv, NEW t \in Threads, NotifyFails(t) PROVE IInv'
<1>1. TypeOK /\ CallTypeOK /\ OtherTypeOK /\ calls[t] # <<>>
  BY TypeParts DEF IInv, NotifyFails, At
<1>2. CallTypeOK'
  BY <1>1, ReturnType DEF NotifyFails, CallTypeOK
<1>3. faults' \in 0 .. MaxFaults
  BY <1>1, BoundsAssumption DEF NotifyFails, OtherTypeOK
<1>4. OtherTypeOK'
  BY <1>1, <1>3 DEF NotifyFails, OtherTypeOK, pinVars
<1>5. DerivedConsistent'
  BY DEF NotifyFails, IInv, DerivedConsistent
<1>6. AttachInv' /\ PollAlive'
  BY <1>1, ReturnMoves, StepMoves DEF IInv, NotifyFails
<1>7. QED
  BY <1>2, <1>4, <1>5, <1>6 DEF IInv, TypeOK, CallTypeOK, OtherTypeOK

LEMMA InvStatusSent ==
  ASSUME IInv, NEW t \in Threads, StatusSent(t) PROVE IInv'
<1>1. TypeOK /\ CallTypeOK /\ OtherTypeOK /\ calls[t] # <<>>
  BY TypeParts DEF IInv, StatusSent, At
<1>2. bas' \in [level : 0 .. 100, charge_level : ChargeLevels, charge_state : ChargeStates]
  BY <1>1 DEF StatusSent, PublishedWithLevel, CallTypeOK
<1>3. CallTypeOK'
  BY <1>1, <1>2, ReturnType DEF StatusSent, CallTypeOK
<1>4. OtherTypeOK'
  BY <1>1 DEF StatusSent, OtherTypeOK, pinVars
<1>5. DerivedConsistent'
  BY DEF StatusSent, IInv, DerivedConsistent
<1>6. AttachInv' /\ PollAlive'
  BY <1>1, ReturnMoves, StepMoves DEF IInv, StatusSent
<1>7. QED
  BY <1>3, <1>4, <1>5, <1>6 DEF IInv, TypeOK, CallTypeOK, OtherTypeOK

LEMMA InvStep == ASSUME IInv, NEW t \in Threads, Step(t) PROVE IInv'
BY InvFetchSucceeds, InvFetchFails, InvResume, InvNotifySucceeds, InvNotifyFails, InvStatusSent
   DEF Step

LEMMA InvPinEdge == ASSUME IInv, PinEdge PROVE IInv'
<1>1. CallTypeOK /\ OtherTypeOK
  BY TypeParts DEF IInv
<1>2. CallTypeOK'
  BY <1>1 DEF PinEdge, CallTypeOK, bleVars
<1>3. edges' \in 0 .. MaxEdges
  BY <1>1, BoundsAssumption DEF PinEdge, OtherTypeOK
<1>4. pin' \in BOOLEAN /\ debounce' \in BOOLEAN
  BY Zenon DEF PinEdge, ScheduleAfterCancel
<1>5. OtherTypeOK'
  BY <1>1, <1>3, <1>4 DEF PinEdge, OtherTypeOK
<1>6. AttachInv' /\ DerivedConsistent' /\ PollAlive'
  BY DEF PinEdge, IInv, AttachInv, DerivedConsistent, PollAlive, bleVars
<1>7. QED
  BY <1>2, <1>5, <1>6 DEF IInv, TypeOK, CallTypeOK, OtherTypeOK

LEMMA InvDebounceWork == ASSUME IInv, DebounceWork PROVE IInv'
<1>1. TypeOK /\ CallTypeOK /\ OtherTypeOK
  BY TypeParts DEF IInv
<1>2. OtherTypeOK'
  BY <1>1 DEF DebounceWork, OtherTypeOK, pinVars
<1>3. CASE UNCHANGED <<job, calls, bleVars, poll>>
  <2>1. CallTypeOK'
    BY <1>1, <1>3 DEF CallTypeOK, bleVars
  <2>2. AttachInv' /\ DerivedConsistent' /\ PollAlive'
    BY <1>3 DEF DebounceWork, IInv, AttachInv, DerivedConsistent, PollAlive, bleVars
  <2>3. QED
    BY <1>2, <2>1, <2>2 DEF IInv, TypeOK, CallTypeOK, OtherTypeOK
<1>4. CASE /\ job' = [job EXCEPT ![WorkQueue] = "debounce"]
           /\ ChargingStatusChanged(WorkQueue, <<>>)
  <2>1. job' \in [Threads -> Jobs]
    BY <1>1, <1>4 DEF CallTypeOK, Jobs
  <2>2. CallTypeOK'
    <3>1. <<>> \in Seq(Frames) /\ WorkQueue \in Threads
      BY DEF Threads
    <3>2. QED
      BY <1>1, <1>4, <2>1, <3>1, ChargingStatusChangedType
  <2>3. DerivedConsistent'
    BY <1>1, <1>4, DerivedOfCallback DEF IInv
  <2>4. job'[Rx] = job[Rx] /\ UNCHANGED <<poll, connected_count>>
    BY <1>1, <1>4, ThreadsAssumption DEF CallTypeOK, Threads, ChargingStatusChanged, DebounceWork
  <2>5. job[WorkQueue] # "poll"
    BY DEF DebounceWork, Idle
  <2>6. AttachInv' /\ PollAlive'
    BY <2>4, <2>5 DEF IInv, AttachInv, PollAlive
  <2>7. QED
    BY <1>2, <2>2, <2>3, <2>6 DEF IInv, TypeOK, CallTypeOK, OtherTypeOK
<1>5. QED
  BY <1>3, <1>4 DEF DebounceWork

LEMMA InvSeed == ASSUME IInv, Seed PROVE IInv'
<1>1. CallTypeOK /\ OtherTypeOK /\ Main \in Threads
  BY TypeParts DEF IInv, Threads
<1>2. OtherTypeOK'
  BY <1>1 DEF Seed, OtherTypeOK, pinVars
<1>3. sample.level \in 0 .. 100 /\ sample.charging \in BOOLEAN
  BY <1>1 DEF OtherTypeOK
<1>4. job' \in [Threads -> Jobs]
  BY <1>1 DEF Seed, CallTypeOK, Jobs
<1>5. ASSUME UNCHANGED <<ble, bas>> PROVE CallTypeOK' /\ DerivedConsistent'
  <2>1. CallTypeOK'
    BY <1>1, <1>4, <1>5 DEF Seed, CallTypeOK
  <2>2. DerivedConsistent'
    BY <1>5 DEF IInv, DerivedConsistent
  <2>3. QED
    BY <2>1, <2>2
<1>6. ASSUME /\ ble' = BatteryState(sample.level, sample.charging)
             /\ bas' = [level |-> sample.level, charge_level |-> ChargeLevel(sample.level),
                        charge_state |-> ChargeState(sample.charging, sample.level)]
      PROVE  CallTypeOK' /\ DerivedConsistent'
  <2>1. /\ ble' \in [level : 0 .. 100, charging : BOOLEAN,
                     charge_level : ChargeLevels, charge_state : ChargeStates]
        /\ bas' \in [level : 0 .. 100, charge_level : ChargeLevels,
                     charge_state : ChargeStates]
    BY <1>3, <1>6, StateTypes
  <2>2. CallTypeOK'
    BY <1>1, <1>4, <2>1 DEF Seed, CallTypeOK
  <2>3. DerivedConsistent'
    BY <1>6, DerivedOfState
  <2>4. QED
    BY <2>2, <2>3
<1>7. CallTypeOK' /\ DerivedConsistent'
  BY <1>5, <1>6 DEF Seed
<1>8. job'[Rx] = job[Rx] /\ job'[WorkQueue] = job[WorkQueue] /\ UNCHANGED <<poll, connected_count>>
  BY <1>1, ThreadsAssumption DEF Seed, CallTypeOK, Threads
<1>9. AttachInv' /\ PollAlive'
  BY <1>8 DEF IInv, AttachInv, PollAlive
<1>10. QED
  BY <1>2, <1>7, <1>9 DEF IInv, TypeOK, CallTypeOK, OtherTypeOK

\* A work item or a handler that starts reading.
LEMMA StartType ==
  ASSUME CallTypeOK, NEW t \in Threads, NEW j \in Jobs, NEW by \in {"ble", "sm"}, Start(t, j, by),
         UNCHANGED bleVars, poll' \in BOOLEAN
  PROVE  CallTypeOK'
<1>1. Fetching(by) \in Frames /\ <<>> \in Seq(Frames)
  BY FetchingType
<1>2. calls' \in [Threads -> Seq(Frames)]
  BY <1>1, PushType DEF Start
<1>3. QED
  BY <1>2 DEF Start, CallTypeOK, bleVars

LEMMA InvConnect == ASSUME IInv, Connect PROVE IInv'
<1>1. CallTypeOK /\ OtherTypeOK /\ Rx \in Threads /\ WorkQueue \in Threads
  BY TypeParts DEF IInv, Threads
<1>2. OtherTypeOK'
  BY <1>1 DEF Connect, OtherTypeOK, pinVars
<1>3. CallTypeOK'
  <2>1. poll' \in BOOLEAN
    BY <1>1 DEF Connect, CallTypeOK
  <2>2. CASE Start(Rx, "connect", "sm")
    <3>1. "connect" \in Jobs
      BY DEF Jobs
    <3>2. QED
      BY <1>1, <2>1, <2>2, <3>1, StartType DEF Connect
  <2>3. CASE job' = [job EXCEPT ![Rx] = "attach"] /\ UNCHANGED calls
    BY <1>1, <2>1, <2>3 DEF Connect, CallTypeOK, Jobs, bleVars
  <2>4. QED
    BY <2>2, <2>3 DEF Connect
<1>4. DerivedConsistent'
  BY DEF Connect, IInv, DerivedConsistent, bleVars
<1>5. connected_count = 0 /\ connected_count' = 0
  BY DEF Connect
<1>6. AttachInv' /\ PollAlive'
  BY <1>5 DEF AttachInv, PollAlive
<1>7. QED
  BY <1>2, <1>3, <1>4, <1>6 DEF IInv, TypeOK, CallTypeOK, OtherTypeOK

LEMMA InvOnConnected == ASSUME IInv, OnConnected PROVE IInv'
<1>1. CallTypeOK /\ OtherTypeOK /\ Rx \in Threads /\ "update" \in Jobs
  BY TypeParts DEF IInv, Threads, Jobs
<1>2. connected_count' = 1
  BY DEF IInv, AttachInv, OnConnected
<1>3. OtherTypeOK'
  BY <1>1, <1>2 DEF OnConnected, OtherTypeOK, pinVars
<1>4. CallTypeOK'
  <2>1. poll' \in BOOLEAN
    BY <1>1 DEF OnConnected, CallTypeOK
  <2>2. QED
    BY <1>1, <2>1, StartType DEF OnConnected
<1>5. DerivedConsistent'
  BY DEF OnConnected, IInv, DerivedConsistent, bleVars
<1>6. job'[Rx] = "update"
  BY <1>1 DEF OnConnected, Start, CallTypeOK
<1>7. AttachInv' /\ PollAlive'
  BY <1>6 DEF AttachInv, PollAlive
<1>8. QED
  BY <1>3, <1>4, <1>5, <1>7 DEF IInv, TypeOK, CallTypeOK, OtherTypeOK

LEMMA InvOnDisconnected == ASSUME IInv, OnDisconnected PROVE IInv'
<1>1. CallTypeOK /\ OtherTypeOK
  BY TypeParts DEF IInv
<1>2. connected_count' = 0
  BY <1>1 DEF OnDisconnected, OtherTypeOK
<1>3. OtherTypeOK'
  BY <1>1, <1>2 DEF OnDisconnected, OtherTypeOK, pinVars
<1>4. CallTypeOK'
  BY <1>1 DEF OnDisconnected, CallTypeOK, bleVars
<1>5. DerivedConsistent'
  BY DEF OnDisconnected, IInv, DerivedConsistent, bleVars
<1>6. AttachInv' /\ PollAlive'
  BY <1>2 DEF AttachInv, PollAlive
<1>7. QED
  BY <1>3, <1>4, <1>5, <1>6 DEF IInv, TypeOK, CallTypeOK, OtherTypeOK

LEMMA InvPollWork == ASSUME IInv, PollWork PROVE IInv'
<1>1. CallTypeOK /\ OtherTypeOK /\ WorkQueue \in Threads /\ Rx \in Threads /\ "poll" \in Jobs
  BY TypeParts DEF IInv, Threads, Jobs
<1>2. OtherTypeOK'
  BY <1>1 DEF PollWork, OtherTypeOK, pinVars
<1>3. DerivedConsistent'
  BY DEF PollWork, IInv, DerivedConsistent, bleVars
<1>4. CASE connected_count > 0 /\ Start(WorkQueue, "poll", "ble")
  <2>1. CallTypeOK'
    <3>1. poll' \in BOOLEAN
      BY DEF PollWork
    <3>2. QED
      BY <1>1, <1>4, <3>1, StartType DEF PollWork
  <2>2. job'[WorkQueue] = "poll" /\ job'[Rx] = job[Rx] /\ UNCHANGED connected_count
    BY <1>1, <1>4, ThreadsAssumption DEF PollWork, Start, CallTypeOK
  <2>3. AttachInv' /\ PollAlive'
    BY <2>2 DEF IInv, AttachInv, PollAlive
  <2>4. QED
    BY <1>2, <1>3, <2>1, <2>3 DEF IInv, TypeOK, CallTypeOK, OtherTypeOK
<1>5. CASE ~(connected_count > 0) /\ UNCHANGED <<job, calls>>
  <2>1. CallTypeOK'
    BY <1>1, <1>5 DEF PollWork, CallTypeOK, bleVars
  <2>2. AttachInv' /\ PollAlive'
    BY <1>5 DEF PollWork, IInv, AttachInv, PollAlive
  <2>3. QED
    BY <1>2, <1>3, <2>1, <2>2 DEF IInv, TypeOK, CallTypeOK, OtherTypeOK
<1>6. QED
  BY <1>4, <1>5 DEF PollWork

LEMMA InvEnvWork == ASSUME IInv, EnvWork PROVE IInv'
<1>1. CallTypeOK /\ OtherTypeOK /\ WorkQueue \in Threads /\ Rx \in Threads /\ "env" \in Jobs
  BY TypeParts DEF IInv, Threads, Jobs
<1>2. OtherTypeOK'
  BY <1>1 DEF EnvWork, OtherTypeOK, pinVars
<1>3. DerivedConsistent'
  BY DEF EnvWork, IInv, DerivedConsistent, bleVars
<1>4. CallTypeOK'
  <2>1. poll' \in BOOLEAN
    BY <1>1 DEF EnvWork, CallTypeOK
  <2>2. QED
    BY <1>1, <2>1, StartType DEF EnvWork
<1>5. /\ job[WorkQueue] # "poll" /\ job'[Rx] = job[Rx]
      /\ UNCHANGED <<poll, connected_count>>
  BY <1>1, ThreadsAssumption DEF EnvWork, Start, Idle, CallTypeOK
<1>6. AttachInv' /\ PollAlive'
  BY <1>5 DEF IInv, AttachInv, PollAlive
<1>7. QED
  BY <1>2, <1>3, <1>4, <1>6 DEF IInv, TypeOK, CallTypeOK, OtherTypeOK

LEMMA InvNext == IInv /\ [Next]_vars => IInv'
<1> SUFFICES ASSUME IInv, [Next]_vars PROVE IInv'
  OBVIOUS
<1>1. CASE Next
  BY <1>1, InvPinEdge, InvSeed, InvConnect, InvOnConnected, InvOnDisconnected, InvDebounceWork,
     InvPollWork, InvEnvWork, InvStep DEF Next
<1>2. CASE UNCHANGED vars
  BY <1>2 DEF vars, pinVars, bleVars, IInv, TypeOK, AttachInv, DerivedConsistent, PollAlive
<1>3. QED
  BY <1>1, <1>2

LEMMA Invariance == Spec => []IInv
BY InvInit, InvNext, PTL DEF Spec

-----------------------------------------------------------------------------
(* What a client reads *)

\* A thread between jobs has no open calls.
RestInv == \A t \in Threads : job[t] \in {"idle", "attach", "seed"} => calls[t] = <<>>

\* Both levels are written together.
LevelInv == ble.charge_level # "unknown" => bas.level = ble.level

Publishing(t) == At(t, "notify") \/ At(t, "status")

\* A client reads the charge level of the level it reads, unless somebody is
\* about to publish it or has failed to.
ReadInv ==
  \/ \E t \in Threads : Publishing(t)
  \/ publishFailed
  \/ bas.charge_level \in {"unknown", ChargeLevel(bas.level)}

PublishInv == RestInv /\ LevelInv /\ ReadInv

\* Lemma: a frame that moves is in its new place.
LEMMA FrameAt ==
  ASSUME NEW f \in Frames, NEW place \in {"notify", "status"}
  PROVE  [f EXCEPT !.at = place].at = place
BY DEF Frames

\* Lemma: what has been pushed is on top.
LEMMA PushTop ==
  ASSUME CallTypeOK, NEW t \in Threads, NEW frame \in Frames, NEW below \in Seq(Frames),
         Push(t, frame, below)
  PROVE  /\ calls'[t] # <<>> /\ Head(calls'[t]) = frame
         /\ \A u \in Threads \ {t} : calls'[u] = calls[u]
<1>1. calls'[t] = <<frame>> \o below /\ \A u \in Threads \ {t} : calls'[u] = calls[u]
  BY DEF Push, CallTypeOK
<1>2. <<frame>> \o below # <<>> /\ Head(<<frame>> \o below) = frame
  OBVIOUS
<1>3. QED
  BY <1>1, <1>2

\* Lemma: a call that goes on keeps its thread busy.
LEMMA PushRests ==
  ASSUME CallTypeOK, RestInv, NEW t \in Threads, calls[t] # <<>>, NEW frame \in Frames,
         NEW below \in Seq(Frames), Push(t, frame, below), UNCHANGED job
  PROVE  RestInv'
<1>1. \A u \in Threads \ {t} : calls'[u] = calls[u]
  BY PushTop
<1>2. QED
  BY <1>1 DEF RestInv

\* Lemma: a thread ends its job only with its last open call.
LEMMA ReturnRests ==
  ASSUME CallTypeOK, RestInv, NEW t \in Threads, calls[t] # <<>>, NEW ok, Return(t, ok)
  PROVE  RestInv' /\ \A u \in Threads \ {t} : calls'[u] = calls[u]
<1>1. calls' = [calls EXCEPT ![t] = Below(t)]
  BY DEF Return
<1>2. calls'[t] = Below(t) /\ \A u \in Threads \ {t} : calls'[u] = calls[u]
  BY <1>1 DEF CallTypeOK
<1>3. CASE Below(t) = <<>>
  <2>1. job' = [job EXCEPT ![t] = Afterwards(job[t])]
    BY <1>3 DEF Return
  <2>2. \A u \in Threads \ {t} : job'[u] = job[u]
    BY <2>1 DEF CallTypeOK
  <2>3. QED
    BY <1>2, <1>3, <2>2 DEF RestInv
<1>4. CASE Below(t) # <<>>
  <2>1. UNCHANGED job
    BY <1>4 DEF Return
  <2>2. QED
    BY <1>2, <2>1 DEF RestInv
<1>5. QED
  BY <1>3, <1>4

\* Lemma: a thread that is not publishing leaves the others' publications alone.
LEMMA OthersPublish ==
  ASSUME ReadInv, NEW t \in Threads, ~Publishing(t),
         \A u \in Threads \ {t} : calls'[u] = calls[u], UNCHANGED <<bas, publishFailed>>
  PROVE  ReadInv'
BY DEF ReadInv, Publishing, At

\* Lemma: the callback changes neither level and has its caller wait below it.
LEMMA CallbackPublishes ==
  ASSUME CallTypeOK, LevelInv, ReadInv, NEW t \in Threads, ~Publishing(t),
         NEW below \in Seq(Frames), ChargingStatusChanged(t, below)
  PROVE  LevelInv' /\ ReadInv'
<1>1. ble'.level = ble.level /\ ble'.charge_level = ble.charge_level /\ bas' = bas
  BY DEF ChargingStatusChanged, CallTypeOK
<1>2. LevelInv'
  BY <1>1 DEF LevelInv
<1>3. Push(t, Fetching("ble"), below) /\ UNCHANGED <<bas, publishFailed>>
  BY DEF ChargingStatusChanged
<1>4. QED
  BY <1>2, <1>3, PushTop, FetchingType, OthersPublish

\* Lemma: an update with news is about to publish.
LEMMA ContinuePublishes ==
  ASSUME CallTypeOK, PublishInv, NEW t \in Threads, calls[t] # <<>>, ~Publishing(t),
         NEW level \in 0 .. 100, NEW charging \in BOOLEAN, Continue(t, level, charging)
  PROVE  PublishInv'
<1>1. CASE Return(t, TRUE) /\ UNCHANGED bleVars
  <2>1. RestInv' /\ \A u \in Threads \ {t} : calls'[u] = calls[u]
    BY <1>1, ReturnRests DEF PublishInv
  <2>2. LevelInv'
    BY <1>1 DEF PublishInv, LevelInv, bleVars
  <2>3. ReadInv'
    BY <1>1, <2>1, OthersPublish DEF PublishInv, bleVars
  <2>4. QED
    BY <2>1, <2>2, <2>3 DEF PublishInv
<1>2. CASE /\ ble' = BatteryState(level, charging)
           /\ bas' = [bas EXCEPT !.level = level]
           /\ Push(t, [Head(calls[t]) EXCEPT !.at = "notify"], Below(t))
           /\ UNCHANGED <<publishFailed, job, poll>>
  <2> DEFINE frame == [Head(calls[t]) EXCEPT !.at = "notify"]
  <2>t. Head(calls[t]) \in Frames /\ Below(t) \in Seq(Frames)
    BY TopType
  <2>1. frame \in Frames /\ frame.at = "notify" /\ Below(t) \in Seq(Frames)
    BY <2>t, FrameMoves, FrameAt
  <2>2. calls'[t] # <<>> /\ Head(calls'[t]) = frame
    BY <1>2, <2>1, PushTop
  <2>3. RestInv'
    BY <1>2, <2>1, PushRests DEF PublishInv
  <2>4. LevelInv'
    BY <1>2 DEF CallTypeOK, LevelInv, BatteryState
  <2>5. ReadInv'
    BY <2>1, <2>2 DEF ReadInv, Publishing, At
  <2>6. QED
    BY <2>3, <2>4, <2>5 DEF PublishInv
<1>3. QED
  BY <1>1, <1>2 DEF Continue, UpdateManual

\* Lemma: so does the rest of a read, with or without the callback.
LEMMA IsChargingPublishes ==
  ASSUME TypeOK, PublishInv, NEW t \in Threads, calls[t] # <<>>, ~Publishing(t),
         NEW level \in 0 .. 100, IsCharging(t, level)
  PROVE  PublishInv'
<1>1. CallTypeOK /\ pin \in BOOLEAN
  BY TypeParts DEF OtherTypeOK
<1>2. CASE Continue(t, level, pin)
  BY <1>1, <1>2, ContinuePublishes
<1>3. CASE /\ ChargingStatusChanged(t,
                <<[Head(calls[t]) EXCEPT !.at = "resume", !.level = level, !.charging = pin]>>
                \o Below(t))
           /\ UNCHANGED job
  <2> DEFINE frame == [Head(calls[t]) EXCEPT !.at = "resume", !.level = level, !.charging = pin]
  <2>1. frame \in Frames
    BY <1>1, TopType, FrameMoves
  <2>2. <<frame>> \in Seq(Frames) /\ Below(t) \in Seq(Frames)
    BY <1>1, <2>1, TopType
  <2>3. <<frame>> \o Below(t) \in Seq(Frames)
    BY <2>2, ConcatProperties
  <2>4. LevelInv' /\ ReadInv'
    BY <1>1, <1>3, <2>3, CallbackPublishes DEF PublishInv
  <2>5. RestInv'
    BY <1>1, <1>3, <2>3, PushRests, FetchingType DEF PublishInv, ChargingStatusChanged
  <2>6. QED
    BY <2>4, <2>5 DEF PublishInv
<1>4. QED
  BY <1>2, <1>3 DEF IsCharging

LEMMA PublishStep ==
  ASSUME IInv, PublishInv, NEW t \in Threads, Step(t) PROVE PublishInv'
<1>1. TypeOK /\ CallTypeOK /\ DerivedConsistent /\ calls[t] # <<>>
  BY TypeParts DEF IInv, Step, FetchSucceeds, FetchFails, Resume, NotifySucceeds, NotifyFails,
     StatusSent, At
<1>2. CASE FetchSucceeds(t)
  <2>1. PICK level \in Levels : IsCharging(t, level)
    BY <1>2 DEF FetchSucceeds
  <2>2. level \in 0 .. 100 /\ ~Publishing(t)
    BY <1>2, LevelsAssumption DEF FetchSucceeds, Publishing, At
  <2>3. QED
    BY <1>1, <2>1, <2>2, IsChargingPublishes
<1>3. CASE FetchFails(t)
  <2>1. ~Publishing(t)
    BY <1>3 DEF FetchFails, Publishing, At
  <2>2. CASE IsCharging(t, 0)
    BY <1>1, <2>1, <2>2, IsChargingPublishes
  <2>3. CASE Return(t, FALSE) /\ UNCHANGED <<last_charging_state, bleVars>>
    <3>1. RestInv' /\ \A u \in Threads \ {t} : calls'[u] = calls[u]
      BY <1>1, <2>3, ReturnRests DEF PublishInv
    <3>2. LevelInv'
      BY <2>3 DEF PublishInv, LevelInv, bleVars
    <3>3. ReadInv'
      BY <2>1, <2>3, <3>1, OthersPublish DEF PublishInv, bleVars
    <3>4. QED
      BY <3>1, <3>2, <3>3 DEF PublishInv
  <2>4. QED
    BY <1>3, <2>2, <2>3 DEF FetchFails
<1>4. CASE Resume(t)
  <2>1. ~Publishing(t)
    BY <1>4 DEF Resume, Publishing, At
  <2>2. Head(calls[t]).level \in 0 .. 100 /\ Head(calls[t]).charging \in BOOLEAN
    BY <1>1, TopType DEF Frames
  <2>3. QED
    BY <1>1, <1>4, <2>1, <2>2, ContinuePublishes DEF Resume
<1>5. CASE NotifySucceeds(t)
  <2> DEFINE frame == [Head(calls[t]) EXCEPT !.at = "status"]
  <2>t. Head(calls[t]) \in Frames /\ Below(t) \in Seq(Frames)
    BY <1>1, TopType
  <2>1. frame \in Frames /\ frame.at = "status" /\ Below(t) \in Seq(Frames)
    BY <2>t, FrameMoves, FrameAt
  <2>2. Push(t, frame, Below(t)) /\ UNCHANGED <<job, ble>>
    BY <1>5 DEF NotifySucceeds
  <2>3. calls'[t] # <<>> /\ Head(calls'[t]) = frame
    BY <1>1, <2>1, <2>2, PushTop
  <2>4. RestInv'
    BY <1>1, <2>1, <2>2, PushRests DEF PublishInv
  <2>5. bas'.level = bas.level
    BY <1>1, <1>5 DEF NotifySucceeds, CallTypeOK
  <2>6. LevelInv'
    BY <2>2, <2>5 DEF PublishInv, LevelInv
  <2>7. ReadInv'
    BY <2>1, <2>3 DEF ReadInv, Publishing, At
  <2>8. QED
    BY <2>4, <2>6, <2>7 DEF PublishInv
<1>6. CASE NotifyFails(t)
  <2>1. RestInv'
    BY <1>1, <1>6, ReturnRests DEF PublishInv, NotifyFails
  <2>2. LevelInv' /\ ReadInv'
    BY <1>6 DEF NotifyFails, PublishInv, LevelInv, ReadInv
  <2>3. QED
    BY <2>1, <2>2 DEF PublishInv
<1>7. CASE StatusSent(t)
  <2>1. RestInv'
    BY <1>1, <1>7, ReturnRests DEF PublishInv, StatusSent
  <2>2. bas'.level = bas.level /\ bas'.charge_level = ble.charge_level /\ ble' = ble
    BY <1>1, <1>7 DEF StatusSent, PublishedWithLevel, CallTypeOK
  <2>3. LevelInv'
    BY <2>2 DEF PublishInv, LevelInv
  <2>4. ble.charge_level # "unknown" => ble.charge_level = ChargeLevel(bas.level)
    BY <1>1 DEF DerivedConsistent, PublishInv, LevelInv
  <2>5. ReadInv'
    BY <2>2, <2>4 DEF ReadInv
  <2>6. QED
    BY <2>1, <2>3, <2>5 DEF PublishInv
<1>8. QED
  BY <1>2, <1>3, <1>4, <1>5, <1>6, <1>7 DEF Step

\* Lemma: a thread without open calls starts to read.
LEMMA StartPublishes ==
  ASSUME CallTypeOK, PublishInv, NEW t \in Threads, job[t] \in {"idle", "attach"},
         NEW j \in {"connect", "update", "poll", "env"}, NEW by \in {"ble", "sm"},
         Start(t, j, by), UNCHANGED bleVars
  PROVE  PublishInv'
<1>1. calls[t] = <<>>
  BY DEF PublishInv, RestInv
<1>2. \A u \in Threads \ {t} : calls'[u] = calls[u] /\ job'[u] = job[u]
  <2>1. Push(t, Fetching(by), <<>>) /\ Fetching(by) \in Frames /\ <<>> \in Seq(Frames)
    BY FetchingType DEF Start
  <2>2. \A u \in Threads \ {t} : calls'[u] = calls[u]
    BY <2>1, PushTop
  <2>3. QED
    BY <2>2 DEF Start, CallTypeOK
<1>3. job'[t] = j
  BY DEF Start, CallTypeOK
<1>4. RestInv'
  BY <1>2, <1>3 DEF PublishInv, RestInv
<1>5. LevelInv'
  BY DEF PublishInv, LevelInv, bleVars
<1>6. ReadInv'
  BY <1>1, <1>2, OthersPublish DEF PublishInv, Publishing, At, bleVars
<1>7. QED
  BY <1>4, <1>5, <1>6 DEF PublishInv

\* Lemma: a step that leaves calls and characteristics alone only ends jobs.
LEMMA QuietPublishes ==
  ASSUME PublishInv, UNCHANGED <<calls, bleVars>>,
         \A t \in Threads : job'[t] = job[t] \/ calls[t] = <<>>
  PROVE  PublishInv'
BY DEF PublishInv, RestInv, LevelInv, ReadInv, Publishing, At, bleVars

LEMMA PublishNext == IInv /\ PublishInv /\ [Next]_vars => PublishInv'
<1> SUFFICES ASSUME IInv, PublishInv, [Next]_vars PROVE PublishInv'
  OBVIOUS
<1>1. CallTypeOK /\ Main \in Threads /\ Rx \in Threads /\ WorkQueue \in Threads
  BY TypeParts DEF IInv, Threads
<1>2. \A t \in Threads : job[t] \in {"idle", "attach", "seed"} => calls[t] = <<>>
  BY DEF PublishInv, RestInv
<1>3. CASE PinEdge \/ OnDisconnected \/ UNCHANGED vars
  <2>1. UNCHANGED <<calls, bleVars, job>>
    BY <1>3 DEF PinEdge, OnDisconnected, vars
  <2>2. QED
    BY <2>1, QuietPublishes
<1>4. CASE Seed
  <2>1. calls[Main] = <<>> /\ UNCHANGED <<calls, publishFailed>>
    BY <1>1, <1>2, <1>4 DEF Seed
  <2>2. \A t \in Threads : job'[t] = job[t] \/ calls[t] = <<>>
    BY <1>1, <1>4, <2>1 DEF Seed, CallTypeOK
  <2>3. CASE UNCHANGED <<ble, bas>>
    BY <2>1, <2>2, <2>3, QuietPublishes DEF bleVars
  <2>4. CASE /\ ble' = BatteryState(sample.level, sample.charging)
             /\ bas' = [level |-> sample.level, charge_level |-> ChargeLevel(sample.level),
                        charge_state |-> ChargeState(sample.charging, sample.level)]
    <3>1. RestInv'
      BY <1>2, <2>1, <2>2 DEF PublishInv, RestInv
    <3>2. LevelInv' /\ ReadInv'
      BY <2>4 DEF LevelInv, ReadInv, BatteryState
    <3>3. QED
      BY <3>1, <3>2 DEF PublishInv
  <2>5. QED
    BY <1>4, <2>3, <2>4 DEF Seed
<1>5. CASE Connect
  <2>1. job[Rx] = "idle" /\ UNCHANGED bleVars
    BY <1>5 DEF Connect, Idle
  <2>2. CASE Start(Rx, "connect", "sm")
    BY <1>1, <2>1, <2>2, StartPublishes
  <2>3. CASE job' = [job EXCEPT ![Rx] = "attach"] /\ UNCHANGED calls
    <3>1. \A t \in Threads : job'[t] = job[t] \/ calls[t] = <<>>
      BY <1>1, <1>2, <2>1, <2>3 DEF CallTypeOK
    <3>2. QED
      BY <2>1, <2>3, <3>1, QuietPublishes
  <2>4. QED
    BY <1>5, <2>2, <2>3 DEF Connect
<1>6. CASE OnConnected
  BY <1>1, <1>6, StartPublishes DEF OnConnected
<1>7. CASE DebounceWork
  <2>1. job[WorkQueue] = "idle" /\ calls[WorkQueue] = <<>>
    BY <1>1, <1>2, <1>7 DEF DebounceWork, Idle
  <2>2. CASE UNCHANGED <<job, calls, bleVars, poll>>
    BY <2>2, QuietPublishes
  <2>3. CASE /\ job' = [job EXCEPT ![WorkQueue] = "debounce"]
             /\ ChargingStatusChanged(WorkQueue, <<>>)
    <3>1. <<>> \in Seq(Frames) /\ ~Publishing(WorkQueue)
      BY <2>1 DEF Publishing, At
    <3>2. LevelInv' /\ ReadInv'
      BY <1>1, <2>3, <3>1, CallbackPublishes DEF PublishInv
    <3>3. \A u \in Threads \ {WorkQueue} : calls'[u] = calls[u] /\ job'[u] = job[u]
      BY <1>1, <2>3, <3>1, PushTop, FetchingType DEF ChargingStatusChanged, CallTypeOK
    <3>4. job'[WorkQueue] = "debounce"
      BY <1>1, <2>3 DEF CallTypeOK
    <3>5. RestInv'
      BY <1>2, <3>3, <3>4 DEF RestInv
    <3>6. QED
      BY <3>2, <3>5 DEF PublishInv
  <2>4. QED
    BY <1>7, <2>2, <2>3 DEF DebounceWork
<1>8. CASE PollWork
  <2>1. job[WorkQueue] = "idle" /\ UNCHANGED bleVars
    BY <1>8 DEF PollWork, Idle
  <2>2. CASE Start(WorkQueue, "poll", "ble")
    BY <1>1, <2>1, <2>2, StartPublishes
  <2>3. CASE UNCHANGED <<job, calls>>
    BY <2>1, <2>3, QuietPublishes
  <2>4. QED
    BY <1>8, <2>2, <2>3 DEF PollWork
<1>9. CASE EnvWork
  BY <1>1, <1>9, StartPublishes DEF EnvWork, Idle
<1>10. CASE \E t \in Threads : Step(t)
  BY <1>10, PublishStep
<1>11. QED
  BY <1>3, <1>4, <1>5, <1>6, <1>7, <1>8, <1>9, <1>10 DEF Next

LEMMA PublishInit == Init => PublishInv
<1> SUFFICES ASSUME Init PROVE PublishInv
  OBVIOUS
<1>1. RestInv
  BY DEF Init, RestInv
<1>2. LevelInv /\ ReadInv
  BY DEF Init, LevelInv, ReadInv
<1>3. QED
  BY <1>1, <1>2 DEF PublishInv

-----------------------------------------------------------------------------
(* How deep updates nest *)

\* The levels of recursion on a thread's stack, and the pin change that nobody
\* has recorded yet, if there is one: it may pay for one level more.
Excess(t) == IF calls[t] = <<>> THEN 0 ELSE Len(calls[t]) - 1
Unrecorded == IF pin # last_charging_state THEN 1 ELSE 0

\* All recursion on all threads together has been paid for by pin changes.
NestingInv == Excess(Main) + Excess(Rx) + Excess(WorkQueue) + Unrecorded <= edges

LEMMA ExcessType ==
  ASSUME CallTypeOK, NEW t \in Threads
  PROVE  Excess(t) \in Nat /\ (calls[t] # <<>> => Excess(t) = Len(Below(t)))
<1>1. calls[t] \in Seq(Frames)
  BY DEF CallTypeOK
<1>2. CASE calls[t] = <<>>
  BY <1>2 DEF Excess
<1>3. CASE calls[t] # <<>>
  <2>1. Len(calls[t]) \in Nat \ {0} /\ Len(Below(t)) = Len(calls[t]) - 1
    BY <1>1, <1>3, EmptySeq, HeadTailProperties DEF Below
  <2>2. QED
    BY <1>3, <2>1 DEF Excess
<1>4. QED
  BY <1>2, <1>3

\* Lemma: the levels above the outermost call are those of the stack below the
\* one that is pushed.
LEMMA PushExcess ==
  ASSUME CallTypeOK, NEW t \in Threads, NEW frame \in Frames, NEW below \in Seq(Frames),
         Push(t, frame, below)
  PROVE  Excess(t)' = Len(below) /\ \A u \in Threads \ {t} : calls'[u] = calls[u]
<1>1. calls'[t] = <<frame>> \o below /\ calls'[t] # <<>>
  BY PushTop DEF Push, CallTypeOK
<1>2. Len(<<frame>> \o below) = 1 + Len(below) /\ Len(below) \in Nat
  BY ConcatProperties, LenProperties
<1>3. Excess(t)' = Len(below)
  BY <1>1, <1>2 DEF Excess
<1>4. QED
  BY <1>3, PushTop

\* Lemma: a return takes a level away, or none if it was the last call.
LEMMA ReturnExcess ==
  ASSUME CallTypeOK, NEW t \in Threads, calls[t] # <<>>, NEW ok, Return(t, ok)
  PROVE  Excess(t)' <= Excess(t) /\ \A u \in Threads \ {t} : calls'[u] = calls[u]
<1>1. calls' = [calls EXCEPT ![t] = Below(t)]
  BY DEF Return
<1>2. calls'[t] = Below(t) /\ \A u \in Threads \ {t} : calls'[u] = calls[u]
  BY <1>1 DEF CallTypeOK
<1>3. Below(t) \in Seq(Frames) /\ Excess(t) = Len(Below(t)) /\ Excess(t) \in Nat
  BY TopType, ExcessType
<1>4. Excess(t)' = IF Below(t) = <<>> THEN 0 ELSE Len(Below(t)) - 1
  BY <1>2 DEF Excess
<1>5. QED
  BY <1>2, <1>3, <1>4

LEMMA ContinueExcess ==
  ASSUME CallTypeOK, NEW t \in Threads, calls[t] # <<>>, NEW level, NEW charging,
         Continue(t, level, charging)
  PROVE  Excess(t)' <= Excess(t) /\ \A u \in Threads \ {t} : calls'[u] = calls[u]
<1>1. CASE Return(t, TRUE)
  BY <1>1, ReturnExcess
<1>2. CASE Push(t, [Head(calls[t]) EXCEPT !.at = "notify"], Below(t))
  <2>1. [Head(calls[t]) EXCEPT !.at = "notify"] \in Frames /\ Below(t) \in Seq(Frames)
    BY TopType, FrameMoves
  <2>2. Excess(t)' = Len(Below(t)) /\ \A u \in Threads \ {t} : calls'[u] = calls[u]
    BY <1>2, <2>1, PushExcess
  <2>3. QED
    BY <2>2, ExcessType
<1>3. QED
  BY <1>1, <1>2 DEF Continue, UpdateManual

\* Lemma: a step that adds a level records the change that pays for it.
LEMMA Paid ==
  ASSUME CallTypeOK, CallTypeOK', NestingInv, OtherTypeOK, NEW t \in Threads,
         UNCHANGED edges, Excess(t)' + Unrecorded' <= Excess(t) + Unrecorded,
         \A u \in Threads \ {t} : calls'[u] = calls[u]
  PROVE  NestingInv'
<1>1. \A u \in Threads \ {t} : Excess(u)' = Excess(u)
  BY DEF Excess
<1>2. \A u \in Threads : Excess(u) \in Nat
  BY ExcessType
<1>3. \A u \in Threads : Excess(u)' \in Nat
  <2>1. ASSUME NEW u \in Threads PROVE Excess(u)' \in Nat
    <3>1. calls'[u] \in Seq(Frames)
      BY DEF CallTypeOK
    <3>2. calls'[u] # <<>> => Len(calls'[u]) \in Nat \ {0}
      BY <3>1, EmptySeq
    <3>3. QED
      BY <3>2 DEF Excess
  <2>2. QED
    BY <2>1
<1>4. edges \in Nat /\ Unrecorded \in Nat /\ Unrecorded' \in Nat
  BY BoundsAssumption DEF OtherTypeOK, Unrecorded
<1>5. CASE t = Main
  <2>1. Excess(Rx)' = Excess(Rx) /\ Excess(WorkQueue)' = Excess(WorkQueue)
    BY <1>1, <1>5, ThreadsAssumption DEF Threads
  <2>2. QED
    BY <1>2, <1>3, <1>4, <1>5, <2>1 DEF NestingInv, Threads
<1>6. CASE t = Rx
  <2>1. Excess(Main)' = Excess(Main) /\ Excess(WorkQueue)' = Excess(WorkQueue)
    BY <1>1, <1>6, ThreadsAssumption DEF Threads
  <2>2. QED
    BY <1>2, <1>3, <1>4, <1>6, <2>1 DEF NestingInv, Threads
<1>7. CASE t = WorkQueue
  <2>1. Excess(Main)' = Excess(Main) /\ Excess(Rx)' = Excess(Rx)
    BY <1>1, <1>7, ThreadsAssumption DEF Threads
  <2>2. QED
    BY <1>2, <1>3, <1>4, <1>7, <2>1 DEF NestingInv, Threads
<1>8. QED
  BY <1>5, <1>6, <1>7 DEF Threads

\* Lemma: is_charging() adds a level only with a change to record.
LEMMA IsChargingExcess ==
  ASSUME TypeOK, NEW t \in Threads, calls[t] # <<>>, NEW level \in 0 .. 100,
         IsCharging(t, level), UNCHANGED pin
  PROVE  /\ Excess(t)' + Unrecorded' <= Excess(t) + Unrecorded
         /\ \A u \in Threads \ {t} : calls'[u] = calls[u]
<1>1. CallTypeOK /\ pin \in BOOLEAN
  BY TypeParts DEF OtherTypeOK
<1>2. Unrecorded' = 0 /\ Unrecorded \in {0, 1}
  BY DEF IsCharging, Unrecorded
<1>3. Excess(t) \in Nat /\ Excess(t) = Len(Below(t))
  BY <1>1, ExcessType
<1>t. Excess(t)' \in Int /\ CallTypeOK'
  <2>1. CallTypeOK'
    BY IsChargingType
  <2>2. calls'[t] \in Seq(Frames)
    BY <2>1 DEF CallTypeOK
  <2>3. QED
    BY <2>1, <2>2, LenProperties DEF Excess
<1>4. CASE Continue(t, level, pin)
  <2>1. Excess(t)' <= Excess(t) /\ \A u \in Threads \ {t} : calls'[u] = calls[u]
    BY <1>1, <1>4, ContinueExcess
  <2>2. QED
    BY <1>2, <1>3, <1>t, <2>1
<1>5. CASE /\ pin # last_charging_state
           /\ ChargingStatusChanged(t,
                <<[Head(calls[t]) EXCEPT !.at = "resume", !.level = level, !.charging = pin]>>
                \o Below(t))
  <2> DEFINE frame == [Head(calls[t]) EXCEPT !.at = "resume", !.level = level, !.charging = pin]
  <2>1. frame \in Frames
    BY <1>1, TopType, FrameMoves
  <2>2. <<frame>> \in Seq(Frames) /\ Below(t) \in Seq(Frames)
    BY <1>1, <2>1, TopType
  <2>3. <<frame>> \o Below(t) \in Seq(Frames) /\ Len(<<frame>> \o Below(t)) = 1 + Len(Below(t))
    BY <2>2, ConcatProperties
  <2>4. Excess(t)' = 1 + Excess(t) /\ \A u \in Threads \ {t} : calls'[u] = calls[u]
    <3>1. Push(t, Fetching("ble"), <<frame>> \o Below(t)) /\ Fetching("ble") \in Frames
      BY <1>5, FetchingType DEF ChargingStatusChanged
    <3>2. QED
      BY <1>1, <1>3, <2>3, <3>1, PushExcess
  <2>5. Unrecorded = 1
    BY <1>5 DEF Unrecorded
  <2>6. QED
    BY <1>2, <1>3, <2>4, <2>5
<1>6. QED
  BY <1>4, <1>5 DEF IsCharging

\* Lemma: no step of a call leaves a level unpaid.
LEMMA StepExcess ==
  ASSUME IInv, NEW t \in Threads, Step(t)
  PROVE  /\ UNCHANGED <<pin, edges>>
         /\ Excess(t)' + Unrecorded' <= Excess(t) + Unrecorded
         /\ \A u \in Threads \ {t} : calls'[u] = calls[u]
<1>1. TypeOK /\ CallTypeOK /\ calls[t] # <<>> /\ UNCHANGED <<pin, edges>>
  BY TypeParts DEF IInv, Step, FetchSucceeds, FetchFails, Resume, NotifySucceeds, NotifyFails,
     StatusSent, At, pinVars
<1>2. Excess(t) \in Nat /\ Excess(t) = Len(Below(t)) /\ Unrecorded \in Nat
  BY <1>1, ExcessType DEF Unrecorded
<1>3. Excess(t)' \in Int
  <2>1. CallTypeOK'
    BY InvStep, TypeParts DEF IInv, TypeOK, CallTypeOK
  <2>2. calls'[t] \in Seq(Frames)
    BY <2>1 DEF CallTypeOK
  <2>3. QED
    BY <2>2, LenProperties DEF Excess
<1>4. ASSUME Excess(t)' <= Excess(t), UNCHANGED last_charging_state,
             \A u \in Threads \ {t} : calls'[u] = calls[u]
      PROVE  /\ Excess(t)' + Unrecorded' <= Excess(t) + Unrecorded
             /\ \A u \in Threads \ {t} : calls'[u] = calls[u]
  BY <1>1, <1>2, <1>3, <1>4 DEF Unrecorded
<1>5. CASE FetchSucceeds(t)
  <2>1. PICK level \in Levels : IsCharging(t, level)
    BY <1>5 DEF FetchSucceeds
  <2>2. level \in 0 .. 100
    BY LevelsAssumption
  <2>3. QED
    BY <1>1, <2>1, <2>2, IsChargingExcess
<1>6. CASE FetchFails(t)
  <2>1. CASE IsCharging(t, 0)
    BY <1>1, <2>1, IsChargingExcess
  <2>2. CASE Return(t, FALSE) /\ UNCHANGED <<last_charging_state, bleVars>>
    BY <1>1, <1>4, <2>2, ReturnExcess
  <2>3. QED
    BY <1>6, <2>1, <2>2 DEF FetchFails
<1>7. CASE Resume(t)
  <2>1. Continue(t, Head(calls[t]).level, Head(calls[t]).charging) /\ UNCHANGED last_charging_state
    BY <1>7 DEF Resume
  <2>2. QED
    BY <1>1, <1>4, <2>1, ContinueExcess
<1>8. CASE NotifySucceeds(t)
  <2>1. [Head(calls[t]) EXCEPT !.at = "status"] \in Frames /\ Below(t) \in Seq(Frames)
    BY <1>1, TopType, FrameMoves
  <2>2. Excess(t)' = Len(Below(t)) /\ \A u \in Threads \ {t} : calls'[u] = calls[u]
    BY <1>1, <1>8, <2>1, PushExcess DEF NotifySucceeds
  <2>3. UNCHANGED last_charging_state
    BY <1>8 DEF NotifySucceeds
  <2>4. QED
    BY <1>1, <1>2, <1>4, <2>2, <2>3
<1>9. CASE NotifyFails(t)
  BY <1>1, <1>4, <1>9, ReturnExcess DEF NotifyFails
<1>10. CASE StatusSent(t)
  BY <1>1, <1>4, <1>10, ReturnExcess DEF StatusSent
<1>11. QED
  BY <1>1, <1>5, <1>6, <1>7, <1>8, <1>9, <1>10 DEF Step

\* Lemma: a thread that starts afresh has no level above its outermost call.
LEMMA StartExcess ==
  ASSUME CallTypeOK, NEW t \in Threads, NEW by \in {"ble", "sm"}, Push(t, Fetching(by), <<>>)
  PROVE  Excess(t)' = 0 /\ \A u \in Threads \ {t} : calls'[u] = calls[u]
<1>1. <<>> \in Seq(Frames) /\ Len(<<>>) = 0
  BY EmptySeq
<1>2. QED
  BY <1>1, FetchingType, PushExcess

LEMMA NestingNext == IInv /\ NestingInv /\ [Next]_vars => NestingInv'
<1> SUFFICES ASSUME IInv, NestingInv, [Next]_vars PROVE NestingInv'
  OBVIOUS
<1>1. CallTypeOK /\ OtherTypeOK /\ CallTypeOK'
  BY InvNext, TypeParts DEF IInv, TypeOK, CallTypeOK, OtherTypeOK
<1>2. \A u \in Threads : Excess(u) \in Nat
  BY <1>1, ExcessType
<1>3. Unrecorded \in {0, 1} /\ Main \in Threads /\ Rx \in Threads /\ WorkQueue \in Threads
  BY DEF Unrecorded, Threads
<1>4. edges \in Nat
  BY <1>1, BoundsAssumption DEF OtherTypeOK
<1>5. ASSUME UNCHANGED <<pin, last_charging_state, edges, calls>> PROVE NestingInv'
  BY <1>5 DEF NestingInv, Excess, Unrecorded
<1>6. ASSUME NEW t \in Threads, Excess(t)' = 0, Unrecorded' <= Unrecorded, UNCHANGED edges,
             \A u \in Threads \ {t} : calls'[u] = calls[u]
      PROVE  NestingInv'
  <2>1. Excess(t)' + Unrecorded' <= Excess(t) + Unrecorded
    <3>1. Unrecorded' \in {0, 1}
      BY DEF Unrecorded
    <3>2. QED
      BY <1>2, <1>3, <1>6, <3>1
  <2>2. QED
    BY <1>1, <1>6, <2>1, Paid
<1>7. ASSUME NEW t \in Threads, NEW j, NEW by \in {"ble", "sm"}, Start(t, j, by),
             UNCHANGED <<pin, last_charging_state, edges>>
      PROVE  NestingInv'
  <2>1. Excess(t)' = 0 /\ \A u \in Threads \ {t} : calls'[u] = calls[u]
    BY <1>1, <1>7, StartExcess DEF Start
  <2>2. Unrecorded' = Unrecorded
    BY <1>7 DEF Unrecorded
  <2>3. QED
    BY <1>3, <1>6, <1>7, <2>1, <2>2
<1>8. CASE PinEdge
  <2>1. UNCHANGED <<calls, last_charging_state>> /\ edges' = edges + 1
    BY <1>8 DEF PinEdge
  <2>2. \A u \in Threads : Excess(u)' = Excess(u)
    BY <2>1 DEF Excess
  <2>3. Unrecorded' \in {0, 1}
    BY DEF Unrecorded
  <2>4. QED
    BY <1>2, <1>3, <1>4, <2>1, <2>2, <2>3 DEF NestingInv
<1>9. CASE Seed \/ OnDisconnected
  BY <1>5, <1>9 DEF Seed, OnDisconnected, pinVars
<1>10. CASE Connect
  BY <1>3, <1>5, <1>7, <1>10 DEF Connect, pinVars
<1>11. CASE OnConnected
  BY <1>3, <1>7, <1>11 DEF OnConnected, pinVars
<1>12. CASE DebounceWork
  <2>1. UNCHANGED <<pin, edges>> /\ last_charging_state' = pin
    BY <1>12 DEF DebounceWork, pinVars
  <2>2. Unrecorded' = 0
    BY <2>1 DEF Unrecorded
  <2>3. CASE ChargingStatusChanged(WorkQueue, <<>>)
    <3>1. Push(WorkQueue, Fetching("ble"), <<>>)
      BY <2>3 DEF ChargingStatusChanged
    <3>2. Excess(WorkQueue)' = 0 /\ \A u \in Threads \ {WorkQueue} : calls'[u] = calls[u]
      BY <1>1, <1>3, <3>1, StartExcess
    <3>3. QED
      BY <1>3, <1>6, <2>1, <2>2, <3>2
  <2>4. CASE UNCHANGED calls
    <3>1. \A u \in Threads : Excess(u)' = Excess(u)
      BY <2>4 DEF Excess
    <3>2. QED
      BY <1>2, <1>3, <1>4, <2>1, <2>2, <3>1 DEF NestingInv
  <2>5. QED
    BY <1>12, <2>3, <2>4 DEF DebounceWork
<1>13. CASE PollWork
  BY <1>3, <1>5, <1>7, <1>13 DEF PollWork, pinVars
<1>14. CASE EnvWork
  BY <1>3, <1>7, <1>14 DEF EnvWork, pinVars
<1>15. CASE \E t \in Threads : Step(t)
  <2>1. PICK t \in Threads : Step(t)
    BY <1>15
  <2>2. QED
    BY <1>1, <2>1, StepExcess, Paid
<1>16. CASE UNCHANGED vars
  BY <1>5, <1>16 DEF vars, pinVars
<1>17. QED
  BY <1>8, <1>9, <1>10, <1>11, <1>12, <1>13, <1>14, <1>15, <1>16 DEF Next

LEMMA NestingInit == Init => NestingInv
<1> SUFFICES ASSUME Init PROVE NestingInv
  OBVIOUS
<1>1. calls[Main] = <<Fetching("sm")>> /\ calls[Rx] = <<>> /\ calls[WorkQueue] = <<>>
  BY ThreadsAssumption DEF Init, Threads
<1>2. Excess(Main) = 0 /\ Excess(Rx) = 0 /\ Excess(WorkQueue) = 0
  BY <1>1 DEF Excess
<1>3. Unrecorded = 0 /\ edges = 0
  BY DEF Init, Unrecorded
<1>4. QED
  BY <1>2, <1>3 DEF NestingInv

LEMMA NestingImplies == IInv /\ NestingInv => NestingBounded
<1> SUFFICES ASSUME IInv, NestingInv, NEW t \in Threads PROVE Len(calls[t]) <= 1 + edges
  BY DEF NestingBounded
<1>1. CallTypeOK /\ OtherTypeOK
  BY TypeParts DEF IInv
<1>2. \A u \in Threads : Excess(u) \in Nat
  BY <1>1, ExcessType
<1>3. Unrecorded \in Nat /\ edges \in Nat
  BY <1>1, BoundsAssumption DEF OtherTypeOK, Unrecorded
<1>4. Excess(t) <= edges
  BY <1>2, <1>3 DEF NestingInv, Threads
<1>5. CASE calls[t] = <<>>
  BY <1>3, <1>5, EmptySeq
<1>6. CASE calls[t] # <<>>
  <2>1. calls[t] \in Seq(Frames)
    BY <1>1 DEF CallTypeOK
  <2>2. Len(calls[t]) \in Nat /\ Excess(t) = Len(calls[t]) - 1
    BY <1>6, <2>1, LenProperties DEF Excess
  <2>3. QED
    BY <1>3, <1>4, <2>2
<1>7. QED
  BY <1>5, <1>6

-----------------------------------------------------------------------------
\* Every variable keeps its type; in particular the ADC, the nesting of
\* updates and the seed never put a level above 100 % anywhere.
THEOREM TypeCorrect == Spec => []TypeOK
<1>1. IInv => TypeOK
  BY DEF IInv
<1>2. QED
  BY <1>1, Invariance, PTL

\* charge_level and charge_state belong to level and charging after any number
\* of pin changes, nested updates and faults (ble_battery_service.c:49-75).
THEOREM DerivedConsistentHolds == Spec => []DerivedConsistent
<1>1. IInv => DerivedConsistent
  BY DEF IInv
<1>2. QED
  BY <1>1, Invariance, PTL

\* While a client is connected the poll is armed or about to be, whatever fails
\* and however disconnects, reconnects and poll handlers interleave
\* (ble_battery_service.c:90-168).
THEOREM PollAliveHolds == Spec => []PollAlive
<1>1. IInv => PollAlive
  BY DEF IInv
<1>2. QED
  BY <1>1, Invariance, PTL

\* At rest a client reads the charge level that belongs to the level it reads,
\* unless the last publication failed half-way, however updates of the three
\* threads overlap in their notifications (ble_battery_service.c:178-246).
THEOREM ChargeLevelPublishedHolds == Spec => []ChargeLevelPublished
<1>1. PublishInv => ChargeLevelPublished
  BY DEF PublishInv, RestInv, ReadInv, Publishing, At, ChargeLevelPublished, AtRest, Idle
<1>2. QED
  BY <1>1, PublishInit, PublishNext, Invariance, PTL DEF Spec

\* However charging callbacks and reads of the battery nest, a thread's stack is
\* never deeper than the pin changes there have been (battery_service.c:330-336,
\* ble_battery_service.c:84).
THEOREM NestingBoundedHolds == Spec => []NestingBounded
<1>1. Init => NestingInv
  BY NestingInit
<1>2. IInv /\ NestingInv /\ [Next]_vars => NestingInv'
  BY NestingNext
<1>3. IInv /\ NestingInv => NestingBounded
  BY NestingImplies
<1>4. QED
  BY <1>1, <1>2, <1>3, Invariance, PTL DEF Spec
=============================================================================
