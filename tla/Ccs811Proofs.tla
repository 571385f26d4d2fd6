----------------------------- MODULE Ccs811Proofs -----------------------------
(***************************************************************************)
(* Theorems about Ccs811Driver for any set of threads and any delays.      *)
(***************************************************************************)
EXTENDS Ccs811Driver, TLAPS

USE DEF Threads, Callers

\* What the driver accepts may be cached.
LEMMA ValidIsCacheable ==
  /\ ValidCo2 \subseteq CacheableCo2 /\ ValidTvoc \subseteq CacheableTvoc
  /\ 0 \in CacheableCo2 /\ 0 \in CacheableTvoc
<1>1. ASSUME NEW x \in ValidCo2 PROVE x \in CacheableCo2
  BY DEF ValidCo2, CacheableCo2
<1>2. ASSUME NEW x \in ValidTvoc PROVE x \in CacheableTvoc
  BY DEF ValidTvoc, CacheableTvoc
<1>3. 0 \in CacheableCo2 /\ 0 \in CacheableTvoc
  BY DEF CacheableCo2, CacheableTvoc
<1>4. QED
  BY <1>1, <1>2, <1>3

LEMMA OlderIsNat == ASSUME NEW age \in Nat, NEW limit \in Nat PROVE Older(age, limit) \in Nat
BY DEF Older

\* The step of one thread to another place keeps pc and wait well typed.
LEMMA BlockType ==
  ASSUME TypeOK, NEW t \in Threads, NEW place \in Locations, NEW delay \in Nat,
         Block(t, place, delay)
  PROVE  pc' \in [Threads -> Locations] /\ wait' \in [Threads -> Nat]
BY DEF TypeOK, Block

LEMMA GotoType ==
  ASSUME TypeOK, NEW t \in Threads, NEW place \in Locations, Goto(t, place)
  PROVE  pc' \in [Threads -> Locations] /\ wait' \in [Threads -> Nat]
BY BlockType DEF Goto

LEMMA GiveUpType ==
  ASSUME TypeOK, NEW t \in Threads, NEW err, GiveUp(t, err)
  PROVE  pc' \in [Threads -> Locations] /\ wait' \in [Threads -> Nat]
BY GotoType DEF GiveUp, Locations

LEMMA ModeUpdateType ==
  ASSUME TypeOK, NEW m \in Modes, NEW ok \in BOOLEAN, ModeUpdate(m, ok)
  PROVE  mode' \in Modes /\ modeAge' \in Nat /\ modeFailed' \in BOOLEAN
<1>1. mode' \in Modes /\ modeAge' \in Nat
  BY DEF TypeOK, ModeUpdate
<1>2. modeFailed' \in BOOLEAN
  BY Zenon DEF ModeUpdate
<1>3. QED
  BY <1>1, <1>2

LEMMA Enter1SecType ==
  ASSUME TypeOK, Enter1SecMode
  PROVE  /\ mode' \in Modes /\ modeAge' \in Nat /\ modeFailed' \in BOOLEAN
         /\ in_idle_mode' \in BOOLEAN /\ await_first_1s_sample' \in BOOLEAN
<1>1. PICK ok \in BOOLEAN :
        /\ ModeUpdate("sec1", ok)
        /\ in_idle_mode' = IF ok THEN FALSE ELSE in_idle_mode
        /\ await_first_1s_sample' = (ok \/ await_first_1s_sample)
  BY DEF Enter1SecMode
<1>2. in_idle_mode' \in BOOLEAN
  BY <1>1 DEF TypeOK
<1>3. await_first_1s_sample' \in BOOLEAN
  BY <1>1, Zenon
<1>4. QED
  BY <1>1, <1>2, <1>3, ModeUpdateType DEF Modes

LEMMA EnterIdleType ==
  ASSUME TypeOK, EnterIdleMode
  PROVE  /\ mode' \in Modes /\ modeAge' \in Nat /\ modeFailed' \in BOOLEAN
         /\ in_idle_mode' \in BOOLEAN /\ await_first_1s_sample' \in BOOLEAN
<1>1. PICK ok \in BOOLEAN :
        ModeUpdate("idle", ok) /\ in_idle_mode' = (ok \/ in_idle_mode)
  BY DEF EnterIdleMode
<1>2. in_idle_mode' \in BOOLEAN
  BY <1>1, Zenon
<1>3. await_first_1s_sample' \in BOOLEAN
  BY DEF EnterIdleMode, TypeOK
<1>4. QED
  BY <1>1, <1>2, <1>3, ModeUpdateType DEF Modes

LEMMA IsReadyType == IsReady \in BOOLEAN
BY Zenon DEF IsReady

LEMMA TypeInit == Init => TypeOK
<1> SUFFICES ASSUME Init PROVE TypeOK
  OBVIOUS
<1>1. pc \in [Threads -> Locations] /\ wait \in [Threads -> Nat]
  BY DEF Init, Locations
<1>2. forBle \in [Threads -> BOOLEAN] /\ answer \in [Threads -> Answers]
  BY DEF Init, Answers, Sources, Failed
<1>3. clients \subseteq Connectors /\ mutex \in Threads \cup {NoThread} /\ mode \in Modes
  BY DEF Init, Modes
<1>4. QED
  BY <1>1, <1>2, <1>3, ValidIsCacheable DEF Init, TypeOK

LEMMA TypeStep == TypeOK /\ [Next]_vars => TypeOK'
<1> SUFFICES ASSUME TypeOK, [Next]_vars PROVE TypeOK'
  OBVIOUS
<1> USE TimesAssumption
<1> USE DEF threadVars, modeVars, timerVars, flagVars, cacheVars
<1>1. CASE BootStart
  BY <1>1, GotoType DEF BootStart, TypeOK, Locations, HoldingLock
<1>2. CASE BootMode
  <2>1. PICK ok \in BOOLEAN :
          ModeUpdate("sec10", ok) /\ in_idle_mode' = IF ok THEN FALSE ELSE in_idle_mode
    BY <1>2 DEF BootMode
  <2>2. in_idle_mode' \in BOOLEAN
    BY <2>1 DEF TypeOK
  <2>3. mode' \in Modes /\ modeAge' \in Nat /\ modeFailed' \in BOOLEAN
    BY <2>1, ModeUpdateType DEF Modes
  <2>4. pc' \in [Threads -> Locations] /\ wait' \in [Threads -> Nat]
    BY <1>2, GotoType DEF BootMode, Locations
  <2>5. QED
    BY <1>2, <2>2, <2>3, <2>4 DEF BootMode, TypeOK
<1>3. CASE TimerExpires
  BY <1>3 DEF TimerExpires, TypeOK
<1>4. CASE ConditioningStart
  BY <1>4, BlockType DEF ConditioningStart, Call, TypeOK, Locations, WaitingForLock
<1>5. CASE ConditioningLock
  <2>1. pc' \in [Threads -> Locations] /\ wait' \in [Threads -> Nat]
    BY <1>5, GotoType DEF ConditioningLock, Locations, HoldingLock
  <2>2. mutex' \in Threads \cup {NoThread} /\ conditioning_complete' \in BOOLEAN
    BY <1>5 DEF ConditioningLock, TypeOK
  <2>3. QED
    BY <1>5, <2>1, <2>2 DEF ConditioningLock, TypeOK
<1>6. CASE ConditioningMode
  <2>1. pc' \in [Threads -> Locations] /\ wait' \in [Threads -> Nat]
    BY <1>6, GotoType DEF ConditioningMode, Locations
  <2>2. QED
    BY <1>6, <2>1, Enter1SecType, EnterIdleType DEF ConditioningMode, TypeOK
<1>7. ASSUME NEW t \in Connectors, ConnectorStep(t) PROVE TypeOK'
  <2>1. CASE OnConnected(t)
    BY <2>1, BlockType DEF OnConnected, Call, TypeOK, Locations, WaitingForLock
  <2>2. CASE OnDisconnected(t)
    BY <2>2, BlockType DEF OnDisconnected, Call, TypeOK, Locations, WaitingForLock
  <2>3. QED
    BY <1>7, <2>1, <2>2 DEF ConnectorStep
<1>8. ASSUME NEW t \in Readers, ReaderStep(t) PROVE TypeOK'
  <2>1. CASE PollReady(t)
    BY <2>1 DEF PollReady, IsReady, TypeOK
  <2>2. ASSUME NEW ble \in BOOLEAN, Read(t, ble) PROVE TypeOK'
    <3>1. pc' \in [Threads -> Locations] /\ wait' \in [Threads -> Nat]
      BY <2>2, BlockType DEF Read, Call, Locations, WaitingForLock
    <3>2. forBle' \in [Threads -> BOOLEAN] /\ answer' \in [Threads -> Answers]
      BY <2>2 DEF Read, TypeOK, Answers, Failed, Sources
    <3>3. QED
      BY <2>2, <3>1, <3>2 DEF Read, TypeOK
  <2>3. QED
    BY <1>8, <2>1, <2>2 DEF ReaderStep
<1>9. ASSUME NEW t \in Callers, Continue(t) PROVE TypeOK'
  <2>1. CASE ConnectedLock(t)
    <3>1. pc' \in [Threads -> Locations] /\ wait' \in [Threads -> Nat]
      BY <2>1, GotoType DEF ConnectedLock, ChangeModeIfConditioned, Locations, HoldingLock
    <3>2. mutex' \in Threads \cup {NoThread}
      BY <2>1 DEF ConnectedLock, ChangeModeIfConditioned, TypeOK
    <3>3. QED
      BY <2>1, <3>1, <3>2 DEF ConnectedLock, ChangeModeIfConditioned, TypeOK
  <2>2. CASE ConnectedMode(t)
    BY <2>2, GotoType, Enter1SecType DEF ConnectedMode, TypeOK, Locations
  <2>3. CASE DisconnectedLock(t)
    <3>1. pc' \in [Threads -> Locations] /\ wait' \in [Threads -> Nat]
      BY <2>3, GotoType DEF DisconnectedLock, ChangeModeIfConditioned, Locations, HoldingLock
    <3>2. mutex' \in Threads \cup {NoThread}
      BY <2>3 DEF DisconnectedLock, ChangeModeIfConditioned, TypeOK
    <3>3. QED
      BY <2>3, <3>1, <3>2 DEF DisconnectedLock, ChangeModeIfConditioned, TypeOK
  <2>4. CASE DisconnectedMode(t)
    BY <2>4, GotoType, EnterIdleType DEF DisconnectedMode, TypeOK, Locations
  <2>5. CASE ReadLock(t)
    <3>1. pc' \in [Threads -> Locations] /\ wait' \in [Threads -> Nat]
      BY <2>5, GiveUpType, BlockType, GotoType DEF ReadLock, Locations, HoldingLock
    <3>2. QED
      BY <2>5, <3>1 DEF ReadLock, IsReady, TypeOK
  <2>6. CASE ReadWake(t)
    BY <2>6, BlockType DEF ReadWake, TypeOK, Locations, WaitingForLock
  <2>7. CASE ReadRelock(t)
    <3>1. pc' \in [Threads -> Locations] /\ wait' \in [Threads -> Nat]
      BY <2>7, GiveUpType, GotoType DEF ReadRelock, Locations, HoldingLock
    <3>2. QED
      BY <2>7, <3>1 DEF ReadRelock, TypeOK
  <2>8. CASE FetchFails(t)
    <3>1. pc' \in [Threads -> Locations] /\ wait' \in [Threads -> Nat]
      BY <2>8, GiveUpType DEF FetchFails
    <3>2. QED
      BY <2>8, <3>1 DEF FetchFails, Unlock, TypeOK
  <2>9. CASE FetchHalf(t)
    <3>1. pc' \in [Threads -> Locations] /\ wait' \in [Threads -> Nat]
      BY <2>9, GiveUpType DEF FetchHalf
    <3>2. QED
      BY <2>9, <3>1, ValidIsCacheable DEF FetchHalf, Unlock, TypeOK
  <2>10. CASE FetchSucceeds(t)
    <3>1. pc' \in [Threads -> Locations] /\ wait' \in [Threads -> Nat]
      BY <2>10, GotoType DEF FetchSucceeds, Locations
    <3>2. answer' \in [Threads -> Answers]
      BY <2>10 DEF FetchSucceeds, TypeOK, Answers, Fresh, Sources
    <3>3. QED
      BY <2>10, <3>1, <3>2, ValidIsCacheable DEF FetchSucceeds, Unlock, TypeOK
  <2>11. CASE Fallback(t)
    <3>1. pc' \in [Threads -> Locations] /\ wait' \in [Threads -> Nat]
      BY <2>11, GotoType DEF Fallback, Locations
    <3>2. answer' \in [Threads -> Answers]
      BY <2>11 DEF Fallback, TypeOK, Answers, Sources
    <3>3. QED
      BY <2>11, <3>1, <3>2 DEF Fallback, TypeOK
  <2>12. QED
    BY <1>9, <2>1, <2>2, <2>3, <2>4, <2>5, <2>6, <2>7, <2>8, <2>9, <2>10, <2>11
       DEF Continue
<1>10. CASE Tick
  <2>1. wait' \in [Threads -> Nat]
    BY <1>10 DEF Tick, TypeOK
  <2>2. modeAge' \in Nat /\ elapsed' \in Nat
    BY <1>10 DEF Tick, TypeOK, Older
  <2>3. remaining' \in Nat
    BY <1>10 DEF Tick, TypeOK
  <2>4. sampleAge' \in Nat /\ co2Age' \in Nat /\ tvocAge' \in Nat
    BY <1>10 DEF Tick, TypeOK, Older
  <2>5. QED
    BY <1>10, <2>1, <2>2, <2>3, <2>4 DEF Tick, TypeOK
<1>11. CASE UNCHANGED vars
  BY <1>11 DEF vars, TypeOK
<1>12. QED
  BY <1>1, <1>2, <1>3, <1>4, <1>5, <1>6, <1>7, <1>8, <1>9, <1>10, <1>11
     DEF Next, Boot, ConditioningWork

\* Every variable of the driver keeps its type.
THEOREM TypeCorrect == Spec => []TypeOK
<1>1. QED
  BY TypeInit, TypeStep, PTL DEF Spec

-----------------------------------------------------------------------------
(***************************************************************************)
(* The inductive invariant.  The mode of the device is decided under the   *)
(* mutex, but conditioning_complete is also raised without it and the      *)
(* delayed work raises it without looking at the clock; so the invariant   *)
(* follows the timer from k_work_schedule() to the handler, and what each  *)
(* critical section knew when it was entered until its mode command.       *)
(***************************************************************************)
ModeSteps == {"conn_mode", "cond_1s", "disc_mode", "cond_idle"}

BootInv ==
  /\ pc[Main] = "boot" => ~started
  /\ pc[Main] = "boot_mode" => started
  /\ pc[Main] \in {"boot", "boot_mode"} => mode = "reset"

TimerInv ==
  /\ elapsed <= ConditioningTime
  /\ work = "scheduled" => started /\ elapsed + remaining >= ConditioningTime
  /\ work = "pending" => started /\ elapsed = ConditioningTime
  /\ pc[WorkQueue] = "cond_lock" => started /\ elapsed = ConditioningTime
  /\ conditioning_complete => started /\ elapsed = ConditioningTime

ModeInv == mode \in {"sec1", "idle"} => conditioning_complete

StepInv ==
  \A t \in Threads :
    /\ pc[t] \in ModeSteps => conditioning_complete
    /\ pc[t] \in {"conn_mode", "cond_1s"} => ble_connected
    /\ pc[t] \in {"disc_mode", "cond_idle"} => ~ble_connected

SettledInv ==
  ~modeFailed /\ (\A t \in Threads : pc[t] \notin ModeSteps) =>
    /\ mode = "idle" => ~ble_connected
    /\ mode = "sec1" => ble_connected

IInv ==
  /\ TypeOK /\ MutexOwner /\ BootInv /\ TimerInv /\ ModeInv /\ StepInv
  /\ AwaitOnlyWhenLive /\ SettledInv

LEMMA InvInit == Init => IInv
<1> SUFFICES ASSUME Init PROVE IInv
  OBVIOUS
<1> USE TimesAssumption, ThreadsAssumption
<1>1. TypeOK
  BY TypeInit
<1>2. MutexOwner
  BY DEF Init, MutexOwner, HoldingLock
<1>3. BootInv /\ TimerInv /\ ModeInv /\ AwaitOnlyWhenLive
  BY DEF Init, BootInv, TimerInv, ModeInv, AwaitOnlyWhenLive
<1>4. StepInv /\ SettledInv
  BY DEF Init, StepInv, SettledInv, ModeSteps
<1>5. QED
  BY <1>1, <1>2, <1>3, <1>4 DEF IInv

\* A step of one thread leaves the place of every other thread alone.
LEMMA OnlyOneMoves ==
  ASSUME TypeOK, NEW t \in Threads, NEW place, NEW delay, Block(t, place, delay)
  PROVE  /\ pc'[t] = place
         /\ \A u \in Threads \ {t} : pc'[u] = pc[u]
BY DEF TypeOK, Block

LEMMA GotoMoves ==
  ASSUME TypeOK, NEW t \in Threads, NEW place, Goto(t, place)
  PROVE  /\ pc'[t] = place
         /\ \A u \in Threads \ {t} : pc'[u] = pc[u]
BY OnlyOneMoves DEF Goto

LEMMA GiveUpMoves ==
  ASSUME TypeOK, NEW t \in Threads, NEW err, GiveUp(t, err)
  PROVE  /\ pc'[t] \in {"fallback", "out"}
         /\ \A u \in Threads \ {t} : pc'[u] = pc[u]
BY GotoMoves DEF GiveUp

LEMMA InvBootStart == IInv /\ BootStart => IInv'
<1> SUFFICES ASSUME IInv, BootStart, TypeOK' PROVE IInv'
  BY TypeStep DEF IInv, Next, Boot
<1> USE TimesAssumption, ThreadsAssumption
<1>1. /\ pc'[Main] = "boot_mode" /\ \A u \in Threads \ {Main} : pc'[u] = pc[u]
  BY GotoMoves DEF BootStart, IInv
<1>2. QED
  BY <1>1 DEF IInv, BootStart, MutexOwner, HoldingLock, BootInv, TimerInv, ModeInv,
     StepInv, SettledInv, ModeSteps, AwaitOnlyWhenLive, modeVars, flagVars, TypeOK

LEMMA InvBootMode == IInv /\ BootMode => IInv'
<1> SUFFICES ASSUME IInv, BootMode, TypeOK' PROVE IInv'
  BY TypeStep DEF IInv, Next, Boot
<1> USE TimesAssumption, ThreadsAssumption
<1>1. /\ pc'[Main] = "out" /\ \A u \in Threads \ {Main} : pc'[u] = pc[u]
  BY GotoMoves DEF BootMode, IInv
<1>2. mode' \in {"sec10", "reset"}
  BY DEF BootMode, ModeUpdate, IInv, BootInv
<1>3. MutexOwner'
  BY <1>1 DEF IInv, BootMode, MutexOwner, HoldingLock
<1>4. BootInv' /\ TimerInv'
  BY <1>1 DEF IInv, BootMode, BootInv, TimerInv, TypeOK
<1>5. ModeInv' /\ SettledInv'
  BY <1>2 DEF ModeInv, SettledInv
<1>6. StepInv'
  BY <1>1 DEF IInv, BootMode, StepInv, ModeSteps
<1>7. AwaitOnlyWhenLive'
  BY DEF IInv, BootMode, BootInv, AwaitOnlyWhenLive
<1>8. QED
  BY <1>3, <1>4, <1>5, <1>6, <1>7 DEF IInv

LEMMA InvTimerExpires ==
  ASSUME IInv, TimerExpires
  PROVE  IInv'
<1> USE TimesAssumption, ThreadsAssumption
<1>1. TypeOK /\ TypeOK'
  BY TypeStep DEF IInv, Next, TimerExpires
<1>2. UNCHANGED <<pc, mutex>>
  BY DEF TimerExpires, threadVars
<1>3. MutexOwner' /\ BootInv' /\ TimerInv'
  BY <1>1, <1>2 DEF IInv, TimerExpires, MutexOwner, HoldingLock, BootInv, TimerInv, modeVars,
     timerVars, TypeOK
<1>4. ModeInv' /\ AwaitOnlyWhenLive'
  BY <1>2 DEF IInv, TimerExpires, MutexOwner, HoldingLock, ModeInv, StepInv, AwaitOnlyWhenLive,
     modeVars, flagVars
<1>5. StepInv' /\ SettledInv'
  BY <1>1, <1>2 DEF IInv, TimerExpires, MutexOwner, HoldingLock, ModeInv, StepInv, SettledInv,
     ModeSteps, modeVars, flagVars
<1>6. QED
  BY <1>1, <1>3, <1>4, <1>5 DEF IInv

LEMMA InvConditioningStart ==
  ASSUME IInv, ConditioningStart
  PROVE  IInv'
<1> USE TimesAssumption, ThreadsAssumption
<1>1. TypeOK /\ TypeOK'
  BY TypeStep DEF IInv, Next, ConditioningWork
<1>2. /\ pc[WorkQueue] = "out" /\ pc'[WorkQueue] = "cond_lock"
      /\ \A u \in Threads \ {WorkQueue} : pc'[u] = pc[u]
  BY <1>1, OnlyOneMoves DEF ConditioningStart, Call
<1>3. MutexOwner' /\ BootInv' /\ TimerInv'
  BY <1>1, <1>2 DEF IInv, ConditioningStart, MutexOwner, HoldingLock, BootInv, TimerInv, modeVars,
     timerVars, TypeOK
<1>4. ModeInv' /\ AwaitOnlyWhenLive'
  BY <1>2 DEF IInv, ConditioningStart, MutexOwner, HoldingLock, ModeInv, StepInv, AwaitOnlyWhenLive,
     modeVars, flagVars
<1>5. StepInv' /\ SettledInv'
  BY <1>1, <1>2 DEF IInv, ConditioningStart, MutexOwner, HoldingLock, ModeInv, StepInv, SettledInv,
     ModeSteps, modeVars, flagVars
<1>6. QED
  BY <1>1, <1>3, <1>4, <1>5 DEF IInv

LEMMA InvConditioningLock ==
  ASSUME IInv, ConditioningLock
  PROVE  IInv'
<1> USE TimesAssumption, ThreadsAssumption
<1>1. TypeOK /\ TypeOK'
  BY TypeStep DEF IInv, Next, ConditioningWork
<1>2. /\ pc'[WorkQueue] \in {"out", "cond_1s", "cond_idle"}
      /\ \A u \in Threads \ {WorkQueue} : pc'[u] = pc[u]
      /\ pc'[WorkQueue] = "out" => UNCHANGED <<mutex, conditioning_complete>>
      /\ pc'[WorkQueue] # "out" =>
           /\ mutex = NoThread /\ mutex' = WorkQueue /\ conditioning_complete'
           /\ pc'[WorkQueue] = IF ble_connected THEN "cond_1s" ELSE "cond_idle"
  BY <1>1, GotoMoves DEF ConditioningLock
<1>3. MutexOwner' /\ BootInv' /\ TimerInv'
  BY <1>1, <1>2 DEF IInv, ConditioningLock, MutexOwner, HoldingLock, BootInv, TimerInv, modeVars,
     timerVars, TypeOK
<1>4. ModeInv' /\ AwaitOnlyWhenLive'
  BY <1>2 DEF IInv, ConditioningLock, MutexOwner, HoldingLock, ModeInv, StepInv, AwaitOnlyWhenLive,
     modeVars, flagVars
<1>5. StepInv' /\ SettledInv'
  BY <1>1, <1>2 DEF IInv, ConditioningLock, MutexOwner, HoldingLock, ModeInv, StepInv, SettledInv,
     ModeSteps, modeVars, flagVars
<1>6. QED
  BY <1>1, <1>3, <1>4, <1>5 DEF IInv

\* A mode command ends its critical section in the commanded mode or, when it
\* failed, in the mode it found.
ToSec1 ==
  \/ mode' = "sec1" /\ ~modeFailed'
  \/ mode' = mode /\ modeFailed' /\ UNCHANGED await_first_1s_sample

ToIdle ==
  /\ UNCHANGED await_first_1s_sample
  /\ \/ mode' = "idle" /\ ~modeFailed'
     \/ mode' = mode /\ modeFailed'

LEMMA Enter1SecMoves == ASSUME TypeOK, Enter1SecMode PROVE ToSec1
BY DEF Enter1SecMode, ModeUpdate, TypeOK, ToSec1

LEMMA EnterIdleMoves == ASSUME TypeOK, EnterIdleMode PROVE ToIdle
BY DEF EnterIdleMode, ModeUpdate, TypeOK, ToIdle

LEMMA InvConditioningMode ==
  ASSUME IInv, ConditioningMode
  PROVE  IInv'
<1> USE TimesAssumption, ThreadsAssumption
<1>1. TypeOK /\ TypeOK'
  BY TypeStep DEF IInv, Next, ConditioningWork
<1>2. /\ pc[WorkQueue] \in {"cond_1s", "cond_idle"} /\ mutex' = NoThread
      /\ pc'[WorkQueue] = "out" /\ \A u \in Threads \ {WorkQueue} : pc'[u] = pc[u]
  BY <1>1, GotoMoves DEF ConditioningMode
<1>3. mutex = WorkQueue /\ conditioning_complete
  BY <1>2 DEF IInv, MutexOwner, HoldingLock, StepInv, ModeSteps
<1>4. \/ ble_connected /\ ToSec1
      \/ ~ble_connected /\ ToIdle
  BY <1>1, Enter1SecMoves, EnterIdleMoves DEF ConditioningMode, IInv, StepInv
<1>5. MutexOwner' /\ TimerInv'
  BY <1>1, <1>2, <1>3 DEF IInv, ConditioningMode, MutexOwner, HoldingLock, TimerInv, timerVars
<1>6. BootInv'
  BY <1>2, <1>3, <1>4, ThreadsAssumption
     DEF IInv, ConditioningMode, MutexOwner, HoldingLock, BootInv, ModeInv, ToSec1, ToIdle,
         timerVars, TimerInv
<1>7. ModeInv' /\ AwaitOnlyWhenLive'
  BY <1>3, <1>4 DEF IInv, ConditioningMode, ModeInv, AwaitOnlyWhenLive, ToSec1, ToIdle
<1>8. StepInv' /\ SettledInv'
  BY <1>1, <1>2, <1>3, <1>4
     DEF IInv, ConditioningMode, MutexOwner, HoldingLock, StepInv, SettledInv, ModeSteps,
         ToSec1, ToIdle
<1>9. QED
  BY <1>1, <1>5, <1>6, <1>7, <1>8 DEF IInv

LEMMA InvOnConnected ==
  ASSUME IInv, NEW t \in Connectors, OnConnected(t)
  PROVE  IInv'
<1> USE TimesAssumption, ThreadsAssumption
<1>1. TypeOK /\ TypeOK'
  BY TypeStep DEF IInv, Next, ConnectorStep
<1>2. /\ pc[t] = "out" /\ pc'[t] = "conn_lock" /\ t # WorkQueue
      /\ \A u \in Threads \ {t} : pc'[u] = pc[u]
  BY <1>1, OnlyOneMoves DEF OnConnected, Call
<1>3. MutexOwner' /\ BootInv' /\ TimerInv'
  BY <1>1, <1>2 DEF IInv, OnConnected, MutexOwner, HoldingLock, BootInv, TimerInv, modeVars,
     timerVars, TypeOK
<1>4. ModeInv' /\ AwaitOnlyWhenLive'
  BY <1>2 DEF IInv, OnConnected, MutexOwner, HoldingLock, ModeInv, StepInv, AwaitOnlyWhenLive,
     modeVars, flagVars
<1>5. StepInv' /\ SettledInv'
  BY <1>1, <1>2 DEF IInv, OnConnected, MutexOwner, HoldingLock, ModeInv, StepInv, SettledInv,
     ModeSteps, modeVars, flagVars
<1>6. QED
  BY <1>1, <1>3, <1>4, <1>5 DEF IInv

LEMMA InvOnDisconnected ==
  ASSUME IInv, NEW t \in Connectors, OnDisconnected(t)
  PROVE  IInv'
<1> USE TimesAssumption, ThreadsAssumption
<1>1. TypeOK /\ TypeOK'
  BY TypeStep DEF IInv, Next, ConnectorStep
<1>2. /\ pc[t] = "out" /\ pc'[t] \in {"out", "disc_lock"} /\ t # WorkQueue
      /\ \A u \in Threads \ {t} : pc'[u] = pc[u]
  BY <1>1, OnlyOneMoves DEF OnDisconnected, Call
<1>3. MutexOwner' /\ BootInv' /\ TimerInv'
  BY <1>1, <1>2 DEF IInv, OnDisconnected, MutexOwner, HoldingLock, BootInv, TimerInv, modeVars,
     timerVars, TypeOK
<1>4. ModeInv' /\ AwaitOnlyWhenLive'
  BY <1>2 DEF IInv, OnDisconnected, MutexOwner, HoldingLock, ModeInv, StepInv, AwaitOnlyWhenLive,
     modeVars, flagVars
<1>5. StepInv' /\ SettledInv'
  BY <1>1, <1>2 DEF IInv, OnDisconnected, MutexOwner, HoldingLock, ModeInv, StepInv, SettledInv,
     ModeSteps, modeVars, flagVars
<1>6. QED
  BY <1>1, <1>3, <1>4, <1>5 DEF IInv

LEMMA InvConnectedLock ==
  ASSUME IInv, NEW t \in Callers, ConnectedLock(t)
  PROVE  IInv'
<1> USE TimesAssumption, ThreadsAssumption
<1>1. TypeOK /\ TypeOK'
  BY TypeStep DEF IInv, Next, Continue
<1>2. /\ pc[t] \notin HoldingLock \cup {"boot"} /\ pc'[t] \in {"out", "conn_mode"}
      /\ \A u \in Threads \ {t} : pc'[u] = pc[u]
      /\ \/ /\ mutex = NoThread /\ ble_connected' /\ await_first_1s_sample' = await_first_1s_sample
            /\ \/ pc'[t] = "out" /\ mutex' = mutex /\ ~conditioning_complete
               \/ pc'[t] = "conn_mode" /\ mutex' = t /\ conditioning_complete
         \/ pc'[t] = "out" /\ UNCHANGED <<mutex, ble_connected, await_first_1s_sample>>
  BY <1>1, GotoMoves DEF ConnectedLock, ChangeModeIfConditioned, HoldingLock
<1>3. MutexOwner' /\ BootInv' /\ TimerInv'
  BY <1>1, <1>2 DEF IInv, ConnectedLock, ChangeModeIfConditioned, MutexOwner, HoldingLock, BootInv, TimerInv, modeVars,
     timerVars, TypeOK
<1>4. ModeInv' /\ AwaitOnlyWhenLive'
  BY <1>2 DEF IInv, ConnectedLock, ChangeModeIfConditioned, MutexOwner, HoldingLock, ModeInv, StepInv, AwaitOnlyWhenLive,
     modeVars, flagVars
<1>5. StepInv' /\ SettledInv'
  BY <1>1, <1>2 DEF IInv, ConnectedLock, ChangeModeIfConditioned, MutexOwner, HoldingLock, ModeInv, StepInv, SettledInv,
     ModeSteps, modeVars, flagVars
<1>6. QED
  BY <1>1, <1>3, <1>4, <1>5 DEF IInv

LEMMA InvConnectedMode ==
  ASSUME IInv, NEW t \in Callers, ConnectedMode(t)
  PROVE  IInv'
<1> USE TimesAssumption, ThreadsAssumption
<1>1. TypeOK /\ TypeOK'
  BY TypeStep DEF IInv, Next, Continue
<1>2. /\ mutex = t /\ mutex' = NoThread /\ pc[t] = "conn_mode"
      /\ pc'[t] = "out" /\ \A u \in Threads \ {t} : pc'[u] = pc[u]
      /\ conditioning_complete /\ ble_connected /\ ToSec1
  BY <1>1, GotoMoves, Enter1SecMoves
     DEF ConnectedMode, IInv, MutexOwner, HoldingLock, StepInv, ModeSteps
<1>3. MutexOwner' /\ BootInv' /\ TimerInv'
  BY <1>1, <1>2 DEF IInv, ConnectedMode, MutexOwner, HoldingLock, BootInv, TimerInv, ToSec1, ToIdle, modeVars,
     timerVars, TypeOK
<1>4. ModeInv' /\ AwaitOnlyWhenLive'
  BY <1>2 DEF IInv, ConnectedMode, MutexOwner, HoldingLock, ModeInv, StepInv, AwaitOnlyWhenLive, ToSec1, ToIdle,
     modeVars, flagVars
<1>5. StepInv' /\ SettledInv'
  BY <1>1, <1>2 DEF IInv, ConnectedMode, MutexOwner, HoldingLock, ModeInv, StepInv, SettledInv, ToSec1, ToIdle,
     ModeSteps, modeVars, flagVars
<1>6. QED
  BY <1>1, <1>3, <1>4, <1>5 DEF IInv

LEMMA InvDisconnectedLock ==
  ASSUME IInv, NEW t \in Callers, DisconnectedLock(t)
  PROVE  IInv'
<1> USE TimesAssumption, ThreadsAssumption
<1>1. TypeOK /\ TypeOK'
  BY TypeStep DEF IInv, Next, Continue
<1>2. /\ pc[t] \notin HoldingLock \cup {"boot"} /\ pc'[t] \in {"out", "disc_mode"}
      /\ \A u \in Threads \ {t} : pc'[u] = pc[u]
      /\ \/ /\ mutex = NoThread /\ ~ble_connected' /\ ~await_first_1s_sample'
            /\ \/ pc'[t] = "out" /\ mutex' = mutex /\ ~conditioning_complete
               \/ pc'[t] = "disc_mode" /\ mutex' = t /\ conditioning_complete
         \/ pc'[t] = "out" /\ UNCHANGED <<mutex, ble_connected, await_first_1s_sample>>
  BY <1>1, GotoMoves DEF DisconnectedLock, ChangeModeIfConditioned, HoldingLock
<1>3. MutexOwner' /\ BootInv' /\ TimerInv'
  BY <1>1, <1>2 DEF IInv, DisconnectedLock, ChangeModeIfConditioned, MutexOwner, HoldingLock, BootInv, TimerInv, modeVars,
     timerVars, TypeOK
<1>4. ModeInv' /\ AwaitOnlyWhenLive'
  BY <1>2 DEF IInv, DisconnectedLock, ChangeModeIfConditioned, MutexOwner, HoldingLock, ModeInv, StepInv, AwaitOnlyWhenLive,
     modeVars, flagVars
<1>5. StepInv' /\ SettledInv'
  BY <1>1, <1>2 DEF IInv, DisconnectedLock, ChangeModeIfConditioned, MutexOwner, HoldingLock, ModeInv, StepInv, SettledInv,
     ModeSteps, modeVars, flagVars
<1>6. QED
  BY <1>1, <1>3, <1>4, <1>5 DEF IInv

LEMMA InvDisconnectedMode ==
  ASSUME IInv, NEW t \in Callers, DisconnectedMode(t)
  PROVE  IInv'
<1> USE TimesAssumption, ThreadsAssumption
<1>1. TypeOK /\ TypeOK'
  BY TypeStep DEF IInv, Next, Continue
<1>2. /\ mutex = t /\ mutex' = NoThread /\ pc[t] = "disc_mode"
      /\ pc'[t] = "out" /\ \A u \in Threads \ {t} : pc'[u] = pc[u]
      /\ conditioning_complete /\ ~ble_connected /\ ToIdle
  BY <1>1, GotoMoves, EnterIdleMoves
     DEF DisconnectedMode, IInv, MutexOwner, HoldingLock, StepInv, ModeSteps
<1>3. MutexOwner' /\ BootInv' /\ TimerInv'
  BY <1>1, <1>2 DEF IInv, DisconnectedMode, MutexOwner, HoldingLock, BootInv, TimerInv, ToSec1, ToIdle, modeVars,
     timerVars, TypeOK
<1>4. ModeInv' /\ AwaitOnlyWhenLive'
  BY <1>2 DEF IInv, DisconnectedMode, MutexOwner, HoldingLock, ModeInv, StepInv, AwaitOnlyWhenLive, ToSec1, ToIdle,
     modeVars, flagVars
<1>5. StepInv' /\ SettledInv'
  BY <1>1, <1>2 DEF IInv, DisconnectedMode, MutexOwner, HoldingLock, ModeInv, StepInv, SettledInv, ToSec1, ToIdle,
     ModeSteps, modeVars, flagVars
<1>6. QED
  BY <1>1, <1>3, <1>4, <1>5 DEF IInv

LEMMA InvPollReady ==
  ASSUME IInv, NEW t \in Readers, PollReady(t)
  PROVE  IInv'
<1> USE TimesAssumption, ThreadsAssumption
<1>1. TypeOK /\ TypeOK'
  BY TypeStep DEF IInv, Next, ReaderStep
<1>2. UNCHANGED <<pc, mutex>> /\ (conditioning_complete => conditioning_complete')
  BY DEF PollReady, threadVars, IsReady
<1>3. MutexOwner' /\ BootInv' /\ TimerInv'
  BY <1>1, <1>2 DEF IInv, PollReady, MutexOwner, HoldingLock, BootInv, TimerInv, modeVars,
     timerVars, TypeOK, IsReady
<1>4. ModeInv' /\ AwaitOnlyWhenLive'
  BY <1>2 DEF IInv, PollReady, MutexOwner, HoldingLock, ModeInv, StepInv, AwaitOnlyWhenLive,
     modeVars, flagVars, IsReady
<1>5. StepInv' /\ SettledInv'
  BY <1>1, <1>2 DEF IInv, PollReady, MutexOwner, HoldingLock, ModeInv, StepInv, SettledInv,
     ModeSteps, modeVars, flagVars, IsReady
<1>6. QED
  BY <1>1, <1>3, <1>4, <1>5 DEF IInv

\* A step of a reader that decides nothing about the mode: it moves between
\* places that hold no lock, or gives the lock back after a fetch.
ReaderMoves(t) ==
  /\ pc[t] \notin ModeSteps \cup {"boot", "boot_mode"}
  /\ pc'[t] \notin HoldingLock \cup {"boot", "cond_lock"}
  /\ \A u \in Threads \ {t} : pc'[u] = pc[u]
  /\ \/ pc[t] \in HoldingLock /\ mutex' = NoThread
     \/ pc[t] \notin HoldingLock /\ mutex' = mutex
  /\ UNCHANGED <<modeVars, timerVars, conditioning_complete, flagVars>>

LEMMA InvReaderMoves ==
  ASSUME IInv, TypeOK', NEW t \in Callers, ReaderMoves(t)
  PROVE  IInv'
<1> USE TimesAssumption, ThreadsAssumption
<1>1. MutexOwner' /\ BootInv' /\ TimerInv'
  BY DEF IInv, TypeOK, ReaderMoves, MutexOwner, HoldingLock, BootInv, TimerInv, modeVars, timerVars
<1>2. ModeInv' /\ AwaitOnlyWhenLive'
  BY DEF IInv, ReaderMoves, ModeInv, AwaitOnlyWhenLive, modeVars, flagVars
<1>3. StepInv' /\ SettledInv'
  BY DEF IInv, ReaderMoves, HoldingLock, StepInv, SettledInv, ModeSteps, modeVars, flagVars
<1>4. QED
  BY <1>1, <1>2, <1>3 DEF IInv

LEMMA InvRead ==
  ASSUME IInv, NEW t \in Readers, NEW ble \in BOOLEAN, Read(t, ble)
  PROVE  IInv'
<1>1. TypeOK /\ TypeOK'
  BY TypeStep DEF IInv, Next, ReaderStep
<1>2. ReaderMoves(t)
  BY <1>1, OnlyOneMoves DEF Read, Call, ReaderMoves, HoldingLock, ModeSteps
<1>3. QED
  BY <1>1, <1>2, InvReaderMoves

LEMMA InvReadMoves ==
  ASSUME IInv, NEW t \in Callers,
         ReadWake(t) \/ FetchFails(t) \/ FetchHalf(t) \/ FetchSucceeds(t) \/ Fallback(t)
  PROVE  IInv'
<1>1. TypeOK /\ TypeOK'
  BY TypeStep DEF IInv, Next, Continue
<1>2. ReaderMoves(t)
  <2>1. CASE ReadWake(t)
    BY <1>1, <2>1, OnlyOneMoves DEF ReadWake, ReaderMoves, HoldingLock, ModeSteps
  <2>2. CASE FetchFails(t)
    BY <1>1, <2>2, GiveUpMoves DEF FetchFails, Unlock, ReaderMoves, HoldingLock, ModeSteps
  <2>3. CASE FetchHalf(t)
    BY <1>1, <2>3, GiveUpMoves DEF FetchHalf, Unlock, ReaderMoves, HoldingLock, ModeSteps
  <2>4. CASE FetchSucceeds(t)
    BY <1>1, <2>4, GotoMoves DEF FetchSucceeds, Unlock, ReaderMoves, HoldingLock, ModeSteps
  <2>5. CASE Fallback(t)
    BY <1>1, <2>5, GotoMoves DEF Fallback, ReaderMoves, HoldingLock, ModeSteps
  <2>6. QED
    BY <2>1, <2>2, <2>3, <2>4, <2>5
<1>3. QED
  BY <1>1, <1>2, InvReaderMoves

LEMMA InvReadLock ==
  ASSUME IInv, NEW t \in Callers, ReadLock(t)
  PROVE  IInv'
<1> USE TimesAssumption, ThreadsAssumption
<1>1. TypeOK /\ TypeOK'
  BY TypeStep DEF IInv, Next, Continue
<1>2. /\ pc[t] = "read_lock" /\ pc'[t] \in {"out", "fallback", "read_sleep", "read_fetch"}
      /\ \A u \in Threads \ {t} : pc'[u] = pc[u]
      /\ IF pc'[t] = "read_fetch" THEN mutex = NoThread /\ mutex' = t ELSE mutex' = mutex
      /\ conditioning_complete' \in {conditioning_complete, IsReady}
  BY <1>1, GiveUpMoves, GotoMoves, OnlyOneMoves DEF ReadLock
<1>3. MutexOwner' /\ BootInv' /\ TimerInv'
  BY <1>1, <1>2 DEF IInv, ReadLock, MutexOwner, HoldingLock, BootInv, TimerInv, modeVars,
     timerVars, TypeOK, IsReady
<1>4. ModeInv' /\ AwaitOnlyWhenLive'
  BY <1>2 DEF IInv, ReadLock, MutexOwner, HoldingLock, ModeInv, StepInv, AwaitOnlyWhenLive,
     modeVars, flagVars, IsReady
<1>5. StepInv' /\ SettledInv'
  BY <1>1, <1>2 DEF IInv, ReadLock, MutexOwner, HoldingLock, ModeInv, StepInv, SettledInv,
     ModeSteps, modeVars, flagVars, IsReady
<1>6. QED
  BY <1>1, <1>3, <1>4, <1>5 DEF IInv

LEMMA InvReadRelock ==
  ASSUME IInv, NEW t \in Callers, ReadRelock(t)
  PROVE  IInv'
<1> USE TimesAssumption, ThreadsAssumption
<1>1. TypeOK /\ TypeOK'
  BY TypeStep DEF IInv, Next, Continue
<1>2. /\ pc[t] = "read_relock" /\ pc'[t] \in {"out", "fallback", "read_fetch"}
      /\ \A u \in Threads \ {t} : pc'[u] = pc[u]
      /\ IF pc'[t] = "read_fetch" THEN mutex = NoThread /\ mutex' = t ELSE mutex' = mutex
      /\ ~await_first_1s_sample'
  BY <1>1, GiveUpMoves, GotoMoves DEF ReadRelock
<1>3. MutexOwner' /\ BootInv' /\ TimerInv'
  BY <1>1, <1>2 DEF IInv, ReadRelock, MutexOwner, HoldingLock, BootInv, TimerInv, modeVars,
     timerVars, TypeOK
<1>4. ModeInv' /\ AwaitOnlyWhenLive'
  BY <1>2 DEF IInv, ReadRelock, MutexOwner, HoldingLock, ModeInv, StepInv, AwaitOnlyWhenLive,
     modeVars, flagVars
<1>5. StepInv' /\ SettledInv'
  BY <1>1, <1>2 DEF IInv, ReadRelock, MutexOwner, HoldingLock, ModeInv, StepInv, SettledInv,
     ModeSteps, modeVars, flagVars
<1>6. QED
  BY <1>1, <1>3, <1>4, <1>5 DEF IInv

LEMMA InvTick ==
  ASSUME IInv, Tick
  PROVE  IInv'
<1> USE TimesAssumption, ThreadsAssumption
<1>1. TypeOK /\ TypeOK'
  BY TypeStep DEF IInv, Next, Tick
<1>2. UNCHANGED <<pc, mutex, mode, modeFailed, started, work, conditioning_complete, flagVars>>
  BY DEF Tick
<1>3. MutexOwner' /\ BootInv' /\ TimerInv'
  BY <1>1, <1>2 DEF IInv, Tick, MutexOwner, HoldingLock, BootInv, TimerInv, modeVars,
     timerVars, TypeOK, Older
<1>4. ModeInv' /\ AwaitOnlyWhenLive'
  BY <1>2 DEF IInv, Tick, MutexOwner, HoldingLock, ModeInv, StepInv, AwaitOnlyWhenLive,
     modeVars, flagVars, Older
<1>5. StepInv' /\ SettledInv'
  BY <1>1, <1>2 DEF IInv, Tick, MutexOwner, HoldingLock, ModeInv, StepInv, SettledInv,
     ModeSteps, modeVars, flagVars, Older
<1>6. QED
  BY <1>1, <1>3, <1>4, <1>5 DEF IInv

LEMMA InvStep == IInv /\ [Next]_vars => IInv'
<1> SUFFICES ASSUME IInv, [Next]_vars PROVE IInv'
  OBVIOUS
<1>1. CASE Boot \/ TimerExpires \/ ConditioningWork \/ Tick
  BY <1>1, InvBootStart, InvBootMode, InvTimerExpires, InvConditioningStart,
     InvConditioningLock, InvConditioningMode, InvTick DEF Boot, ConditioningWork
<1>2. ASSUME NEW t \in Connectors, ConnectorStep(t) PROVE IInv'
  BY <1>2, InvOnConnected, InvOnDisconnected DEF ConnectorStep
<1>3. ASSUME NEW t \in Readers, ReaderStep(t) PROVE IInv'
  BY <1>3, InvPollReady, InvRead DEF ReaderStep
<1>4. ASSUME NEW t \in Callers, Continue(t) PROVE IInv'
  BY <1>4, InvConnectedLock, InvConnectedMode, InvDisconnectedLock, InvDisconnectedMode,
     InvReadLock, InvReadRelock, InvReadMoves DEF Continue
<1>5. CASE UNCHANGED vars
  <2>1. TypeOK'
    BY TypeStep DEF IInv
  <2>2. QED
    BY <1>5, <2>1 DEF vars, threadVars, modeVars, timerVars, flagVars, IInv, MutexOwner,
       BootInv, TimerInv, ModeInv, StepInv, AwaitOnlyWhenLive, SettledInv
<1>6. QED
  BY <1>1, <1>2, <1>3, <1>4, <1>5 DEF Next

LEMMA InvImplies ==
  IInv => MutexOwner /\ ConditioningNotCut /\ ModeFollowsClient /\ AwaitOnlyWhenLive
<1> SUFFICES ASSUME IInv
             PROVE  MutexOwner /\ ConditioningNotCut /\ ModeFollowsClient /\ AwaitOnlyWhenLive
  OBVIOUS
<1>1. ConditioningNotCut
  BY DEF IInv, ModeInv, TimerInv, ConditioningNotCut
<1>2. ASSUME mutex = NoThread PROVE \A t \in Threads : pc[t] \notin ModeSteps
  BY <1>2, ThreadsAssumption DEF IInv, MutexOwner, HoldingLock, ModeSteps
<1>3. ModeFollowsClient
  BY <1>2 DEF IInv, SettledInv, ModeFollowsClient
<1>4. QED
  BY <1>1, <1>3 DEF IInv

LEMMA InvHolds == Spec => []IInv
BY InvInit, InvStep, PTL DEF Spec

\* The mutex is owned by exactly the thread inside a critical section.
THEOREM MutexOwnerHolds == Spec => []MutexOwner
BY InvHolds, InvImplies, PTL

\* No interleaving takes the sensor out of boot conditioning early.
THEOREM ConditioningNotCutHolds == Spec => []ConditioningNotCut
BY InvHolds, InvImplies, PTL

\* Between critical sections the device idles only without a client and runs
\* at 1 s only with one, unless the last mode command failed.
THEOREM ModeFollowsClientHolds == Spec => []ModeFollowsClient
BY InvHolds, InvImplies, PTL

\* Readers wait for a first 1 s sample only when one is on its way.
THEOREM AwaitOnlyWhenLiveHolds == Spec => []AwaitOnlyWhenLive
BY InvHolds, InvImplies, PTL

-----------------------------------------------------------------------------
(***************************************************************************)
(* The driver implements the sampling policy.                              *)
(***************************************************************************)
LEMMA PolicyInitially == Init => Policy!PolicyInit
BY TimesAssumption DEF Init, Policy!PolicyInit, PhaseOf

\* The three kinds of step the policy knows: a mode command given in a critical
\* section, a change of ble_connected alone, and the passage of time.
LEMMA PolicyCommand ==
  ASSUME started /\ elapsed = ConditioningTime, UNCHANGED <<ble_connected, started, elapsed>>,
         \/ ble_connected /\ ToSec1
         \/ ~ble_connected /\ ToIdle
  PROVE  [Policy!PolicyNext]_(Policy!policyVars)
<1>1. CASE mode' = mode
  BY <1>1 DEF Policy!policyVars
<1>2. CASE mode' = "sec1" /\ ble_connected
  BY <1>2 DEF PhaseOf, Policy!PolicyNext, Policy!GoLive
<1>3. CASE mode' = "idle" /\ ~ble_connected
  BY <1>3 DEF PhaseOf, Policy!PolicyNext, Policy!GoIdle
<1>4. QED
  BY <1>1, <1>2, <1>3 DEF ToSec1, ToIdle

LEMMA PolicyClient ==
  ASSUME TypeOK, TypeOK', UNCHANGED <<mode, started, elapsed>>
  PROVE  [Policy!PolicyNext]_(Policy!policyVars)
<1>1. CASE UNCHANGED ble_connected
  BY <1>1 DEF Policy!policyVars
<1>2. CASE ble_connected' = ~ble_connected
  BY <1>2 DEF Policy!PolicyNext, Policy!ClientComesOrGoes
<1>3. QED
  BY <1>1, <1>2 DEF TypeOK

LEMMA PolicyTime ==
  ASSUME IInv, Tick
  PROVE  [Policy!PolicyNext]_(Policy!policyVars)
<1> DEFINE conditioned == started /\ elapsed = ConditioningTime
<1>1. UNCHANGED <<mode, ble_connected, started>>
  BY DEF Tick, flagVars
<1>2. conditioned => conditioned'
  BY TimesAssumption DEF Tick, Older
<1>3. CASE conditioned' = conditioned
  BY <1>1, <1>3 DEF Policy!policyVars
<1>4. CASE conditioned' = TRUE
  BY <1>1, <1>4 DEF Policy!PolicyNext, Policy!ConditioningEnds
<1>5. QED
  BY <1>2, <1>3, <1>4

LEMMA PolicyStep == IInv /\ [Next]_vars => [Policy!PolicyNext]_(Policy!policyVars)
<1> SUFFICES ASSUME IInv, [Next]_vars PROVE [Policy!PolicyNext]_(Policy!policyVars)
  OBVIOUS
<1>1. TypeOK /\ TypeOK'
  BY TypeStep DEF IInv
<1>2. CASE BootStart
  <2>1. ~started /\ started' /\ elapsed' = 0 /\ UNCHANGED <<mode, ble_connected>>
    BY <1>2 DEF BootStart, IInv, BootInv, modeVars, flagVars
  <2>2. QED
    BY <2>1, TimesAssumption DEF Policy!policyVars
<1>3. CASE BootMode
  <2>1. PhaseOf(mode') = PhaseOf(mode) /\ UNCHANGED <<ble_connected, started, elapsed>>
    BY <1>3 DEF BootMode, ModeUpdate, IInv, BootInv, PhaseOf
  <2>2. QED
    BY <2>1 DEF Policy!policyVars
<1>4. CASE ConditioningMode
  <2>1. started /\ elapsed = ConditioningTime
    BY <1>4 DEF ConditioningMode, IInv, StepInv, ModeSteps, TimerInv
  <2>2. \/ ble_connected /\ ToSec1
        \/ ~ble_connected /\ ToIdle
    BY <1>1, <1>4, Enter1SecMoves, EnterIdleMoves DEF ConditioningMode, IInv, StepInv
  <2>3. QED
    BY <1>4, <2>1, <2>2, PolicyCommand DEF ConditioningMode, timerVars
<1>5. ASSUME NEW t \in Callers, ConnectedMode(t) PROVE [Policy!PolicyNext]_(Policy!policyVars)
  <2>1. started /\ elapsed = ConditioningTime /\ ble_connected
    BY <1>5 DEF ConnectedMode, IInv, StepInv, ModeSteps, TimerInv
  <2>2. QED
    BY <1>1, <1>5, <2>1, Enter1SecMoves, PolicyCommand DEF ConnectedMode, timerVars
<1>6. ASSUME NEW t \in Callers, DisconnectedMode(t) PROVE [Policy!PolicyNext]_(Policy!policyVars)
  <2>1. started /\ elapsed = ConditioningTime /\ ~ble_connected
    BY <1>6 DEF DisconnectedMode, IInv, StepInv, ModeSteps, TimerInv
  <2>2. QED
    BY <1>1, <1>6, <2>1, EnterIdleMoves, PolicyCommand DEF DisconnectedMode, timerVars
<1>7. ASSUME UNCHANGED <<mode, started, elapsed>> PROVE [Policy!PolicyNext]_(Policy!policyVars)
  BY <1>1, <1>7, PolicyClient
<1>8. CASE TimerExpires \/ ConditioningStart \/ ConditioningLock
  BY <1>7, <1>8 DEF TimerExpires, ConditioningStart, ConditioningLock, modeVars, timerVars
<1>9. ASSUME NEW t \in Connectors, ConnectorStep(t) PROVE [Policy!PolicyNext]_(Policy!policyVars)
  BY <1>7, <1>9 DEF ConnectorStep, OnConnected, OnDisconnected, modeVars, timerVars
<1>10. ASSUME NEW t \in Readers, ReaderStep(t) PROVE [Policy!PolicyNext]_(Policy!policyVars)
  BY <1>7, <1>10 DEF ReaderStep, PollReady, Read, modeVars, timerVars
<1>11. ASSUME NEW t \in Callers, Continue(t) PROVE [Policy!PolicyNext]_(Policy!policyVars)
  <2>1. CASE ConnectedLock(t) \/ DisconnectedLock(t) \/ ReadLock(t)
    BY <1>7, <2>1 DEF ConnectedLock, ChangeModeIfConditioned, DisconnectedLock, ReadLock, modeVars, timerVars
  <2>2. CASE ReadWake(t) \/ ReadRelock(t) \/ Fallback(t)
    BY <1>7, <2>2 DEF ReadWake, ReadRelock, Fallback, modeVars, timerVars
  <2>3. CASE FetchFails(t) \/ FetchHalf(t) \/ FetchSucceeds(t)
    BY <1>7, <2>3 DEF FetchFails, FetchHalf, FetchSucceeds, modeVars, timerVars
  <2>4. QED
    BY <1>5, <1>6, <1>11, <2>1, <2>2, <2>3 DEF Continue
<1>12. CASE UNCHANGED vars
  BY <1>7, <1>12 DEF vars, modeVars, timerVars
<1>13. QED
  BY <1>2, <1>3, <1>4, <1>8, <1>9, <1>10, <1>11, <1>12, PolicyTime
     DEF Next, Boot, ConditioningWork

\* Every behaviour of the driver is, seen through the refinement mapping, a
\* behaviour of the sampling policy.
THEOREM ImplementsPolicyHolds == Spec => ImplementsPolicy
BY PolicyInitially, PolicyStep, InvHolds, PTL DEF Spec, ImplementsPolicy, Policy!PolicySpec

-----------------------------------------------------------------------------
(***************************************************************************)
(* The age of what the cache serves.  last_sample_time is older than both  *)
(* cached values: only a read that delivers both moves it.                 *)
(***************************************************************************)
AgeInv ==
  /\ TypeOK
  /\ sampleAge <= MaxCacheAge + 1
  /\ co2Age <= sampleAge
  /\ tvocAge <= sampleAge

LEMMA AgeStep == AgeInv /\ [Next]_vars => AgeInv'
<1> SUFFICES ASSUME AgeInv, [Next]_vars PROVE AgeInv'
  OBVIOUS
<1> USE TimesAssumption
<1>1. TypeOK /\ TypeOK'
  BY TypeStep DEF AgeInv
<1>2. ASSUME UNCHANGED <<sampleAge, co2Age, tvocAge>> PROVE AgeInv'
  BY <1>1, <1>2 DEF AgeInv
<1>3. CASE Boot \/ TimerExpires \/ ConditioningWork
  BY <1>2, <1>3 DEF Boot, BootStart, BootMode, TimerExpires, ConditioningWork,
     ConditioningStart, ConditioningLock, ConditioningMode, cacheVars
<1>4. ASSUME NEW t \in Connectors, ConnectorStep(t) PROVE AgeInv'
  BY <1>2, <1>4 DEF ConnectorStep, OnConnected, OnDisconnected, cacheVars
<1>5. ASSUME NEW t \in Readers, ReaderStep(t) PROVE AgeInv'
  BY <1>2, <1>5 DEF ReaderStep, PollReady, Read, cacheVars
<1>6. ASSUME NEW t \in Callers, Continue(t) PROVE AgeInv'
  <2>1. CASE ConnectedLock(t) \/ ConnectedMode(t) \/ DisconnectedLock(t) \/ DisconnectedMode(t)
    BY <1>2, <2>1 DEF ConnectedLock, ChangeModeIfConditioned, ConnectedMode, DisconnectedLock, DisconnectedMode, cacheVars
  <2>2. CASE ReadLock(t) \/ ReadWake(t) \/ ReadRelock(t) \/ FetchFails(t) \/ Fallback(t)
    BY <1>2, <2>2 DEF ReadLock, ReadWake, ReadRelock, FetchFails, Fallback, cacheVars
  <2>3. CASE FetchHalf(t)
    BY <1>1, <2>3 DEF FetchHalf, AgeInv, TypeOK
  <2>4. CASE FetchSucceeds(t)
    BY <1>1, <2>4 DEF FetchSucceeds, AgeInv
  <2>5. QED
    BY <1>6, <2>1, <2>2, <2>3, <2>4 DEF Continue
<1>7. CASE Tick
  BY <1>1, <1>7 DEF Tick, Older, AgeInv, TypeOK
<1>8. CASE UNCHANGED vars
  BY <1>2, <1>8 DEF vars, cacheVars
<1>9. QED
  BY <1>3, <1>4, <1>5, <1>6, <1>7, <1>8 DEF Next

\* Only the fallback itself leaves the place "fallback".
LEMMA OnlyFallbackLeaves ==
  ASSUME TypeOK, [Next]_vars, NEW t \in Threads, pc[t] = "fallback", pc'[t] = "out"
  PROVE  t \in Callers /\ Fallback(t)
<1> USE ThreadsAssumption
<1>1. ASSUME NEW u \in Threads, NEW place, NEW delay, pc[u] # "fallback",
             Block(u, place, delay)
      PROVE  FALSE
  BY <1>1, OnlyOneMoves
<1>2. ASSUME NEW u \in Threads, NEW place, pc[u] # "fallback", Goto(u, place) PROVE FALSE
  BY <1>1, <1>2 DEF Goto
<1>3. ASSUME NEW u \in Threads, NEW err, pc[u] # "fallback", GiveUp(u, err) PROVE FALSE
  BY <1>2, <1>3 DEF GiveUp
<1>4. ~UNCHANGED pc
  OBVIOUS
<1>5. CASE Boot
  BY <1>2, <1>5 DEF Boot, BootStart, BootMode
<1>6. CASE TimerExpires \/ Tick \/ UNCHANGED vars
  BY <1>4, <1>6 DEF TimerExpires, Tick, vars, threadVars
<1>7. CASE ConditioningWork
  BY <1>1, <1>2, <1>7
     DEF ConditioningWork, ConditioningStart, ConditioningLock, ConditioningMode, Call
<1>8. ASSUME NEW u \in Connectors, ConnectorStep(u) PROVE FALSE
  BY <1>1, <1>4, <1>8 DEF ConnectorStep, OnConnected, OnDisconnected, Call
<1>9. ASSUME NEW u \in Readers, ReaderStep(u) PROVE FALSE
  BY <1>1, <1>4, <1>9 DEF ReaderStep, PollReady, Read, Call, threadVars
<1>10. ASSUME NEW u \in Callers, Continue(u) PROVE u = t /\ Fallback(u)
  <2>1. CASE ConnectedLock(u) \/ ConnectedMode(u)
    BY <1>2, <2>1 DEF ConnectedLock, ChangeModeIfConditioned, ConnectedMode
  <2>2. CASE DisconnectedLock(u) \/ DisconnectedMode(u)
    BY <1>2, <2>2 DEF DisconnectedLock, ChangeModeIfConditioned, DisconnectedMode
  <2>3. CASE ReadLock(u) \/ ReadWake(u) \/ ReadRelock(u)
    BY <1>1, <1>2, <1>3, <2>3 DEF ReadLock, ReadWake, ReadRelock
  <2>4. CASE FetchFails(u) \/ FetchHalf(u) \/ FetchSucceeds(u)
    BY <1>2, <1>3, <2>4 DEF FetchFails, FetchHalf, FetchSucceeds, Unlock
  <2>5. CASE Fallback(u)
    BY <2>5, GotoMoves DEF Fallback
  <2>6. QED
    BY <1>10, <2>1, <2>2, <2>3, <2>4, <2>5 DEF Continue
<1>11. QED
  BY <1>5, <1>6, <1>7, <1>8, <1>9, <1>10 DEF Next

\* Every value served from the cache is at most MAX_CACHE_AGE_MS old.
THEOREM FallbackIsRecentHolds == Spec => FallbackIsRecent
<1> DEFINE Served ==
      \A t \in Threads : pc[t] = "fallback" /\ pc'[t] = "out" =>
        /\ answer'[t].co2 = "cached" => co2Age <= MaxCacheAge
        /\ answer'[t].tvoc = "cached" => tvocAge <= MaxCacheAge
<1>1. Init => AgeInv
  BY TypeInit, TimesAssumption DEF Init, AgeInv
<1>2. AgeInv /\ [Next]_vars => Served
  <2> SUFFICES ASSUME AgeInv, [Next]_vars, NEW t \in Threads,
                      pc[t] = "fallback", pc'[t] = "out"
               PROVE  /\ answer'[t].co2 = "cached" => co2Age <= MaxCacheAge
                      /\ answer'[t].tvoc = "cached" => tvocAge <= MaxCacheAge
    OBVIOUS
  <2>1. Fallback(t)
    BY OnlyFallbackLeaves DEF AgeInv
  <2>2. answer'[t].co2 = "cached" \/ answer'[t].tvoc = "cached" => sampleAge <= MaxCacheAge
    BY <2>1 DEF Fallback, AgeInv, TypeOK
  <2>3. QED
    BY <2>2, TimesAssumption DEF AgeInv, TypeOK
<1>3. QED
  BY <1>1, <1>2, AgeStep, PTL DEF Spec, FallbackIsRecent

-----------------------------------------------------------------------------
(***************************************************************************)
(* Calls end.  Every step of a call is a step towards its return, and what *)
(* it may still wait for the mutex and for the device only shrinks.        *)
(***************************************************************************)
Ahead == [out |-> 0, fallback |-> 1, read_fetch |-> 2, read_relock |-> 3, read_sleep |-> 4,
          read_lock |-> 5, conn_mode |-> 1, conn_lock |-> 2, disc_mode |-> 1, disc_lock |-> 2,
          cond_1s |-> 1, cond_idle |-> 1, cond_lock |-> 2, boot_mode |-> 1, boot |-> 2]

\* The ticks that a thread at a place with w ticks left waits at most.
Patience(place, w) ==
  IF place = "read_lock" THEN w + WakeDelay + LockTimeout
  ELSE IF place = "read_sleep" THEN w + LockTimeout
  ELSE w

\* No step makes a call wait longer, and one that moves it brings it closer to
\* its end.
CallDescends ==
  [][\A t \in Threads : pc[t] # "out" =>
       /\ Patience(pc'[t], wait'[t]) <= Patience(pc[t], wait[t])
       /\ pc'[t] # pc[t] => Ahead[pc'[t]] < Ahead[pc[t]]
       /\ t \in Callers /\ Continue(t) => pc'[t] # pc[t]
       /\ Tick /\ wait[t] > 0 => Patience(pc'[t], wait'[t]) < Patience(pc[t], wait[t])]_vars

\* So that no call waits longer than this in all.
WaitBounded ==
  \A t \in Threads : Patience(pc[t], wait[t]) <= 2 * LockTimeout + WakeDelay

Entries == {"cond_lock", "conn_lock", "disc_lock", "read_lock"}

Moves(t) ==
  \/ pc'[t] = pc[t] /\ wait'[t] <= wait[t]
  \/ pc[t] = "out" /\ pc'[t] \in Entries /\ wait'[t] = LockTimeout
  \/ /\ pc[t] # "out" /\ Ahead[pc'[t]] < Ahead[pc[t]]
     /\ Patience(pc'[t], wait'[t]) <= Patience(pc[t], wait[t])

LEMMA Distances ==
  /\ Ahead["out"] = 0 /\ Ahead["fallback"] = 1 /\ Ahead["read_fetch"] = 2
  /\ Ahead["read_relock"] = 3 /\ Ahead["read_sleep"] = 4 /\ Ahead["read_lock"] = 5
  /\ Ahead["conn_mode"] = 1 /\ Ahead["conn_lock"] = 2
  /\ Ahead["disc_mode"] = 1 /\ Ahead["disc_lock"] = 2
  /\ Ahead["cond_1s"] = 1 /\ Ahead["cond_idle"] = 1 /\ Ahead["cond_lock"] = 2
  /\ Ahead["boot_mode"] = 1 /\ Ahead["boot"] = 2
BY DEF Ahead

\* A thread that blocks somewhere leaves the others where they are.
LEMMA BlockLeaves ==
  ASSUME TypeOK, NEW u \in Threads, NEW place, NEW delay \in Nat, Block(u, place, delay)
  PROVE  /\ pc'[u] = place /\ wait'[u] = delay
         /\ \A t \in Threads \ {u} : Moves(t)
<1>1. /\ pc' = [pc EXCEPT ![u] = place] /\ wait' = [wait EXCEPT ![u] = delay]
      /\ pc \in [Threads -> Locations] /\ wait \in [Threads -> Nat]
  BY DEF Block, TypeOK
<1>2. \A t \in Threads \ {u} : pc'[t] = pc[t] /\ wait'[t] = wait[t] /\ wait[t] \in Nat
  BY ONLY <1>1
<1>3. pc'[u] = place /\ wait'[u] = delay
  BY ONLY <1>1
<1>4. QED
  BY <1>2, <1>3 DEF Moves

\* So does one that goes on, and it waits for nothing any more.
LEMMA GotoDescends ==
  ASSUME TypeOK, NEW u \in Threads, NEW place, Goto(u, place),
         place \notin {"read_lock", "read_sleep"}, pc[u] # "out", Ahead[place] < Ahead[pc[u]]
  PROVE  \A t \in Threads : Moves(t)
<1>1. Block(u, place, 0)
  BY DEF Goto
<1>2. pc'[u] = place /\ wait'[u] = 0 /\ \A t \in Threads \ {u} : Moves(t)
  BY <1>1, BlockLeaves
<1>3. wait[u] \in Nat
  BY DEF TypeOK
<1>4. Patience(place, 0) <= Patience(pc[u], wait[u])
  BY <1>3, TimesAssumption DEF Patience
<1>5. QED
  BY <1>2, <1>4 DEF Moves

LEMMA GiveUpDescends ==
  ASSUME TypeOK, NEW u \in Threads, NEW err, GiveUp(u, err),
         pc[u] \in {"read_lock", "read_relock", "read_fetch"}
  PROVE  \A t \in Threads : Moves(t)
<1>1. CASE Goto(u, "fallback")
  BY <1>1, GotoDescends, Distances
<1>2. CASE Goto(u, "out")
  BY <1>2, GotoDescends, Distances
<1>3. QED
  BY <1>1, <1>2 DEF GiveUp

LEMMA CallMoves ==
  ASSUME TypeOK, NEW u \in Threads, NEW place \in Entries, Call(u, place)
  PROVE  \A t \in Threads : Moves(t)
<1>1. pc[u] = "out" /\ Block(u, place, LockTimeout)
  BY DEF Call
<1>2. pc'[u] = place /\ wait'[u] = LockTimeout /\ \A t \in Threads \ {u} : Moves(t)
  BY <1>1, BlockLeaves, TimesAssumption
<1>3. QED
  BY <1>1, <1>2 DEF Moves

\* The places where a blocked read goes on.
LEMMA ReadDescends ==
  ASSUME TypeOK, NEW u \in Callers, ReadLock(u) \/ ReadWake(u) \/ ReadRelock(u)
  PROVE  \A t \in Threads : Moves(t)
<1>u. u \in Threads /\ wait[u] \in Nat
  BY DEF TypeOK
<1>1. CASE ReadLock(u)
  <2>0. pc[u] = "read_lock"
    BY <1>1 DEF ReadLock
  <2>1. CASE GiveUp(u, "EAGAIN")
    BY <1>u, <2>0, <2>1, GiveUpDescends
  <2>2. CASE Block(u, "read_sleep", WakeDelay)
    <3>1. pc'[u] = "read_sleep" /\ wait'[u] = WakeDelay /\ \A t \in Threads \ {u} : Moves(t)
      BY <1>u, <2>2, BlockLeaves, TimesAssumption
    <3>2. Patience("read_sleep", WakeDelay) <= Patience("read_lock", wait[u])
      BY <1>u, TimesAssumption DEF Patience
    <3>3. QED
      BY <2>0, <3>1, <3>2, Distances DEF Moves
  <2>3. CASE Goto(u, "read_fetch")
    BY <1>u, <2>0, <2>3, GotoDescends, Distances
  <2>4. QED
    BY <1>1, <2>1, <2>2, <2>3 DEF ReadLock
<1>2. CASE ReadWake(u)
  <2>1. pc[u] = "read_sleep" /\ Block(u, "read_relock", LockTimeout)
    BY <1>2 DEF ReadWake
  <2>2. pc'[u] = "read_relock" /\ wait'[u] = LockTimeout /\ \A t \in Threads \ {u} : Moves(t)
    BY <1>u, <2>1, BlockLeaves, TimesAssumption
  <2>3. Patience("read_relock", LockTimeout) <= Patience("read_sleep", wait[u])
    BY <1>u, TimesAssumption DEF Patience
  <2>4. QED
    BY <2>1, <2>2, <2>3, Distances DEF Moves
<1>3. CASE ReadRelock(u)
  <2>0. pc[u] = "read_relock"
    BY <1>3 DEF ReadRelock
  <2>1. CASE GiveUp(u, "EAGAIN")
    BY <1>u, <2>0, <2>1, GiveUpDescends
  <2>2. CASE Goto(u, "read_fetch")
    BY <1>u, <2>0, <2>2, GotoDescends, Distances
  <2>3. QED
    BY <1>3, <2>1, <2>2 DEF ReadRelock
<1>4. QED
  BY <1>1, <1>2, <1>3

LEMMA ContinueDescends ==
  ASSUME TypeOK, NEW u \in Callers, Continue(u)
  PROVE  \A t \in Threads : Moves(t)
<1>u. u \in Threads
  OBVIOUS
<1>1. CASE ConnectedLock(u)
  <2>1. pc[u] = "conn_lock" /\ (Goto(u, "conn_mode") \/ Goto(u, "out"))
    BY <1>1 DEF ConnectedLock, ChangeModeIfConditioned
  <2>2. QED
    BY <1>u, <2>1, GotoDescends, Distances
<1>2. CASE DisconnectedLock(u)
  <2>1. pc[u] = "disc_lock" /\ (Goto(u, "disc_mode") \/ Goto(u, "out"))
    BY <1>2 DEF DisconnectedLock, ChangeModeIfConditioned
  <2>2. QED
    BY <1>u, <2>1, GotoDescends, Distances
<1>3. CASE ConnectedMode(u) \/ DisconnectedMode(u)
  <2>1. pc[u] \in {"conn_mode", "disc_mode"} /\ Goto(u, "out")
    BY <1>3 DEF ConnectedMode, DisconnectedMode
  <2>2. QED
    BY <1>u, <2>1, GotoDescends, Distances
<1>4. CASE ReadLock(u) \/ ReadWake(u) \/ ReadRelock(u)
  BY <1>4, ReadDescends
<1>5. CASE FetchFails(u) \/ FetchHalf(u)
  <2>1. pc[u] = "read_fetch" /\ \E err : GiveUp(u, err)
    BY <1>5 DEF FetchFails, FetchHalf, Unlock
  <2>2. QED
    BY <1>u, <2>1, GiveUpDescends
<1>6. CASE FetchSucceeds(u) \/ Fallback(u)
  <2>1. pc[u] \in {"read_fetch", "fallback"} /\ Goto(u, "out")
    BY <1>6 DEF FetchSucceeds, Fallback, Unlock
  <2>2. QED
    BY <1>u, <2>1, GotoDescends, Distances
<1>7. QED
  BY <1>1, <1>2, <1>3, <1>4, <1>5, <1>6 DEF Continue

\* What a step of the driver does to where the threads stand.
LEMMA StepMoves ==
  ASSUME TypeOK, [Next]_vars
  PROVE  \A t \in Threads : Moves(t)
<1>w. Main \in Threads /\ WorkQueue \in Threads /\ \A t \in Threads : wait[t] \in Nat
  BY DEF TypeOK
<1>1. ASSUME UNCHANGED <<pc, wait>> PROVE \A t \in Threads : Moves(t)
  BY <1>1, <1>w DEF Moves
<1>2. CASE BootStart
  <2>1. pc[Main] = "boot" /\ Goto(Main, "boot_mode")
    BY <1>2 DEF BootStart
  <2>2. QED
    BY <1>w, <2>1, GotoDescends, Distances
<1>3. CASE BootMode
  <2>1. pc[Main] = "boot_mode" /\ Goto(Main, "out")
    BY <1>3 DEF BootMode
  <2>2. QED
    BY <1>w, <2>1, GotoDescends, Distances
<1>4. CASE ConditioningStart
  <2>1. Call(WorkQueue, "cond_lock")
    BY <1>4 DEF ConditioningStart
  <2>2. QED
    BY <1>w, <2>1, CallMoves DEF Entries
<1>5. CASE ConditioningLock
  <2>1. /\ pc[WorkQueue] = "cond_lock"
        /\ Goto(WorkQueue, "cond_1s") \/ Goto(WorkQueue, "cond_idle") \/ Goto(WorkQueue, "out")
    BY <1>5 DEF ConditioningLock
  <2>2. QED
    BY <1>w, <2>1, GotoDescends, Distances
<1>6. CASE ConditioningMode
  <2>1. pc[WorkQueue] \in {"cond_1s", "cond_idle"} /\ Goto(WorkQueue, "out")
    BY <1>6 DEF ConditioningMode
  <2>2. QED
    BY <1>w, <2>1, GotoDescends, Distances
<1>7. ASSUME NEW u \in Connectors, ConnectorStep(u) PROVE \A t \in Threads : Moves(t)
  <2>1. Call(u, "conn_lock") \/ Call(u, "disc_lock") \/ UNCHANGED <<pc, wait>>
    BY <1>7 DEF ConnectorStep, OnConnected, OnDisconnected
  <2>2. QED
    BY <1>1, <2>1, CallMoves DEF Entries
<1>8. ASSUME NEW u \in Readers, ReaderStep(u) PROVE \A t \in Threads : Moves(t)
  <2>1. Call(u, "read_lock") \/ UNCHANGED <<pc, wait>>
    BY <1>8 DEF ReaderStep, PollReady, Read, threadVars
  <2>2. QED
    BY <1>1, <2>1, CallMoves DEF Entries
<1>9. CASE Tick
  <2>1. pc' = pc /\ wait' = [t \in Threads |-> IF wait[t] > 0 THEN wait[t] - 1 ELSE 0]
    BY <1>9 DEF Tick
  <2>2. \A t \in Threads : pc'[t] = pc[t] /\ wait'[t] <= wait[t]
    BY <1>w, <2>1
  <2>3. QED
    BY <2>2 DEF Moves
<1>10. CASE TimerExpires \/ UNCHANGED vars
  BY <1>1, <1>10 DEF TimerExpires, vars, threadVars
<1>11. QED
  BY <1>2, <1>3, <1>4, <1>5, <1>6, <1>7, <1>8, <1>9, <1>10, ContinueDescends
     DEF Next, Boot, ConditioningWork

\* Every step of a call that is not a wait goes on.
LEMMA ContinueGoesOn ==
  ASSUME TypeOK, NEW t \in Callers, Continue(t)
  PROVE  pc'[t] # pc[t]
<1>1. ASSUME NEW place, NEW delay \in Nat, Block(t, place, delay), place # pc[t]
      PROVE  pc'[t] # pc[t]
  BY <1>1, BlockLeaves
<1>2. ASSUME NEW place, Goto(t, place), place # pc[t] PROVE pc'[t] # pc[t]
  BY <1>1, <1>2 DEF Goto
<1>3. ASSUME NEW err, GiveUp(t, err), pc[t] \notin {"fallback", "out"} PROVE pc'[t] # pc[t]
  BY <1>2, <1>3 DEF GiveUp
<1>4. CASE ConnectedLock(t) \/ ConnectedMode(t) \/ DisconnectedLock(t) \/ DisconnectedMode(t)
  BY <1>2, <1>4
     DEF ConnectedLock, ConnectedMode, DisconnectedLock, DisconnectedMode, ChangeModeIfConditioned
<1>5. CASE ReadLock(t) \/ ReadWake(t) \/ ReadRelock(t)
  BY <1>1, <1>2, <1>3, <1>5, TimesAssumption DEF ReadLock, ReadWake, ReadRelock
<1>6. CASE FetchFails(t) \/ FetchHalf(t) \/ FetchSucceeds(t) \/ Fallback(t)
  BY <1>2, <1>3, <1>6 DEF FetchFails, FetchHalf, FetchSucceeds, Fallback, Unlock
<1>7. QED
  BY <1>4, <1>5, <1>6 DEF Continue

\* The inductive core of CallsReturn, for any threads and delays: a call never
\* starts over, so it ends after at most five steps of its own, and a read that
\* cannot get the mutex back after its sleep gives up instead of trying again
\* (sensor_ccs811_driver.c:443-492).
THEOREM CallDescendsHolds == Spec => CallDescends
<1> DEFINE Descends ==
      \A t \in Threads : pc[t] # "out" =>
        /\ Patience(pc'[t], wait'[t]) <= Patience(pc[t], wait[t])
        /\ pc'[t] # pc[t] => Ahead[pc'[t]] < Ahead[pc[t]]
        /\ t \in Callers /\ Continue(t) => pc'[t] # pc[t]
        /\ Tick /\ wait[t] > 0 => Patience(pc'[t], wait'[t]) < Patience(pc[t], wait[t])
<1>1. TypeOK /\ [Next]_vars => Descends
  <2> SUFFICES ASSUME TypeOK, [Next]_vars, NEW t \in Threads, pc[t] # "out"
               PROVE  /\ Patience(pc'[t], wait'[t]) <= Patience(pc[t], wait[t])
                      /\ pc'[t] # pc[t] => Ahead[pc'[t]] < Ahead[pc[t]]
                      /\ t \in Callers /\ Continue(t) => pc'[t] # pc[t]
                      /\ Tick /\ wait[t] > 0 =>
                           Patience(pc'[t], wait'[t]) < Patience(pc[t], wait[t])
    OBVIOUS
  <2>0. wait[t] \in Nat /\ wait'[t] \in Nat
    BY TypeStep DEF TypeOK
  <2>1. \/ pc'[t] = pc[t] /\ wait'[t] <= wait[t]
        \/ /\ Ahead[pc'[t]] < Ahead[pc[t]]
           /\ Patience(pc'[t], wait'[t]) <= Patience(pc[t], wait[t])
    BY StepMoves DEF Moves
  <2>2. /\ Patience(pc'[t], wait'[t]) <= Patience(pc[t], wait[t])
        /\ pc'[t] # pc[t] => Ahead[pc'[t]] < Ahead[pc[t]]
    BY <2>0, <2>1, TimesAssumption DEF Patience
  <2>3. ASSUME t \in Callers, Continue(t) PROVE pc'[t] # pc[t]
    BY <2>3, ContinueGoesOn
  <2>4. ASSUME Tick, wait[t] > 0 PROVE Patience(pc'[t], wait'[t]) < Patience(pc[t], wait[t])
    <3>1. pc'[t] = pc[t] /\ wait'[t] = wait[t] - 1
      BY <2>4 DEF Tick
    <3>2. QED
      BY <2>0, <3>1, TimesAssumption DEF Patience
  <2>5. QED
    BY <2>2, <2>3, <2>4
<1>2. QED
  BY <1>1, TypeCorrect, PTL DEF Spec, CallDescends

\* A read waits for the mutex twice and for the device's first sample once, and
\* every other call waits once: the thread that connects, disconnects or reads
\* is not held up longer, whatever the others do.
THEOREM WaitBoundedHolds == Spec => []WaitBounded
<1>1. Init => WaitBounded
  <2> SUFFICES ASSUME Init, NEW t \in Threads
               PROVE  Patience(pc[t], wait[t]) <= 2 * LockTimeout + WakeDelay
    BY DEF WaitBounded
  <2>1. pc[t] \in {"boot", "out"} /\ wait[t] = 0
    BY DEF Init
  <2>2. QED
    BY <2>1, TimesAssumption DEF Patience
<1>2. TypeOK /\ WaitBounded /\ [Next]_vars => WaitBounded'
  <2> SUFFICES ASSUME TypeOK, WaitBounded, [Next]_vars, NEW t \in Threads
               PROVE  Patience(pc'[t], wait'[t]) <= 2 * LockTimeout + WakeDelay
    BY DEF WaitBounded
  <2>0. /\ wait[t] \in Nat /\ wait'[t] \in Nat
        /\ Patience(pc[t], wait[t]) <= 2 * LockTimeout + WakeDelay
    BY TypeStep DEF TypeOK, WaitBounded
  <2>1. CASE pc'[t] = pc[t] /\ wait'[t] <= wait[t]
    BY <2>0, <2>1, TimesAssumption DEF Patience
  <2>2. CASE pc'[t] \in Entries /\ wait'[t] = LockTimeout
    BY <2>2, TimesAssumption DEF Patience, Entries
  <2>3. CASE Patience(pc'[t], wait'[t]) <= Patience(pc[t], wait[t])
    <3>1. Patience(pc[t], wait[t]) \in Nat /\ Patience(pc'[t], wait'[t]) \in Nat
      BY <2>0, TimesAssumption DEF Patience
    <3>2. QED
      BY <2>0, <2>3, <3>1, TimesAssumption
  <2>4. QED
    BY <2>1, <2>2, <2>3, StepMoves DEF Moves
<1>3. QED
  BY <1>1, <1>2, TypeCorrect, PTL DEF Spec
=============================================================================
