--------------------------- MODULE Ccs811WakeProofs ---------------------------
(***************************************************************************)
(* Theorems about what a read fetches, when one thread makes all calls: in *)
(* the default build this is the Bluetooth RX work queue, which reports    *)
(* connects and disconnects and serves the GATT reads (OneCallerHolds).    *)
(* With a second caller the property fails: a disconnect meets a sleeping  *)
(* read, and one reader clears await_first_1s_sample for another.          *)
(***************************************************************************)
EXTENDS Ccs811Proofs

USE DEF Threads, Callers

SoleCaller(r) == Callers = {r} /\ r # WorkQueue

Reading == {"read_sleep", "read_relock", "read_fetch"}

\* Nobody else reads, and the delayed work has no mode command left to give
\* once a read has found the sensor conditioned.
ReadsAlone(r) ==
  /\ \A t \in Threads \ {r} : pc[t] \notin Reading
  /\ pc[r] \in Reading => conditioning_complete /\ pc[WorkQueue] \notin {"cond_1s", "cond_idle"}

\* The sleep of a read covers what is left of the wake delay.
WakeTimed(r) ==
  /\ pc[r] \in {"read_sleep", "read_relock"} => mode = "sec1"
  /\ pc[r] = "read_sleep" => modeAge + wait[r] >= WakeDelay
  /\ pc[r] = "read_relock" => modeAge >= WakeDelay

\* await_first_1s_sample is lowered only after the delay, or by a disconnect
\* on its way to the IDLE command.
LiveTimed(r) ==
  mode = "sec1" /\ ~modeFailed /\ ~await_first_1s_sample =>
    modeAge >= WakeDelay \/ pc[r] = "disc_mode"

IdleNoted == mode = "idle" /\ ~modeFailed => in_idle_mode

FetchTimed(r) ==
  pc[r] = "read_fetch" /\ ~modeFailed =>
    /\ mode # "idle"
    /\ mode = "sec1" => modeAge >= WakeDelay

WakeInv(r) ==
  ReadsAlone(r) /\ WakeTimed(r) /\ LiveTimed(r) /\ IdleNoted /\ FetchTimed(r)

LEMMA SoleIsThread ==
  ASSUME NEW r, SoleCaller(r)
  PROVE  /\ r \in Threads /\ r # Main /\ r # WorkQueue /\ Main # WorkQueue
         /\ \A t \in Callers : t = r
BY ThreadsAssumption DEF SoleCaller

LEMMA WakeInit == ASSUME NEW r, SoleCaller(r), Init PROVE WakeInv(r)
<1>1. pc[r] = "out" /\ \A t \in Threads : pc[t] \in {"out", "boot"}
  BY SoleIsThread DEF Init
<1>2. ReadsAlone(r)
  BY <1>1 DEF ReadsAlone, Reading
<1>3. WakeTimed(r) /\ FetchTimed(r)
  BY <1>1 DEF WakeTimed, FetchTimed
<1>4. LiveTimed(r) /\ IdleNoted
  BY DEF Init, LiveTimed, IdleNoted
<1>5. QED
  BY <1>2, <1>3, <1>4 DEF WakeInv

\* A step that neither commands a mode, nor changes a flag, nor begins, renews
\* or ends a wait of the caller.
LEMMA WakeFrame ==
  ASSUME NEW r, WakeInv(r), UNCHANGED <<modeVars, flagVars>>,
         conditioning_complete => conditioning_complete',
         \A t \in Threads \ {r} : pc'[t] \notin Reading,
         pc[r] = "disc_mode" => pc'[r] = "disc_mode",
         \/ pc'[r] = pc[r] /\ wait'[r] = wait[r]
         \/ pc'[r] \notin Reading,
         pc'[r] \in Reading => pc'[WorkQueue] \notin {"cond_1s", "cond_idle"}
  PROVE  WakeInv(r)'
<1> USE DEF modeVars, flagVars
<1>1. ReadsAlone(r)'
  BY DEF WakeInv, ReadsAlone
<1>2. WakeTimed(r)'
  BY DEF WakeInv, WakeTimed, Reading
<1>3. LiveTimed(r)' /\ IdleNoted'
  BY DEF WakeInv, LiveTimed, IdleNoted
<1>4. FetchTimed(r)'
  BY DEF WakeInv, FetchTimed, Reading
<1>5. QED
  BY <1>1, <1>2, <1>3, <1>4 DEF WakeInv

\* A step of another thread that leaves the mode and the flags alone.
LEMMA WakeOthers ==
  ASSUME NEW r, SoleCaller(r), IInv, WakeInv(r),
         BootStart \/ TimerExpires \/ ConditioningStart \/ ConditioningLock
  PROVE  WakeInv(r)'
<1> USE SoleIsThread
<1>1. TypeOK /\ TypeOK' /\ r \in Threads /\ Main \in Threads /\ WorkQueue \in Threads
  BY TypeStep DEF IInv, Next, Boot, ConditioningWork
<1>2. UNCHANGED <<modeVars, flagVars>>
  BY DEF BootStart, TimerExpires, ConditioningStart, ConditioningLock
<1>3. CASE BootStart
  <2>1. /\ pc'[Main] = "boot_mode" /\ \A u \in Threads \ {Main} : pc'[u] = pc[u]
        /\ wait'[r] = wait[r]
    BY <1>1, <1>3, GotoMoves DEF BootStart, Goto, Block, TypeOK
  <2>2. ~conditioning_complete
    BY <1>3 DEF BootStart, IInv, BootInv, TimerInv
  <2>3. QED
    BY <1>1, <1>2, <2>1, <2>2, WakeFrame DEF WakeInv, ReadsAlone, Reading
<1>4. CASE TimerExpires
  BY <1>1, <1>2, <1>4, WakeFrame DEF TimerExpires, threadVars, WakeInv, ReadsAlone
<1>5. CASE ConditioningStart
  <2>1. /\ pc'[WorkQueue] = "cond_lock" /\ \A u \in Threads \ {WorkQueue} : pc'[u] = pc[u]
        /\ wait'[r] = wait[r] /\ UNCHANGED conditioning_complete
    BY <1>1, <1>5, OnlyOneMoves DEF ConditioningStart, Call, Block, TypeOK
  <2>2. QED
    BY <1>1, <1>2, <2>1, WakeFrame DEF WakeInv, ReadsAlone, Reading
<1>6. CASE ConditioningLock
  <2>1. /\ pc'[WorkQueue] \in {"out", "cond_1s", "cond_idle"}
        /\ \A u \in Threads \ {WorkQueue} : pc'[u] = pc[u]
        /\ wait'[r] = wait[r]
        /\ conditioning_complete => conditioning_complete' /\ pc'[WorkQueue] = "out"
    BY <1>1, <1>6, GotoMoves DEF ConditioningLock, Goto, Block, TypeOK
  <2>2. QED
    BY <1>1, <1>2, <2>1, WakeFrame DEF WakeInv, ReadsAlone, Reading
<1>7. QED
  BY <1>3, <1>4, <1>5, <1>6

\* What a mode command leaves behind.
LEMMA Enter1SecAwaits ==
  ASSUME Enter1SecMode
  PROVE  modeFailed' \/ (mode' = "sec1" /\ await_first_1s_sample')
BY DEF Enter1SecMode, ModeUpdate

LEMMA EnterIdleNotes ==
  ASSUME EnterIdleMode
  PROVE  modeFailed' \/ (mode' = "idle" /\ in_idle_mode')
BY DEF EnterIdleMode, ModeUpdate

\* A critical section that gave a mode command while the caller was not reading.
LEMMA WakeCommand ==
  ASSUME NEW r, SoleCaller(r), WakeInv(r),
         \A t \in Threads : pc'[t] \notin Reading,
         Enter1SecMode \/ EnterIdleMode
  PROVE  WakeInv(r)'
<1>1. r \in Threads
  BY SoleIsThread
<1>2. ReadsAlone(r)' /\ WakeTimed(r)' /\ FetchTimed(r)'
  BY <1>1 DEF ReadsAlone, WakeTimed, FetchTimed, Reading
<1>3. LiveTimed(r)' /\ IdleNoted'
  BY Enter1SecAwaits, EnterIdleNotes DEF LiveTimed, IdleNoted
<1>4. QED
  BY <1>2, <1>3 DEF WakeInv

LEMMA WakeBootMode ==
  ASSUME NEW r, SoleCaller(r), IInv, WakeInv(r), BootMode
  PROVE  WakeInv(r)'
<1> USE SoleIsThread
<1>1. pc'[Main] = "out" /\ \A u \in Threads \ {Main} : pc'[u] = pc[u]
  BY GotoMoves DEF BootMode, IInv
<1>2. mode = "reset" /\ mode' \in {"reset", "sec10"} /\ mutex = Main
  BY DEF BootMode, ModeUpdate, IInv, BootInv, MutexOwner, HoldingLock
<1>3. pc[r] \notin Reading
  BY <1>2 DEF IInv, MutexOwner, HoldingLock, WakeInv, WakeTimed, Reading
<1>4. ReadsAlone(r)'
  BY <1>1, <1>3 DEF WakeInv, ReadsAlone, Reading
<1>5. WakeTimed(r)' /\ FetchTimed(r)'
  BY <1>1, <1>3 DEF WakeTimed, FetchTimed, Reading
<1>6. LiveTimed(r)' /\ IdleNoted'
  BY <1>2 DEF LiveTimed, IdleNoted
<1>7. QED
  BY <1>4, <1>5, <1>6 DEF WakeInv

LEMMA WakeConditioningMode ==
  ASSUME NEW r, SoleCaller(r), IInv, WakeInv(r), ConditioningMode
  PROVE  WakeInv(r)'
<1> USE SoleIsThread
<1>1. /\ pc[WorkQueue] \in {"cond_1s", "cond_idle"} /\ pc'[WorkQueue] = "out"
      /\ \A u \in Threads \ {WorkQueue} : pc'[u] = pc[u]
  BY GotoMoves DEF ConditioningMode, IInv
<1>2. \A t \in Threads : pc'[t] \notin Reading
  BY <1>1 DEF WakeInv, ReadsAlone, Reading
<1>3. Enter1SecMode \/ EnterIdleMode
  BY DEF ConditioningMode
<1>4. QED
  BY <1>2, <1>3, WakeCommand

\* The caller begins a call, or goes on to the next place outside Reading.
LEMMA WakeCalls ==
  ASSUME NEW r, SoleCaller(r), IInv, WakeInv(r),
         OnConnected(r) \/ OnDisconnected(r) \/ PollReady(r) \/ \E ble \in BOOLEAN : Read(r, ble)
  PROVE  WakeInv(r)'
<1> USE SoleIsThread
<1>1. TypeOK
  BY DEF IInv
<1>2. /\ UNCHANGED <<modeVars, flagVars>> /\ (conditioning_complete => conditioning_complete')
      /\ pc[r] = "out" /\ pc'[r] \notin Reading
      /\ \A u \in Threads \ {r} : pc'[u] = pc[u]
  <2>1. CASE OnConnected(r)
    BY <1>1, <2>1, OnlyOneMoves DEF OnConnected, Call, Reading
  <2>2. CASE OnDisconnected(r)
    BY <1>1, <2>2, OnlyOneMoves DEF OnDisconnected, Call, Reading
  <2>3. CASE PollReady(r)
    BY <1>1, <2>3 DEF PollReady, IsReady, threadVars, Reading
  <2>4. ASSUME NEW ble \in BOOLEAN, Read(r, ble)
        PROVE  /\ UNCHANGED <<modeVars, flagVars, conditioning_complete>>
               /\ pc[r] = "out" /\ pc'[r] \notin Reading
               /\ \A u \in Threads \ {r} : pc'[u] = pc[u]
    BY <1>1, <2>4, OnlyOneMoves DEF Read, Call, Reading
  <2>5. QED
    BY <2>1, <2>2, <2>3, <2>4
<1>3. QED
  BY <1>2, WakeFrame DEF WakeInv, ReadsAlone

LEMMA WakeReturns ==
  ASSUME NEW r, SoleCaller(r), IInv, WakeInv(r),
         FetchFails(r) \/ FetchHalf(r) \/ FetchSucceeds(r) \/ Fallback(r)
  PROVE  WakeInv(r)'
<1> USE SoleIsThread
<1>1. TypeOK
  BY DEF IInv
<1>2. /\ UNCHANGED <<modeVars, flagVars, conditioning_complete>>
      /\ pc[r] \in {"read_fetch", "fallback"} /\ pc'[r] \in {"fallback", "out"}
      /\ \A u \in Threads \ {r} : pc'[u] = pc[u]
  <2>1. CASE FetchFails(r)
    BY <1>1, <2>1, GiveUpMoves DEF FetchFails, Unlock
  <2>2. CASE FetchHalf(r)
    BY <1>1, <2>2, GiveUpMoves DEF FetchHalf, Unlock
  <2>3. CASE FetchSucceeds(r)
    BY <1>1, <2>3, GotoMoves DEF FetchSucceeds, Unlock
  <2>4. CASE Fallback(r)
    BY <1>1, <2>4, GotoMoves DEF Fallback
  <2>5. QED
    BY <2>1, <2>2, <2>3, <2>4
<1>3. QED
  BY <1>2, WakeFrame DEF WakeInv, ReadsAlone, Reading

LEMMA WakeModes ==
  ASSUME NEW r, SoleCaller(r), IInv, WakeInv(r), ConnectedMode(r) \/ DisconnectedMode(r)
  PROVE  WakeInv(r)'
<1> USE SoleIsThread
<1>1. pc'[r] = "out" /\ \A u \in Threads \ {r} : pc'[u] = pc[u]
  BY GotoMoves DEF ConnectedMode, DisconnectedMode, IInv
<1>2. \A t \in Threads : pc'[t] \notin Reading
  BY <1>1 DEF WakeInv, ReadsAlone, Reading
<1>3. Enter1SecMode \/ EnterIdleMode
  BY DEF ConnectedMode, DisconnectedMode
<1>4. QED
  BY <1>2, <1>3, WakeCommand

LEMMA WakeConnectedLock ==
  ASSUME NEW r, SoleCaller(r), IInv, WakeInv(r), ConnectedLock(r)
  PROVE  WakeInv(r)'
<1> USE SoleIsThread
<1>1. /\ pc[r] = "conn_lock" /\ pc'[r] \in {"out", "conn_mode"}
      /\ \A u \in Threads \ {r} : pc'[u] = pc[u]
  BY GotoMoves DEF ConnectedLock, ChangeModeIfConditioned, IInv
<1>2. UNCHANGED <<modeVars, conditioning_complete, in_idle_mode, await_first_1s_sample>>
  BY DEF ConnectedLock
<1>3. ReadsAlone(r)' /\ WakeTimed(r)' /\ FetchTimed(r)'
  BY <1>1 DEF WakeInv, ReadsAlone, WakeTimed, FetchTimed, Reading
<1>4. LiveTimed(r)' /\ IdleNoted'
  BY <1>1, <1>2 DEF WakeInv, LiveTimed, IdleNoted, modeVars
<1>5. QED
  BY <1>3, <1>4 DEF WakeInv

\* Lowering the flag leads to the IDLE command, or the 1 s mode is still off.
LEMMA WakeDisconnectedLock ==
  ASSUME NEW r, SoleCaller(r), IInv, WakeInv(r), DisconnectedLock(r)
  PROVE  WakeInv(r)'
<1> USE SoleIsThread
<1>1. /\ pc[r] = "disc_lock" /\ pc'[r] \in {"out", "disc_mode"}
      /\ \A u \in Threads \ {r} : pc'[u] = pc[u]
      /\ \/ pc'[r] = "disc_mode" \/ ~conditioning_complete
         \/ UNCHANGED await_first_1s_sample
  BY GotoMoves DEF DisconnectedLock, ChangeModeIfConditioned, IInv
<1>2. UNCHANGED <<modeVars, conditioning_complete, in_idle_mode>>
  BY DEF DisconnectedLock
<1>3. ReadsAlone(r)' /\ WakeTimed(r)' /\ FetchTimed(r)'
  BY <1>1 DEF WakeInv, ReadsAlone, WakeTimed, FetchTimed, Reading
<1>4. LiveTimed(r)' /\ IdleNoted'
  BY <1>1, <1>2 DEF WakeInv, LiveTimed, IdleNoted, modeVars, IInv, ModeInv
<1>5. QED
  BY <1>3, <1>4 DEF WakeInv

\* A read that passes the gate finds the mutex free, so no mode command is
\* under way: the device runs at 1 s with its flag up and the read sleeps, or
\* the flag is down and the delay is over.  An idle device has no client.
LEMMA WakeReadLock ==
  ASSUME NEW r, SoleCaller(r), IInv, WakeInv(r), ReadLock(r)
  PROVE  WakeInv(r)'
<1> USE SoleIsThread, TimesAssumption
<1>1. pc[r] = "read_lock" /\ UNCHANGED <<modeVars, flagVars>> /\ TypeOK
  BY DEF ReadLock, IInv
<1>2. conditioning_complete => conditioning_complete'
  BY <1>1 DEF ReadLock, IsReady, TypeOK
<1>3. CASE GiveUp(r, "EAGAIN")
  <2>1. pc'[r] \in {"fallback", "out"} /\ \A u \in Threads \ {r} : pc'[u] = pc[u]
    BY <1>1, <1>3, GiveUpMoves
  <2>2. QED
    BY <1>1, <1>2, <2>1, WakeFrame DEF WakeInv, ReadsAlone, Reading
<1>4. ASSUME mutex = NoThread, conditioning_complete' = IsReady, IsReady,
             ~in_idle_mode \/ ble_connected,
             IF await_first_1s_sample
               THEN Block(r, "read_sleep", WakeDelay)
               ELSE Goto(r, "read_fetch")
      PROVE  WakeInv(r)'
  <2>1. \A t \in Threads : pc[t] \notin HoldingLock
    BY <1>4, ThreadsAssumption DEF IInv, MutexOwner
  <2>2. /\ pc'[r] = IF await_first_1s_sample THEN "read_sleep" ELSE "read_fetch"
        /\ \A u \in Threads \ {r} : pc'[u] = pc[u]
    BY <1>1, <1>4, OnlyOneMoves, GotoMoves
  <2>3. await_first_1s_sample => wait'[r] = WakeDelay
    BY <1>1, <1>4 DEF Block, TypeOK
  <2>4. mode = "idle" /\ ~modeFailed => ~ble_connected
    BY <2>1 DEF IInv, SettledInv, ModeSteps, HoldingLock
  <2>5. await_first_1s_sample => mode = "sec1"
    BY DEF IInv, AwaitOnlyWhenLive
  <2>6. ReadsAlone(r)'
    BY <1>1, <1>2, <1>4, <2>1, <2>2 DEF WakeInv, ReadsAlone, Reading, HoldingLock
  <2>7. WakeTimed(r)'
    BY <1>1, <2>2, <2>3, <2>5 DEF WakeTimed, modeVars, TypeOK
  <2>8. LiveTimed(r)' /\ IdleNoted'
    BY <1>1 DEF WakeInv, LiveTimed, IdleNoted, modeVars, flagVars
  <2>9. FetchTimed(r)'
    BY <1>1, <1>4, <2>2, <2>4 DEF WakeInv, LiveTimed, IdleNoted, FetchTimed, modeVars, flagVars
  <2>10. QED
    BY <2>6, <2>7, <2>8, <2>9 DEF WakeInv
<1>5. QED
  BY <1>3, <1>4 DEF ReadLock

LEMMA WakeReadWake ==
  ASSUME NEW r, SoleCaller(r), IInv, WakeInv(r), ReadWake(r)
  PROVE  WakeInv(r)'
<1> USE SoleIsThread, TimesAssumption
<1>1. /\ pc[r] = "read_sleep" /\ wait[r] = 0 /\ pc'[r] = "read_relock"
      /\ \A u \in Threads \ {r} : pc'[u] = pc[u]
      /\ UNCHANGED <<modeVars, flagVars, conditioning_complete>>
  BY OnlyOneMoves DEF ReadWake, IInv
<1>2. mode = "sec1" /\ modeAge >= WakeDelay
  BY <1>1 DEF WakeInv, WakeTimed, IInv, TypeOK
<1>3. ReadsAlone(r)'
  BY <1>1 DEF WakeInv, ReadsAlone, Reading
<1>4. WakeTimed(r)' /\ FetchTimed(r)'
  BY <1>1, <1>2 DEF WakeTimed, FetchTimed, modeVars
<1>5. LiveTimed(r)' /\ IdleNoted'
  BY <1>1, <1>2 DEF LiveTimed, IdleNoted, modeVars
<1>6. QED
  BY <1>3, <1>4, <1>5 DEF WakeInv

LEMMA WakeReadRelock ==
  ASSUME NEW r, SoleCaller(r), IInv, WakeInv(r), ReadRelock(r)
  PROVE  WakeInv(r)'
<1> USE SoleIsThread, TimesAssumption
<1>1. /\ pc[r] = "read_relock" /\ pc'[r] \in {"fallback", "out", "read_fetch"}
      /\ \A u \in Threads \ {r} : pc'[u] = pc[u]
      /\ UNCHANGED <<modeVars, conditioning_complete, in_idle_mode>>
  BY GotoMoves, GiveUpMoves DEF ReadRelock, IInv
<1>2. mode = "sec1" /\ modeAge >= WakeDelay
  BY <1>1 DEF WakeInv, WakeTimed
<1>3. ReadsAlone(r)'
  BY <1>1 DEF WakeInv, ReadsAlone, Reading
<1>4. WakeTimed(r)' /\ FetchTimed(r)'
  BY <1>1, <1>2 DEF WakeTimed, FetchTimed, modeVars
<1>5. LiveTimed(r)' /\ IdleNoted'
  BY <1>1, <1>2 DEF LiveTimed, IdleNoted, modeVars
<1>6. QED
  BY <1>3, <1>4, <1>5 DEF WakeInv

\* While the caller sleeps, what its sleep has left and the age of the mode
\* move against each other.
LEMMA WakeTick ==
  ASSUME NEW r, SoleCaller(r), IInv, WakeInv(r), Tick
  PROVE  WakeInv(r)'
<1> USE SoleIsThread, TimesAssumption
<1>1. /\ UNCHANGED <<pc, mode, modeFailed, conditioning_complete, flagVars>>
      /\ wait'[r] = IF wait[r] > 0 THEN wait[r] - 1 ELSE 0
      /\ modeAge' = Older(modeAge, WakeDelay)
  BY DEF Tick
<1>2. modeAge \in Nat /\ wait[r] \in Nat
  BY DEF IInv, TypeOK
<1>3. /\ modeAge >= WakeDelay => modeAge' >= WakeDelay
      /\ modeAge + wait[r] >= WakeDelay => modeAge' + wait'[r] >= WakeDelay
  BY <1>1, <1>2 DEF Older
<1>4. ReadsAlone(r)'
  BY <1>1 DEF WakeInv, ReadsAlone
<1>5. WakeTimed(r)' /\ FetchTimed(r)'
  BY <1>1, <1>3 DEF WakeInv, WakeTimed, FetchTimed
<1>6. LiveTimed(r)' /\ IdleNoted'
  BY <1>1, <1>3 DEF WakeInv, LiveTimed, IdleNoted, flagVars
<1>7. QED
  BY <1>4, <1>5, <1>6 DEF WakeInv

LEMMA WakeStep ==
  ASSUME NEW r, SoleCaller(r), IInv, WakeInv(r), [Next]_vars
  PROVE  WakeInv(r)'
<1>1. CASE Boot \/ TimerExpires \/ ConditioningWork \/ Tick
  BY <1>1, WakeOthers, WakeBootMode, WakeConditioningMode, WakeTick DEF Boot, ConditioningWork
<1>2. ASSUME NEW t \in Connectors, ConnectorStep(t) PROVE WakeInv(r)'
  BY <1>2, SoleIsThread, WakeCalls DEF ConnectorStep
<1>3. ASSUME NEW t \in Readers, ReaderStep(t) PROVE WakeInv(r)'
  BY <1>3, SoleIsThread, WakeCalls DEF ReaderStep
<1>4. ASSUME NEW t \in Callers, Continue(t) PROVE WakeInv(r)'
  <2>1. Continue(r)
    BY <1>4, SoleIsThread
  <2>2. QED
    BY <2>1, WakeConnectedLock, WakeDisconnectedLock, WakeModes, WakeReadLock, WakeReadWake,
       WakeReadRelock, WakeReturns DEF Continue
<1>5. CASE UNCHANGED vars
  BY <1>5 DEF vars, threadVars, modeVars, flagVars, WakeInv, ReadsAlone, WakeTimed, LiveTimed,
     IdleNoted, FetchTimed
<1>6. QED
  BY <1>1, <1>2, <1>3, <1>4, <1>5 DEF Next

LEMMA WakeHolds == ASSUME NEW CONSTANT r, SoleCaller(r) PROVE Spec => []WakeInv(r)
<1>1. Init => WakeInv(r)
  BY WakeInit
<1>2. IInv /\ WakeInv(r) /\ [Next]_vars => WakeInv(r)'
  BY WakeStep
<1>3. QED
  BY <1>1, <1>2, InvHolds, PTL DEF Spec

\* With one caller, no read fetches from a device that was put to sleep, nor in
\* the 1 s mode before the wake delay is over, however the conditioning work, the
\* reads and the disconnects interleave, unless the last mode command failed
\* (sensor_ccs811_driver.c:464-492).
THEOREM FetchAfterWakeHolds ==
  ASSUME NEW CONSTANT r, SoleCaller(r)
  PROVE  Spec => []FetchAfterWake
<1>1. WakeInv(r) => FetchAfterWake
  <2> SUFFICES ASSUME WakeInv(r) PROVE FetchAfterWake
    OBVIOUS
  <2>1. \A t \in Threads : pc[t] = "read_fetch" => t = r
    BY DEF WakeInv, ReadsAlone, Reading
  <2>2. QED
    BY <2>1 DEF WakeInv, FetchTimed, FetchAfterWake
<1>2. QED
  BY <1>1, WakeHolds, PTL
=============================================================================
