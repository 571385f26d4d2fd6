--------------------------- MODULE EssDefaultProofs ---------------------------
(***************************************************************************)
(* What the client sees in the default build, for any readings, failing    *)
(* sensors and subscriptions.  Without timed samples only main and, after  *)
(* it, the Bluetooth thread ever use the sensor manager: nobody waits for  *)
(* its mutex, no read is refused, and what an update hands to the service  *)
(* stays the newest data until the service has been through it.            *)
(*                                                                         *)
(* In the periodic build ConnectCompensationFresh, NoChangeUnannounced and *)
(* EssCurrent do not hold (README, section 5).                             *)
(***************************************************************************)
EXTENDS EssProofs

-----------------------------------------------------------------------------
(* One thread at a time *)

SoloInv ==
  /\ works = {} /\ job[WorkQueue] = "idle"
  /\ job[Main] = "idle" \/ job[Rx] = "idle"
  /\ \A t \in Threads : phase[t] # "lock" /\ todo[t] # <<"refuse">>

\* Lemma: scripts get a copy before they use it, and end in one answer, not in
\* a refusal.
LEMMA TailRest ==
  ASSUME NEW j \in Jobs, NEW s \in Rest(j), s # <<>>
  PROVE  /\ Tail(s) # <<"refuse">>
         /\ Tail(s) \in {<<"answer">>, <<"seed">>} => Head(s) = "get"
         /\ j = "boot" /\ Tail(s) = <<>> => s = <<"seed">>
         /\ Head(s) = "seed" => s = <<"seed">>
         /\ Head(s) = "answer" => s = <<"answer">> /\ j \in Reads
         /\ Head(s) = "refuse" => s = <<"refuse">>
<1>1. CASE j = "boot"
  <2>0. s \in BootRest BY <1>1 DEF Rest
  <2>1. CASE s = <<"ALL", "register", "arm", "get", "seed">> BY <2>1
  <2>2. CASE s = <<"register", "arm", "get", "seed">> BY <2>2
  <2>3. CASE s = <<"arm", "get", "seed">> BY <2>3
  <2>4. CASE s = <<"get", "seed">> BY <2>4
  <2>5. CASE s = <<"seed">> BY <2>5
  <2> QED BY <2>0, <2>1, <2>2, <2>3, <2>4, <2>5 DEF BootRest
<1>2. CASE j = "connect"
  <2>0. s \in ConnectRest BY <1>2 DEF Rest
  <2>1. CASE s = <<"mode", "ENV_BASIC", "AIR_QUALITY", "schedule">> BY <1>2, <2>1
  <2>2. CASE s = <<"ENV_BASIC", "AIR_QUALITY", "schedule">> BY <1>2, <2>2
  <2>3. CASE s = <<"AIR_QUALITY", "schedule">> BY <1>2, <2>3
  <2>4. CASE s = <<"schedule">> BY <1>2, <2>4
  <2> QED BY <2>0, <2>1, <2>2, <2>3, <2>4 DEF ConnectRest
<1>3. CASE j = "disconnect"
  <2>1. s = <<"mode">> BY <1>3 DEF Rest
  <2> QED BY <1>3, <2>1
<1>4. CASE j = "env_work"
  <2>0. s \in EnvRest BY <1>4 DEF Rest
  <2>1. CASE s = <<"ENV_BASIC", "rearm">> BY <1>4, <2>1
  <2>2. CASE s = <<"rearm">> BY <1>4, <2>2
  <2> QED BY <2>0, <2>1, <2>2 DEF EnvRest
<1>5. CASE j = "aq_work"
  <2>0. s \in AirRest BY <1>5 DEF Rest
  <2>1. CASE s = <<"AIR_QUALITY", "baseline", "rearm">> BY <1>5, <2>1
  <2>2. CASE s = <<"baseline", "rearm">> BY <1>5, <2>2
  <2>3. CASE s = <<"rearm">> BY <1>5, <2>3
  <2> QED BY <2>0, <2>1, <2>2, <2>3 DEF AirRest
<1>6. CASE j \in Reads
  <2>0. s \in ClimateRest \cup PressureRest \cup GasRest
    <3>1. CASE j \in {"temperature", "humidity"} BY <3>1 DEF Rest
    <3>2. CASE j = "pressure" BY <3>2 DEF Rest
    <3>3. CASE j \in {"co2", "tvoc"} BY <3>3 DEF Rest
    <3> QED BY <1>6, <3>1, <3>2, <3>3 DEF Reads
  <2>1. ASSUME NEW call \in Updates \cup DriverCalls, s = <<call, "get", "answer">>
        PROVE  Tail(s) = <<"get", "answer">> /\ j # "boot" /\ Head(s) \notin {"seed", "answer", "refuse"}
    BY <1>6, <2>1 DEF Reads, Updates, DriverCalls
  <2>2. CASE s = <<"get", "answer">> BY <1>6, <2>2 DEF Reads
  <2>3. CASE s = <<"answer">> BY <1>6, <2>3 DEF Reads
  <2>4. CASE s = <<"refuse">> BY <1>6, <2>4 DEF Reads
  <2> QED BY <1>6, <2>0, <2>1, <2>2, <2>3, <2>4
       DEF ClimateRest, PressureRest, GasRest, Reads, Updates, DriverCalls
<1>7. CASE j = "idle" BY <1>7 DEF Rest
<1> QED BY <1>1, <1>2, <1>3, <1>4, <1>5, <1>6, <1>7 DEF Jobs

\* Lemma: a thread without a job is inside no call.
LEMMA IdleIsOut ==
  ASSUME TypeInv, NEW t \in Threads, job[t] = "idle"
  PROVE  todo[t] = <<>> /\ phase[t] = "call"
<1>1. todo[t] \in Rest("idle") /\ Inside(phase[t], todo[t], reads[t])
  BY DEF TypeInv, ControlInv, CallInv
<1>2. todo[t] = <<>> BY <1>1 DEF Rest
<1> QED BY <1>1, <1>2 DEF Inside

\* Lemma: only a thread with a job makes a step.
LEMMA StepIsBusy ==
  ASSUME TypeInv, NEW t \in Threads, Step(t)
  PROVE  job[t] # "idle" /\ todo[t] # <<>>
<1>1. todo[t] # <<>>
  <2>1. Inside(phase[t], todo[t], reads[t]) BY DEF TypeInv, ControlInv, CallInv
  <2> QED
    BY <2>1
    DEF Step, Internal, Lock, Locked, GiveUp, SensorRead, DriverCall, DriverReturns, Register,
        Arm, Seed, Schedule, Rearm, CallbackReturns, Return, At, Wakes, Inside
<1> QED BY <1>1, IdleIsOut

\* Lemma: while one thread has a job, the others have none.
LEMMA Alone ==
  ASSUME TypeInv, SoloInv, NEW t \in Threads, job[t] # "idle", NEW u \in Threads \ {t}
  PROVE  job[u] = "idle" /\ todo[u] = <<>> /\ phase[u] = "call"
<1>1. job[u] = "idle" BY DEF SoloInv, Threads
<1> QED BY <1>1, IdleIsOut

\* Lemma: so it finds the mutex free.
LEMMA MutexFree ==
  ASSUME TypeInv, SoloInv, NEW t \in Threads, job[t] # "idle", phase[t] = "call"
  PROVE  mutex = NoThread
<1>1. mutex \in Threads \cup {NoThread} BY DEF TypeInv, ControlInv, ControlType
<1>2. ASSUME NEW u \in Threads, mutex = u PROVE FALSE
  <2>1. phase[u] \in {"read", "lock"} BY <1>2 DEF TypeInv, ControlInv, MutexDiscipline
  <2> QED BY <2>1, Alone
<1> QED BY <1>1, <1>2

\* Lemma: a step either goes on with the script or leaves it as it is, and
\* never waits for the mutex.
LEMMA SoloMoves ==
  ASSUME TypeInv, SoloInv, NEW t \in Threads, Step(t)
  PROVE  /\ phase'[t] # "lock" /\ job'[t] \in {job[t], "idle"}
         /\ \/ Proceed(t)
            \/ job'[t] = job[t] /\ todo'[t] = todo[t] /\ phase'[t] \in {"read", "driver", "callback"}
<1>f. /\ todo \in [Threads -> Seq(Calls)]
      /\ phase \in [Threads -> {"call", "lock", "read", "callback", "driver"}]
  BY DEF TypeInv, ControlInv, ControlType
<1>b. job[t] # "idle" /\ todo[t] # <<>> BY StepIsBusy
<1>l. phase[t] # "lock" BY DEF SoloInv
<1>p. ASSUME Proceed(t) PROVE phase'[t] = "call" BY <1>f, <1>p DEF Proceed, Enter
<1>e. ASSUME NEW p, Enter(t, p) PROVE phase'[t] = p BY <1>f, <1>e DEF Enter
<1>j. job'[t] \in {job[t], "idle"} BY StepJob
<1> SUFFICES \/ Proceed(t)
             \/ job'[t] = job[t] /\ todo'[t] = todo[t] /\ phase'[t] \in {"read", "driver", "callback"}
  BY <1>p, <1>j
<1>1. CASE Lock(t)
  <2>1. phase[t] = "call" BY <1>1 DEF Lock, At
  <2>2. mutex = NoThread BY <1>b, <2>1, MutexFree
  <2>3. Enters(t) BY <1>1, <2>2 DEF Lock
  <2>4. CASE Head(todo[t]) = "get" BY <2>3, <2>4 DEF Enters
  <2>5. CASE Head(todo[t]) # "get"
    <3>1. Enter(t, "read") /\ UNCHANGED <<job, todo>> BY <2>3, <2>5 DEF Enters, Blocks
    <3> QED BY <1>e, <3>1
  <2> QED BY <2>4, <2>5
<1>2. CASE Locked(t) \/ GiveUp(t) BY <1>2, <1>l DEF Locked, GiveUp, Wakes
<1>3. CASE SensorRead(t)
  <2>1. CASE Tail(reads[t]) # <<>>
    <3>1. UNCHANGED <<job, todo, phase>> /\ phase[t] = "read" BY <1>3, <2>1 DEF SensorRead, Wakes
    <3> QED BY <3>1
  <2>2. CASE Tail(reads[t]) = <<>> /\ update_callback
    <3>1. Enter(t, "callback") /\ UNCHANGED <<job, todo>> BY <1>3, <2>2 DEF SensorRead
    <3> QED BY <1>e, <3>1
  <2>3. CASE Tail(reads[t]) = <<>> /\ ~update_callback BY <1>3, <2>3 DEF SensorRead
  <2> QED BY <2>1, <2>2, <2>3
<1>4. CASE DriverCall(t)
  <2>1. CASE Blocks(t, "driver") /\ UNCHANGED <<job, todo>>
    <3>1. Enter(t, "driver") BY <2>1 DEF Blocks
    <3> QED BY <1>e, <2>1, <3>1
  <2> QED BY <1>4, <2>1 DEF DriverCall
<1>5. CASE Seed(t)
  <2>1. Enter(t, "callback") /\ UNCHANGED <<job, todo>> BY <1>5 DEF Seed
  <2> QED BY <1>e, <2>1
<1>6. CASE DriverReturns(t) \/ Register(t) \/ Arm(t) \/ Schedule(t) \/ Rearm(t)
  BY <1>6 DEF DriverReturns, Register, Arm, Schedule, Rearm
<1>7. CASE CallbackReturns(t) \/ Return(t) BY <1>7 DEF CallbackReturns, Return
<1> QED BY <1>1, <1>2, <1>3, <1>4, <1>5, <1>6, <1>7 DEF Step, Internal

\* Lemma: a step of a thread keeps it alone.
LEMMA SoloStep ==
  ASSUME ~Periodic, TypeInv, SoloInv, NEW t \in Threads, Step(t) PROVE SoloInv'
<1>f. /\ job \in [Threads -> Jobs] /\ todo \in [Threads -> Seq(Calls)]
      /\ todo[t] \in Rest(job[t]) /\ job[t] \in Jobs
  BY DEF TypeInv, ControlInv, ControlType, CallInv
<1>b. job[t] # "idle" /\ todo[t] # <<>> BY StepIsBusy
<1>1. works' = {}
  BY DEF SoloInv, Step, Internal, Lock, Locked, GiveUp, SensorRead, DriverCall, DriverReturns,
         Register, Arm, Seed, Schedule, Rearm, CallbackReturns, Return
<1>2. \A u \in Threads \ {t} : job'[u] = job[u] /\ todo'[u] = todo[u] /\ phase'[u] = phase[u]
  BY StepTouches
<1>3. job'[t] \in {job[t], "idle"} /\ phase'[t] # "lock" BY SoloMoves
<1>4. todo'[t] # <<"refuse">>
  <2>1. CASE todo'[t] = todo[t] BY <2>1 DEF SoloInv
  <2>2. CASE Proceed(t)
    <3>1. todo'[t] = Tail(todo[t]) BY <1>f, <2>2 DEF Proceed
    <3> QED BY <1>f, <1>b, <3>1, TailRest
  <2> QED BY <2>1, <2>2, SoloMoves
<1>5. \A u \in Threads : job'[u] = job[u] \/ job'[u] = "idle" BY <1>2, <1>3
<1>6. job'[WorkQueue] = "idle" /\ (job'[Main] = "idle" \/ job'[Rx] = "idle")
  BY <1>5 DEF SoloInv, Threads
<1>7. \A u \in Threads : phase'[u] # "lock" /\ todo'[u] # <<"refuse">>
  BY <1>2, <1>3, <1>4 DEF SoloInv
<1> QED BY <1>1, <1>6, <1>7 DEF SoloInv

-----------------------------------------------------------------------------
(* A new client *)

\* A connecting client's environment is read before its air quality.
ClimateFirst ==
  job[Rx] = "connect" =>
    \/ "temphum" \in fresh
    \/ todo[Rx] = Script["connect"]
    \/ /\ todo[Rx] = Tail(Script["connect"])
       /\ phase[Rx] = "call" \/ (phase[Rx] = "read" /\ reads[Rx] = Selected["ENV_BASIC"])

\* The callback is registered right after the boot sample.
BackInv ==
  update_callback \/ (job[Main] = "boot" /\ todo[Main] \in {Script["boot"], Tail(Script["boot"])})

\* Lemma: how the connect handler and the boot sequence begin.
LEMMA ScriptHeads ==
  /\ Head(Script["connect"]) = "mode" /\ Script["connect"] # <<>>
  /\ Head(Tail(Script["connect"])) = "ENV_BASIC" /\ Tail(Script["connect"]) # <<>>
  /\ Head(Script["boot"]) = "ALL" /\ Script["boot"] # <<>>
  /\ Head(Tail(Script["boot"])) = "register" /\ Tail(Script["boot"]) # <<>>
  /\ Head(Selected["ENV_BASIC"]) = "temphum"
BY DEF Script, Connected, Selected

\* Lemma: the first call of a connecting client is one of the driver.
LEMMA ModeStep ==
  ASSUME TypeInv, NEW t \in Threads, Step(t), Head(todo[t]) = "mode"
  PROVE  DriverCall(t) \/ DriverReturns(t)
<1>1. Inside(phase[t], todo[t], reads[t]) BY DEF TypeInv, ControlInv, CallInv
<1>2. phase[t] \in {"call", "driver"}
  <2>1. phase[t] \in {"call", "lock", "read", "callback", "driver"}
    BY DEF TypeInv, ControlInv, ControlType
  <2> QED BY <1>1, <2>1 DEF Inside, Updates, DriverCalls
<1> QED
  BY <1>2
  DEF Step, Internal, Lock, Locked, GiveUp, SensorRead, Register, Arm, Seed, Schedule, Rearm,
      CallbackReturns, Return, At, Wakes, Updates, DriverCalls

\* Lemma: a thread alone begins its update at once.
LEMMA UpdateCallStep ==
  ASSUME TypeInv, SoloInv, NEW t \in Threads, Step(t), phase[t] = "call", Head(todo[t]) \in Updates
  PROVE  /\ UNCHANGED <<job, todo>> /\ phase'[t] = "read"
         /\ reads'[t] = Selected[Head(todo[t])]
<1>1. job[t] # "idle" BY StepIsBusy
<1>2. mutex = NoThread BY <1>1, MutexFree
<1>3. Lock(t)
  BY DEF Step, Internal, Locked, GiveUp, SensorRead, DriverCall, DriverReturns, Register, Arm,
         Seed, Schedule, Rearm, CallbackReturns, Return, At, Wakes, Updates, DriverCalls
<1>4. Enters(t) BY <1>2, <1>3 DEF Lock
<1>5. /\ reads' = [reads EXCEPT ![t] = Selected[Head(todo[t])]]
      /\ phase' = [phase EXCEPT ![t] = "read"] /\ UNCHANGED <<job, todo>>
  BY <1>4 DEF Enters, Blocks, Enter, Updates
<1> QED BY <1>5 DEF TypeInv, ControlInv, ControlType

\* Lemma: the Bluetooth thread's own steps keep ClimateFirst.
LEMMA RxClimate ==
  ASSUME TypeInv, SoloInv, ClimateFirst, Step(Rx) PROVE ClimateFirst'
<1>r. Rx \in Threads BY DEF Threads
<1>f. /\ todo \in [Threads -> Seq(Calls)] /\ job \in [Threads -> Jobs]
      /\ phase \in [Threads -> {"call", "lock", "read", "callback", "driver"}]
  BY DEF TypeInv, ControlInv, ControlType
<1>1. fresh \subseteq fresh'
  BY DEF Step, Internal, Lock, Locked, GiveUp, SensorRead, DriverCall, DriverReturns, Register,
         Arm, Seed, Schedule, Rearm, CallbackReturns, Return
<1>2. job'[Rx] \in {job[Rx], "idle"} BY <1>r, StepJob
<1>3. CASE job[Rx] # "connect" \/ "temphum" \in fresh BY <1>1, <1>2, <1>3 DEF ClimateFirst
<1>4. CASE todo[Rx] = Script["connect"]
  <2>1. Head(todo[Rx]) = "mode" /\ todo[Rx] # <<>> BY <1>4, ScriptHeads
  <2>2. CASE DriverCall(Rx)
    <3>1. UNCHANGED todo BY <2>1, <2>2 DEF DriverCall, At
    <3> QED BY <1>4, <3>1 DEF ClimateFirst
  <2>3. CASE DriverReturns(Rx)
    <3>1. todo'[Rx] = Tail(todo[Rx]) /\ phase'[Rx] = "call"
      BY <1>f, <1>r, <2>3 DEF DriverReturns, Proceed, Enter
    <3> QED BY <1>4, <3>1 DEF ClimateFirst
  <2> QED BY <1>r, <2>1, <2>2, <2>3, ModeStep
<1>5. CASE todo[Rx] = Tail(Script["connect"]) /\ phase[Rx] = "call"
  <2>1. Head(todo[Rx]) = "ENV_BASIC" /\ "ENV_BASIC" \in Updates
    BY <1>5, ScriptHeads DEF Updates
  <2>2. todo' = todo /\ phase'[Rx] = "read" /\ reads'[Rx] = Selected["ENV_BASIC"]
    BY <1>5, <1>r, <2>1, UpdateCallStep
  <2> QED BY <1>5, <2>2 DEF ClimateFirst
<1>6. CASE phase[Rx] = "read" /\ reads[Rx] = Selected["ENV_BASIC"] /\ job[Rx] = "connect"
  <2>1. SensorRead(Rx)
    BY <1>6
    DEF Step, Internal, Lock, Locked, GiveUp, DriverCall, DriverReturns, Register,
        Arm, Seed, Schedule, Rearm, CallbackReturns, Return, At, Wakes
  <2>2. fresh' = fresh \cup {Head(reads[Rx])} BY <1>6, <2>1 DEF SensorRead
  <2>3. "temphum" \in fresh' BY <1>6, <2>2, ScriptHeads
  <2> QED BY <2>3 DEF ClimateFirst
<1> QED BY <1>3, <1>4, <1>5, <1>6 DEF ClimateFirst

\* Lemma: main's own steps keep BackInv.
LEMMA MainBack ==
  ASSUME TypeInv, SoloInv, BackInv, Step(Main) PROVE BackInv'
<1>r. Main \in Threads BY DEF Threads
<1>f. /\ todo \in [Threads -> Seq(Calls)] /\ job \in [Threads -> Jobs]
      /\ phase \in [Threads -> {"call", "lock", "read", "callback", "driver"}]
      /\ Inside(phase[Main], todo[Main], reads[Main])
  BY <1>r DEF TypeInv, ControlInv, ControlType, CallInv
<1>1. update_callback' = TRUE \/ UNCHANGED update_callback
  BY DEF Step, Internal, Lock, Locked, GiveUp, SensorRead, DriverCall, DriverReturns, Register,
         Arm, Seed, Schedule, Rearm, CallbackReturns, Return
<1>2. CASE update_callback BY <1>1, <1>2 DEF BackInv
<1>3. CASE job[Main] = "boot" /\ todo[Main] = Script["boot"]
  <2>1. CASE Proceed(Main)
    <3>1. todo'[Main] = Tail(Script["boot"]) /\ UNCHANGED job
      BY <1>3, <1>f, <1>r, <2>1, ScriptHeads DEF Proceed
    <3> QED BY <1>3, <3>1 DEF BackInv
  <2>2. CASE job'[Main] = job[Main] /\ todo'[Main] = todo[Main] BY <1>3, <2>2 DEF BackInv
  <2> QED BY <1>r, <2>1, <2>2, SoloMoves
<1>4. CASE todo[Main] = Tail(Script["boot"])
  <2>1. Head(todo[Main]) = "register" BY <1>4, ScriptHeads
  <2>2. phase[Main] = "call" BY <1>f, <1>r, <2>1 DEF Inside, Updates, DriverCalls
  <2>3. Register(Main)
    BY <2>1, <2>2
    DEF Step, Internal, Lock, Locked, GiveUp, SensorRead, DriverCall, DriverReturns, Arm,
        Seed, Schedule, Rearm, CallbackReturns, Return, At, Wakes, Updates, DriverCalls
  <2> QED BY <2>3 DEF Register, BackInv
<1> QED BY <1>2, <1>3, <1>4 DEF BackInv

AloneInv == SoloInv /\ ClimateFirst /\ BackInv

\* The service's updates, and the host when it has a notification to send,
\* leave the sensor manager as it is but for the running thread.
OnlyCpu ==
  UNCHANGED <<mutex, job, todo, phase, reads, copy, fresh, current_data, update_callback, armed,
              connected_count, works>>

\* Lemma: without timed samples nothing is ever scheduled.
LEMMA NothingScheduled ==
  ASSUME ~Periodic, SoloInv, [EssNext]_vars PROVE works' = {}
BY DEF SoloInv, EssNext, EssStep, Internal, Lock, Locked, GiveUp, SensorRead, DriverCall,
       DriverReturns, Register, Arm, Seed, Schedule, Rearm, CallbackReturns, Return,
       Update, Notified, Updated, Answer, Refuse, OnConnected, ClientLeaves, OnDisconnected,
       StartRead, ReadUnready, CccCfgChanged, BecomesReady, Read, Work, Start, vars, smVars

\* Lemma: a step of the service is one of these, a step of the sensor manager,
\* or the Bluetooth thread is asked for something.
LEMMA EssCases ==
  ASSUME SoloInv, [EssNext]_vars
  PROVE  \/ \E t \in Threads : Step(t)
         \/ OnlyCpu
         \/ \E j \in Reads \cup {"connect", "disconnect"} : Start(Rx, j)
<1>1. ASSUME NEW t \in Threads, EssStep(t) PROVE Step(t) \/ OnlyCpu
  BY <1>1 DEF EssStep, Step, Update, Notified, Updated, Answer, Refuse, OnlyCpu
<1>2. CASE OnConnected \/ ClientLeaves BY <1>2 DEF OnConnected, ClientLeaves, OnDisconnected
<1>3. ASSUME NEW c \in Reads, StartRead(c) PROVE Start(Rx, c) BY <1>3 DEF StartRead, Read
<1>4. ASSUME NEW w, Work(w) PROVE FALSE BY <1>4 DEF Work, SoloInv
<1>5. ASSUME NEW c, ReadUnready(c) PROVE OnlyCpu BY <1>5 DEF ReadUnready, OnlyCpu, smVars, threadVars
<1>6. ASSUME NEW c, NEW on, CccCfgChanged(c, on) PROVE OnlyCpu
  BY <1>6 DEF CccCfgChanged, OnlyCpu, smVars, threadVars
<1>7. CASE BecomesReady \/ UNCHANGED vars
  BY <1>7 DEF BecomesReady, OnlyCpu, vars, smVars, threadVars
<1> QED BY <1>1, <1>2, <1>3, <1>4, <1>5, <1>6, <1>7 DEF EssNext

\* Lemma: every step keeps what this section is about.
LEMMA AloneStep ==
  ASSUME ~Periodic, TypeInv, AloneInv, [EssNext]_vars PROVE AloneInv'
<1> USE ThreadsAssumption
<1>f. /\ job \in [Threads -> Jobs] /\ todo \in [Threads -> Seq(Calls)]
      /\ Rx \in Threads /\ Main \in Threads /\ WorkQueue \in Threads
      /\ SoloInv /\ ClimateFirst /\ BackInv
  BY DEF AloneInv, TypeInv, ControlInv, ControlType, Threads
<1>1. ASSUME NEW t \in Threads, Step(t) PROVE AloneInv'
  <2>1. SoloInv' BY <1>f, <1>1, SoloStep
  <2>2. ClimateFirst'
    <3>1. CASE t = Rx BY <1>f, <1>1, <3>1, RxClimate
    <3>2. CASE t # Rx
      <4>1. /\ job'[Rx] = job[Rx] /\ todo'[Rx] = todo[Rx] /\ phase'[Rx] = phase[Rx]
            /\ reads'[Rx] = reads[Rx] /\ fresh \subseteq fresh'
        BY <1>f, <1>1, <3>2, StepTouches
      <4> QED BY <1>f, <4>1 DEF ClimateFirst
    <3> QED BY <3>1, <3>2
  <2>3. BackInv'
    <3>1. CASE t = Main BY <1>f, <1>1, <3>1, MainBack
    <3>2. CASE t # Main
      <4>1. job'[Main] = job[Main] /\ todo'[Main] = todo[Main] BY <1>f, <1>1, <3>2, StepTouches
      <4>2. update_callback' = TRUE \/ UNCHANGED update_callback
        BY <1>1 DEF Step, Internal, Lock, Locked, GiveUp, SensorRead, DriverCall, DriverReturns,
                    Register, Arm, Seed, Schedule, Rearm, CallbackReturns, Return
      <4> QED BY <1>f, <4>1, <4>2 DEF BackInv
    <3> QED BY <3>1, <3>2
  <2> QED BY <2>1, <2>2, <2>3 DEF AloneInv
<1>2. CASE OnlyCpu BY <1>f, <1>2 DEF OnlyCpu, AloneInv, SoloInv, ClimateFirst, BackInv
<1>3. ASSUME NEW j \in Reads \cup {"connect", "disconnect"}, Start(Rx, j) PROVE AloneInv'
  <2>1. /\ job[Main] = "idle" /\ job' = [job EXCEPT ![Rx] = j]
        /\ todo' = [todo EXCEPT ![Rx] = Script[j]] /\ UNCHANGED <<phase, update_callback>>
    BY <1>3 DEF Start
  <2>2. job'[Rx] = j /\ todo'[Rx] = Script[j]
        /\ \A u \in Threads \ {Rx} : job'[u] = job[u] /\ todo'[u] = todo[u]
    BY <1>f, <2>1
  <2>3. Script[j] # <<"refuse">>
    BY DEF Script, Connected, Reads
  <2>4. works' = {} BY <1>f, NothingScheduled
  <2>5. SoloInv' BY <1>f, <2>1, <2>2, <2>3, <2>4 DEF SoloInv
  <2>6. ClimateFirst' BY <2>2 DEF ClimateFirst
  <2>7. BackInv' BY <1>f, <2>1 DEF BackInv
  <2> QED BY <2>5, <2>6, <2>7 DEF AloneInv
<1> QED BY <1>f, <1>1, <1>2, <1>3, EssCases

LEMMA AloneInit == ~Periodic /\ EssInit => AloneInv
<1> SUFFICES ASSUME EssInit PROVE AloneInv OBVIOUS
<1> USE ThreadsAssumption
<1>1. /\ job[Main] = "boot" /\ todo[Main] = Script["boot"]
      /\ \A t \in {Rx, WorkQueue} : job[t] = "idle" /\ todo[t] = <<>>
      /\ \A t \in Threads : phase[t] = "call"
      /\ works = {}
  BY DEF EssInit, SmInit, Threads
<1>2. Script["boot"] # <<"refuse">> /\ <<>> # <<"refuse">> BY DEF Script
<1>3. \A t \in Threads : phase[t] # "lock" /\ todo[t] # <<"refuse">>
  BY <1>1, <1>2 DEF Threads
<1>s. SoloInv BY <1>1, <1>3 DEF SoloInv
<1>4. ClimateFirst /\ BackInv BY <1>1 DEF ClimateFirst, BackInv
<1> QED BY <1>s, <1>4 DEF AloneInv

\* In the default build the air quality that a connecting client gets is
\* compensated with this connection's temperature and humidity: what is valid
\* when the CCS811 is read has been read since the connect, whatever else the
\* client asks for (sensor_manager.c:455-477).
THEOREM ConnectCompensationFreshHolds ==
  ASSUME ~Periodic PROVE EssSpec => []ConnectCompensationFresh
<1>1. TypeInv /\ AloneInv => ConnectCompensationFresh
  <2> SUFFICES ASSUME TypeInv, ClimateFirst, phase[Rx] = "read", job[Rx] = "connect",
                      Head(reads[Rx]) = "air"
              PROVE  "temphum" \in fresh
    BY DEF AloneInv, ConnectCompensationFresh
  <2>1. Head(todo[Rx]) \in Updates
    BY DEF TypeInv, ControlInv, CallInv, Inside, Threads
  <2>2. todo[Rx] # Script["connect"] BY <2>1, ScriptHeads DEF Updates
  <2>3. reads[Rx] # Selected["ENV_BASIC"] BY ScriptHeads
  <2> QED BY <2>2, <2>3 DEF ClimateFirst
<1>2. EssInv => TypeInv BY DEF EssInv, ManagerInv
<1>3. EssInv /\ AloneInv /\ [EssNext]_vars => AloneInv' BY <1>2, AloneStep
<1> QED BY <1>1, <1>2, <1>3, EssStart, EssKeeps, AloneInit, PTL DEF EssSpec

-----------------------------------------------------------------------------
(* Who calls the CCS811 driver *)

\* In a call of the driver, or in an update that has come to its sample.
InDriver(t) == phase[t] = "driver" \/ (phase[t] = "read" /\ Head(reads[t]) = "air")

\* Main for the boot sample, then the Bluetooth thread; nobody waits for
\* sensor_manager_mutex, so no read is refused.
OneCaller ==
  /\ \A t \in Threads : InDriver(t) => t = Rx \/ (t = Main /\ job[Rx] = "idle")
  /\ InDriver(Rx) => job[Main] = "idle"
  /\ \A t \in Threads : phase[t] # "lock" /\ todo[t] # <<"refuse">>

\* In the default build the driver's calls come one at a time, from main while it
\* boots and from the Bluetooth thread afterwards, and sensor_manager_mutex is never
\* contended (sensor_manager.c:301, 322, 367, 420).  This is the
\* single caller that FetchAfterWake assumes in Ccs811WakeProofs.
THEOREM OneCallerHolds == ASSUME ~Periodic PROVE EssSpec => []OneCaller
<1>1. TypeInv /\ AloneInv => OneCaller
  <2> SUFFICES ASSUME TypeInv, SoloInv PROVE OneCaller BY DEF AloneInv
  <2>1. ASSUME NEW t \in Threads, InDriver(t)
        PROVE  job[t] # "idle" /\ \A u \in Threads \ {t} : job[u] = "idle"
    <3>1. phase[t] # "call" BY <2>1 DEF InDriver
    <3>2. job[t] # "idle" BY <3>1, IdleIsOut
    <3> QED BY <3>2, Alone
  <2>2. ASSUME NEW t \in Threads, InDriver(t) PROVE t = Rx \/ (t = Main /\ job[Rx] = "idle")
    BY <2>1, <2>2 DEF SoloInv, Threads
  <2>3. InDriver(Rx) => job[Main] = "idle" BY <2>1, ThreadsAssumption DEF Threads
  <2> QED BY <2>2, <2>3 DEF SoloInv, OneCaller
<1>2. EssInv => TypeInv BY DEF EssInv, ManagerInv
<1>3. EssInv /\ AloneInv /\ [EssNext]_vars => AloneInv' BY <1>2, AloneStep
<1> QED BY <1>1, <1>2, <1>3, EssStart, EssKeeps, AloneInit, PTL DEF EssSpec

-----------------------------------------------------------------------------
(* What the characteristics show *)

Environment == {"temperature", "humidity", "pressure"}

Rejected(c, data) == IsValid(c, data) /\ ~InRange(c, data)

Shows(c, data) ==
  IF IsValid(c, data) /\ InRange(c, data)
    THEN sensor[c].value_known = TRUE /\ sensor[c].value = Encoded(c, data)
    ELSE sensor[c].value_known = FALSE

\* What an update has brought up to date before its step k: it ends at a value
\* it rejects.
ShownUpTo(k, data) ==
  /\ k > 1 => Shows("temperature", data)
  /\ k > 2 /\ ~Rejected("temperature", data) => Shows("humidity", data)
  /\ k > 3 /\ ~Rejected("temperature", data) /\ ~Rejected("humidity", data)
       => Shows("pressure", data)

AtRest == job[Main] = "idle" /\ \A t \in Threads : phase[t] \notin {"read", "callback"}

RestInv == AtRest => ShownUpTo(6, current_data)
UpdateInv ==
  \A t \in Threads : IF phase[t] = "callback"
                       THEN copy[t] = current_data /\ ShownUpTo(step[t], current_data)
                       ELSE step[t] = 1
CopiedInv == \A t \in Threads : todo[t] \in {<<"answer">>, <<"seed">>} => copy[t] = current_data

ShownInv == RestInv /\ UpdateInv /\ CopiedInv

\* Nothing has changed for a client that reads the environment.
EnvSame(d, e) ==
  /\ d.temperature = e.temperature /\ d.humidity = e.humidity /\ d.pressure = e.pressure
  /\ "temphum" \in d.valid_mask <=> "temphum" \in e.valid_mask
  /\ "pressure" \in d.valid_mask <=> "pressure" \in e.valid_mask

ValuesSame ==
  \A c \in Environment : /\ sensor'[c].value = sensor[c].value
                         /\ sensor'[c].value_known = sensor[c].value_known

\* Lemma: then what is shown is still right.
LEMMA ShownStays ==
  ASSUME NEW k, ValuesSame, EnvSame(current_data, current_data'), ShownUpTo(k, current_data)
  PROVE  ShownUpTo(k, current_data)'
<1>1. \A c \in Environment : /\ IsValid(c, current_data) <=> IsValid(c, current_data)'
                             /\ InRange(c, current_data) = InRange(c, current_data)'
                             /\ Encoded(c, current_data) = Encoded(c, current_data)'
  BY DEF Environment, EnvSame, IsValid, Source, InRange, Encoded
<1>2. \A c \in Environment : /\ Shows(c, current_data) => Shows(c, current_data)'
                             /\ Rejected(c, current_data) <=> Rejected(c, current_data)'
  BY <1>1 DEF ValuesSame, Shows, Rejected
<1> QED BY <1>2 DEF ShownUpTo, Environment

\* Lemma: a BLE request for the gases changes only these.
LEMMA ForBleSame ==
  ASSUME current_data \in SensorData, ForBle PROVE EnvSame(current_data, current_data')
<1>1. ASSUME NEW g, NEW h,
             current_data' = Valid([current_data EXCEPT !.eco2 = g, !.tvoc = h], "air")
      PROVE  EnvSame(current_data, current_data')
  BY <1>1 DEF Valid, SensorData, EnvSame
<1>2. CASE UNCHANGED current_data BY <1>2 DEF EnvSame
<1> QED BY <1>1, <1>2 DEF ForBle

\* Lemma: steps that leave the threads' calls alone.
LEMMA QuietKeepsShown ==
  ASSUME ShownInv, OnlyCpu, UNCHANGED step, ValuesSame PROVE ShownInv'
<1>1. EnvSame(current_data, current_data') BY DEF OnlyCpu, EnvSame
<1>2. \A k : ShownUpTo(k, current_data) => ShownUpTo(k, current_data)' BY <1>1, ShownStays
<1>3. RestInv' BY <1>2 DEF ShownInv, RestInv, AtRest, OnlyCpu
<1>4. UpdateInv' BY <1>2 DEF ShownInv, UpdateInv, OnlyCpu
<1>5. CopiedInv' BY DEF ShownInv, CopiedInv, OnlyCpu
<1> QED BY <1>3, <1>4, <1>5 DEF ShownInv

\* Lemma: nor does a client's next request change what is shown.
LEMMA StartKeepsShown ==
  ASSUME TypeInv, ShownInv, NEW j \in Reads \cup {"connect", "disconnect"}, Start(Rx, j),
         UNCHANGED step, ValuesSame
  PROVE  ShownInv'
<1> USE ThreadsAssumption
<1>f. job \in [Threads -> Jobs] /\ todo \in [Threads -> Seq(Calls)] /\ Rx \in Threads
  BY DEF TypeInv, ControlInv, ControlType, Threads
<1>1. /\ job[Main] = "idle" /\ UNCHANGED <<phase, copy, current_data>>
      /\ todo' = [todo EXCEPT ![Rx] = Script[j]]
  BY DEF Start
<1>2. EnvSame(current_data, current_data') BY <1>1 DEF EnvSame
<1>3. \A k : ShownUpTo(k, current_data) => ShownUpTo(k, current_data)' BY <1>2, ShownStays
<1>4. RestInv' BY <1>1, <1>3 DEF ShownInv, RestInv, AtRest
<1>5. UpdateInv' BY <1>1, <1>3 DEF ShownInv, UpdateInv
<1>6. CopiedInv'
  <2>1. Script[j] \notin {<<"answer">>, <<"seed">>}
    <3>1. CASE j = "connect" BY <3>1 DEF Script, Connected
    <3>2. CASE j = "disconnect" BY <3>2 DEF Script
    <3>3. CASE j \in {"temperature", "humidity"} BY <3>3 DEF Script
    <3>4. CASE j = "pressure" BY <3>4 DEF Script
    <3>5. CASE j \in {"co2", "tvoc"} BY <3>5 DEF Script
    <3> QED BY <3>1, <3>2, <3>3, <3>4, <3>5 DEF Reads
  <2>2. \A t \in Threads : todo'[t] = todo[t] \/ todo'[t] = Script[j] BY <1>f, <1>1
  <2> QED BY <1>1, <2>1, <2>2 DEF ShownInv, CopiedInv
<1> QED BY <1>4, <1>5, <1>6 DEF ShownInv

\* Lemma: since the other threads do nothing, only the one that makes the step
\* matters.
LEMMA OnlyOne ==
  ASSUME TypeInv, SoloInv, ShownInv, NEW t \in Threads, Step(t),
         \A u \in Threads \ {t} : step'[u] = step[u],
         AtRest' => ShownUpTo(6, current_data)',
         IF phase'[t] = "callback"
           THEN copy'[t] = current_data' /\ ShownUpTo(step[t], current_data)'
           ELSE step'[t] = 1,
         todo'[t] \in {<<"answer">>, <<"seed">>} => copy'[t] = current_data'
  PROVE  ShownInv'
<1>1. job[t] # "idle" BY StepIsBusy
<1>2. \A u \in Threads \ {t} : todo[u] = <<>> /\ phase[u] = "call" BY <1>1, Alone
<1>3. \A u \in Threads \ {t} : todo'[u] = <<>> /\ phase'[u] = "call" /\ step'[u] = 1
  BY <1>2, StepTouches DEF ShownInv, UpdateInv
<1>4. UpdateInv' BY <1>3 DEF UpdateInv
<1>5. <<>> \notin {<<"answer">>, <<"seed">>} OBVIOUS
<1>6. CopiedInv' BY <1>3, <1>5 DEF CopiedInv
<1> QED BY <1>4, <1>6 DEF ShownInv, RestInv

\* Lemma: a script is on its last use of the copy only after taking it, and main
\* is done only after the seed.
LEMMA ProceedsTo ==
  ASSUME TypeInv, NEW t \in Threads, Step(t), Proceed(t)
  PROVE  /\ phase'[t] = "call" /\ todo'[t] # <<"refuse">>
         /\ todo'[t] \in {<<"answer">>, <<"seed">>} => Head(todo[t]) = "get"
         /\ job'[Main] = "idle" /\ Head(todo[t]) # "seed" => job[Main] = "idle"
<1>f. /\ todo \in [Threads -> Seq(Calls)] /\ job \in [Threads -> Jobs]
      /\ phase \in [Threads -> {"call", "lock", "read", "callback", "driver"}]
      /\ todo[t] \in Rest(job[t]) /\ job[t] \in Jobs /\ Main \in Threads
      /\ job[Main] \in {"boot", "idle"}
  BY DEF TypeInv, ControlInv, ControlType, CallInv, JobInv, Threads
<1>b. job[t] # "idle" /\ todo[t] # <<>> BY StepIsBusy
<1>1. /\ todo'[t] = Tail(todo[t]) /\ phase'[t] = "call"
      /\ job' = IF Tail(todo[t]) = <<>> THEN [job EXCEPT ![t] = "idle"] ELSE job
  BY <1>f DEF Proceed, Enter
<1>2. /\ Tail(todo[t]) # <<"refuse">>
      /\ Tail(todo[t]) \in {<<"answer">>, <<"seed">>} => Head(todo[t]) = "get"
      /\ job[t] = "boot" /\ Tail(todo[t]) = <<>> => todo[t] = <<"seed">>
  BY <1>f, <1>b, TailRest
<1>3. job'[Main] = "idle" /\ Head(todo[t]) # "seed" => job[Main] = "idle"
  <2>1. CASE t # Main BY <1>f, <1>1, <2>1
  <2>2. CASE t = Main
    <3>1. job[t] = "boot" BY <1>f, <1>b, <2>2
    <3>2. Head(<<"seed">>) = "seed" OBVIOUS
    <3> QED BY <1>f, <1>1, <1>2, <2>2, <3>1, <3>2
  <2> QED BY <2>1, <2>2
<1> QED BY <1>1, <1>2, <1>3

\* Lemma: a call that has nothing to do with the data.
LEMMA OnwardShown ==
  ASSUME TypeInv, SoloInv, ShownInv, NEW t \in Threads, Step(t),
         phase[t] \in {"call", "driver"}, Head(todo[t]) \notin {"get", "seed", "answer"},
         Proceed(t) \/ (job' = job /\ todo' = todo /\ phase'[t] = "driver"),
         EnvSame(current_data, current_data'), UNCHANGED essVars
  PROVE  ShownInv'
<1>1. UNCHANGED <<sensor, step>> BY DEF essVars
<1>2. ValuesSame BY <1>1 DEF ValuesSame
<1>3. phase'[t] \in {"call", "driver"} BY ProceedsTo
<1>4. job'[Main] = "idle" => job[Main] = "idle" BY ProceedsTo
<1>5. job[t] # "idle" BY StepIsBusy
<1>6. \A u \in Threads \ {t} : phase[u] = "call" BY <1>5, Alone
<1>7. AtRest' => ShownUpTo(6, current_data)'
  <2>1. AtRest' => AtRest BY <1>4, <1>6 DEF AtRest
  <2> QED BY <1>2, <2>1, ShownStays DEF ShownInv, RestInv
<1>8. step'[t] = 1 BY <1>1 DEF ShownInv, UpdateInv
<1>9. todo'[t] \notin {<<"answer">>, <<"seed">>}
  <2>1. CASE Proceed(t) BY <2>1, ProceedsTo
  <2>2. CASE todo' = todo
    <3>1. Head(<<"answer">>) = "answer" /\ Head(<<"seed">>) = "seed" OBVIOUS
    <3> QED BY <2>2, <3>1
  <2> QED BY <2>1, <2>2
<1> QED BY <1>1, <1>3, <1>7, <1>8, <1>9, OnlyOne

\* Lemma: taking the copy, or starting to read sensors.
LEMMA LockShown ==
  ASSUME TypeInv, SoloInv, ShownInv, NEW t \in Threads, Lock(t), UNCHANGED essVars
  PROVE  ShownInv'
<1>s. Step(t) BY DEF Step, Internal
<1>f. /\ copy \in [Threads -> SensorData]
      /\ phase \in [Threads -> {"call", "lock", "read", "callback", "driver"}]
  BY DEF TypeInv, ControlInv, ControlType
<1>1. UNCHANGED <<sensor, step, current_data>> /\ phase[t] = "call"
  BY DEF essVars, Lock, At
<1>2. job[t] # "idle" BY <1>s, StepIsBusy
<1>3. Enters(t) BY <1>1, <1>2, MutexFree DEF Lock
<1>4. step'[t] = 1 BY <1>1 DEF ShownInv, UpdateInv
<1>5. CASE Head(todo[t]) = "get"
  <2>1. copy'[t] = current_data' /\ Proceed(t) BY <1>1, <1>3, <1>5, <1>f DEF Enters
  <2>2. phase'[t] = "call" /\ (job'[Main] = "idle" => job[Main] = "idle")
    BY <1>s, <1>5, <2>1, ProceedsTo
  <2>3. \A u \in Threads \ {t} : phase[u] = "call" BY <1>2, Alone
  <2>4. AtRest' => AtRest BY <1>1, <2>2, <2>3 DEF AtRest
  <2>5. ValuesSame /\ EnvSame(current_data, current_data') BY <1>1 DEF ValuesSame, EnvSame
  <2>6. AtRest' => ShownUpTo(6, current_data)' BY <2>4, <2>5, ShownStays DEF ShownInv, RestInv
  <2> QED BY <1>s, <1>1, <1>4, <2>1, <2>2, <2>6, OnlyOne
<1>6. CASE Head(todo[t]) # "get"
  <2>1. phase' = [phase EXCEPT ![t] = "read"] /\ UNCHANGED <<todo, copy>>
    BY <1>3, <1>6 DEF Enters, Blocks, Enter
  <2>2. phase'[t] = "read" BY <1>f, <2>1
  <2>3. ~AtRest' BY <2>2 DEF AtRest
  <2>4. todo'[t] \in {<<"answer">>, <<"seed">>} => copy'[t] = current_data'
    BY <1>1, <2>1 DEF ShownInv, CopiedInv
  <2> QED BY <1>s, <1>1, <1>4, <2>2, <2>3, <2>4, OnlyOne
<1> QED BY <1>5, <1>6

\* Lemma: a sensor read.  After the last one the update goes to the service, or,
\* at boot, on to the copy for it.
LEMMA SensorReadShown ==
  ASSUME TypeInv, SoloInv, BackInv, ShownInv, NEW t \in Threads, SensorRead(t), UNCHANGED essVars
  PROVE  ShownInv'
<1>s. Step(t) BY DEF Step, Internal
<1>f. /\ copy \in [Threads -> SensorData]
      /\ phase \in [Threads -> {"call", "lock", "read", "callback", "driver"}]
      /\ Inside(phase[t], todo[t], reads[t]) /\ Main \in Threads
  BY DEF TypeInv, ControlInv, ControlType, CallInv, Threads
<1>1. UNCHANGED <<sensor, step>> /\ phase[t] = "read" BY DEF essVars, SensorRead, Wakes
<1>2. Head(todo[t]) \in Updates BY <1>1, <1>f DEF Inside
<1>3. step'[t] = 1 BY <1>1 DEF ShownInv, UpdateInv
<1>4. todo[t] \notin {<<"answer">>, <<"seed">>}
  <2>1. Head(<<"answer">>) = "answer" /\ Head(<<"seed">>) = "seed" OBVIOUS
  <2> QED BY <1>2, <2>1 DEF Updates
<1>5. CASE Tail(reads[t]) # <<>>
  <2>1. UNCHANGED <<todo, phase>> BY <1>5 DEF SensorRead
  <2>2. ~AtRest' BY <1>1, <2>1 DEF AtRest
  <2> QED BY <1>s, <1>1, <1>3, <1>4, <2>1, <2>2, OnlyOne
<1>6. CASE Tail(reads[t]) = <<>> /\ update_callback
  <2>1. /\ copy' = [copy EXCEPT ![t] = current_data'] /\ UNCHANGED todo
        /\ phase' = [phase EXCEPT ![t] = "callback"]
    BY <1>6 DEF SensorRead, Enter
  <2>2. copy'[t] = current_data' /\ phase'[t] = "callback" BY <1>f, <2>1
  <2>3. ~AtRest' BY <2>2 DEF AtRest
  <2>4. step[t] = 1 BY <1>1 DEF ShownInv, UpdateInv
  <2>5. ShownUpTo(step[t], current_data)' BY <1>1, <2>4 DEF ShownUpTo
  <2> QED BY <1>s, <1>1, <1>4, <2>1, <2>2, <2>3, <2>5, OnlyOne
<1>7. CASE Tail(reads[t]) = <<>> /\ ~update_callback
  <2>1. Proceed(t) BY <1>7 DEF SensorRead
  <2>2. job[Main] = "boot" BY <1>7 DEF BackInv
  <2>3. job'[Main] # "idle" BY <1>s, <1>2, <2>1, <2>2, ProceedsTo DEF Updates
  <2>4. ~AtRest' BY <2>3 DEF AtRest
  <2>5. phase'[t] = "call" /\ todo'[t] \notin {<<"answer">>, <<"seed">>}
    BY <1>s, <1>2, <2>1, ProceedsTo DEF Updates
  <2> QED BY <1>s, <1>1, <1>3, <2>4, <2>5, OnlyOne
<1> QED BY <1>5, <1>6, <1>7

\* Lemma: main hands its copy to the service.
LEMMA SeedShown ==
  ASSUME TypeInv, SoloInv, ShownInv, NEW t \in Threads, Seed(t), UNCHANGED essVars
  PROVE  ShownInv'
<1>s. Step(t) BY DEF Step, Internal
<1>f. /\ phase \in [Threads -> {"call", "lock", "read", "callback", "driver"}]
      /\ todo[t] \in Rest(job[t]) /\ job[t] \in Jobs
  BY DEF TypeInv, ControlInv, ControlType, CallInv
<1>1. /\ UNCHANGED <<sensor, step, todo, copy, current_data>> /\ phase[t] = "call"
      /\ todo[t] # <<>> /\ Head(todo[t]) = "seed" /\ phase' = [phase EXCEPT ![t] = "callback"]
  BY DEF essVars, Seed, At, Enter
<1>2. todo[t] = <<"seed">> BY <1>f, <1>1, TailRest
<1>3. copy'[t] = current_data' BY <1>1, <1>2 DEF ShownInv, CopiedInv
<1>4. phase'[t] = "callback" /\ step[t] = 1 BY <1>f, <1>1 DEF ShownInv, UpdateInv
<1>5. ~AtRest' BY <1>4 DEF AtRest
<1>6. ShownUpTo(step[t], current_data)' BY <1>1, <1>4 DEF ShownUpTo
<1> QED BY <1>s, <1>1, <1>3, <1>4, <1>5, <1>6, OnlyOne

\* Lemma: so do all steps in which the service has no part.
LEMMA InternalShown ==
  ASSUME TypeInv, SoloInv, BackInv, ShownInv, NEW t \in Threads, Internal(t), UNCHANGED essVars
  PROVE  ShownInv'
<1>s. Step(t) BY DEF Step
<1>l. phase[t] # "lock" /\ Inside(phase[t], todo[t], reads[t])
  BY DEF SoloInv, TypeInv, ControlInv, CallInv
<1>1. CASE DriverCall(t)
  <2>1. /\ phase[t] = "call" /\ Head(todo[t]) \in DriverCalls /\ UNCHANGED current_data
        /\ Proceed(t) \/ (job' = job /\ todo' = todo /\ Enter(t, "driver"))
    BY <1>1 DEF DriverCall, At, DriverCalls, Blocks
  <2>2. Enter(t, "driver") => phase'[t] = "driver"
    BY DEF Enter, TypeInv, ControlInv, ControlType
  <2>3. EnvSame(current_data, current_data') BY <2>1 DEF EnvSame
  <2> QED BY <1>s, <2>1, <2>2, <2>3, OnwardShown DEF DriverCalls
<1>2. CASE DriverReturns(t)
  <2>1. phase[t] = "driver" /\ Proceed(t) /\ (ForBle \/ UNCHANGED current_data)
    BY <1>2 DEF DriverReturns, Wakes
  <2>2. Head(todo[t]) \in DriverCalls BY <1>l, <2>1 DEF Inside
  <2>3. EnvSame(current_data, current_data')
    <3>1. current_data \in SensorData BY DEF TypeInv, DataType
    <3> QED BY <2>1, <3>1, ForBleSame DEF EnvSame
  <2> QED BY <1>s, <2>1, <2>2, <2>3, OnwardShown DEF DriverCalls
<1>3. CASE Register(t) \/ Arm(t) \/ Schedule(t) \/ Rearm(t)
  <2>1. /\ phase[t] = "call" /\ Head(todo[t]) \in {"register", "arm", "schedule", "rearm"}
        /\ Proceed(t) /\ UNCHANGED current_data
    BY <1>3 DEF Register, Arm, Schedule, Rearm, At
  <2>2. EnvSame(current_data, current_data') BY <2>1 DEF EnvSame
  <2> QED BY <1>s, <2>1, <2>2, OnwardShown
<1>4. CASE Locked(t) \/ GiveUp(t) BY <1>l, <1>4 DEF Locked, GiveUp, Wakes
<1> QED BY <1>1, <1>2, <1>3, <1>4, LockShown, SensorReadShown, SeedShown DEF Internal

\* Lemma: the service has been through the update.
LEMMA UpdatedShown ==
  ASSUME TypeInv, SoloInv, ShownInv, StepOk, NEW t \in Threads, Updated(t) PROVE ShownInv'
<1>s. Step(t) BY DEF Step, Updated
<1>n. Len(Order) = 5 BY DEF Order
<1>f. step \in [Threads -> 1 .. 6] /\ Inside(phase[t], todo[t], reads[t])
  BY <1>n DEF StepOk, TypeInv, ControlInv, CallInv
<1>1. /\ step[t] > 5 /\ phase[t] = "callback" /\ Proceed(t) /\ UNCHANGED <<sensor, current_data>>
      /\ step' = [step EXCEPT ![t] = 1]
  BY <1>n DEF Updated, CallbackReturns
<1>2. Head(todo[t]) # "get" BY <1>f, <1>1 DEF Inside, Updates
<1>3. phase'[t] = "call" /\ todo'[t] \notin {<<"answer">>, <<"seed">>} BY <1>s, <1>1, <1>2, ProceedsTo
<1>4. ShownUpTo(step[t], current_data) BY <1>1 DEF ShownInv, UpdateInv
<1>5. step[t] = 6 BY <1>f, <1>1
<1>6. ValuesSame /\ EnvSame(current_data, current_data') BY <1>1 DEF ValuesSame, EnvSame
<1>7. ShownUpTo(6, current_data)' BY <1>4, <1>5, <1>6, ShownStays
<1>8. step'[t] = 1 /\ \A u \in Threads \ {t} : step'[u] = step[u] BY <1>1, <1>f
<1> QED BY <1>s, <1>3, <1>7, <1>8, OnlyOne

-----------------------------------------------------------------------------
(* What the client has been told *)

TellInv ==
  /\ announced \in [Reads -> SUBSET Int]
  /\ \A c \in Reads : sensor[c].notify_enabled => announced[c] \subseteq {sensor[c].value}

\* Lemma: what is compared as a 16-bit value has no more than 16 bits.
LEMMA Limits16 ==
  /\ -32768 <= ESS_TEMP_MIN_E_2C /\ ESS_TEMP_MAX_E_2C <= 32767
  /\ -32768 <= ESS_UNKNOWN_S16 /\ ESS_UNKNOWN_S16 <= 32767
  /\ 0 <= ESS_HUM_MIN_E_2PCT /\ ESS_HUM_MAX_E_2PCT <= 65535
  /\ 0 <= ESS_UNKNOWN_U16 /\ ESS_UNKNOWN_U16 <= 65535
BY SMT
DEF ESS_TEMP_MIN_E_2C, ESS_TEMP_MAX_E_2C, ESS_HUM_MIN_E_2PCT, ESS_HUM_MAX_E_2PCT,
    ESS_UNKNOWN_S16, ESS_UNKNOWN_U16

\* Lemma: the gases are well below that.
LEMMA Gases16 ==
  ASSUME NEW v \in Int
  PROVE  Co2InRange(v) \/ TvocOk(v) => 0 <= v /\ v <= 65535
<1>1. Co2InRange(v) => v >= CO2_LOWER_LIMIT /\ v <= CO2_UPPER_LIMIT
  <2>1. CO2_LOWER_LIMIT \in Int /\ CO2_UPPER_LIMIT \in Int BY DEF CO2_LOWER_LIMIT, CO2_UPPER_LIMIT
  <2> QED BY <2>1 DEF Co2InRange
<1>2. 0 <= CO2_LOWER_LIMIT /\ CO2_UPPER_LIMIT <= 65535 /\ 0 \in Int
      /\ CO2_LOWER_LIMIT \in Int /\ CO2_UPPER_LIMIT \in Int
  BY SMT DEF CO2_LOWER_LIMIT, CO2_UPPER_LIMIT
<1>3. Co2InRange(v) => 0 <= v /\ v <= 65535 BY <1>1, <1>2, SMT
<1>4. TvocOk(v) => v >= 0 /\ v <= 1187 BY SMT DEF TvocOk
<1> QED BY <1>3, <1>4, SMT

\* Lemma: the comparison tells apart what a characteristic may show.
LEMMA ComparedApart ==
  ASSUME NEW c \in Reads, NEW v \in Int, NEW w \in Int, Sendable(c, v), Sendable(c, w),
         Compared(c, v) = Compared(c, w)
  PROVE  v = w
<1>1. ASSUME NEW x \in Int, -32768 <= x, x <= 32767 PROVE AsInt16(x) = x
  BY <1>1, SMT DEF AsInt16
<1>2. ASSUME NEW x \in Int, 0 <= x, x <= 65535, NEW y \in Int, 0 <= y, y <= 65535,
             AsInt16(x) = AsInt16(y)
      PROVE  x = y
  BY <1>2, SMT DEF AsInt16
<1>3. CASE c = "pressure" BY <1>3 DEF Compared
<1>4. CASE c = "temperature"
  <2>1. ASSUME NEW x \in Int, Sendable("temperature", x) PROVE -32768 <= x /\ x <= 32767
    <3>1. (ESS_TEMP_MIN_E_2C <= x /\ x <= ESS_TEMP_MAX_E_2C) \/ x = ESS_UNKNOWN_S16
      BY <2>1, LimitsInt DEF Sendable
    <3> QED BY <3>1, LimitsInt, Limits16, SMT
  <2>2. AsInt16(v) = v /\ AsInt16(w) = w BY <1>1, <1>4, <2>1
  <2> QED BY <1>4, <2>2 DEF Compared
<1>5. ASSUME NEW x \in Int, c \in {"humidity", "co2", "tvoc"}, Sendable(c, x)
      PROVE  0 <= x /\ x <= 65535
  <2>1. CASE c = "humidity"
    <3>1. (ESS_HUM_MIN_E_2PCT <= x /\ x <= ESS_HUM_MAX_E_2PCT) \/ x = ESS_UNKNOWN_U16
      BY <1>5, <2>1, LimitsInt DEF Sendable
    <3> QED BY <3>1, LimitsInt, Limits16, SMT
  <2>2. CASE c \in {"co2", "tvoc"}
    <3>1. Co2InRange(x) \/ TvocOk(x) \/ x = ESS_UNKNOWN_U16 BY <1>5, <2>2 DEF Sendable
    <3> QED BY <3>1, Gases16, Limits16
  <2> QED BY <1>5, <2>1, <2>2
<1>6. CASE c \in {"humidity", "co2", "tvoc"}
  <2>1. AsInt16(v) = AsInt16(w) BY <1>6 DEF Compared
  <2> QED BY <1>2, <1>5, <1>6, <2>1
<1> QED BY <1>3, <1>4, <1>6 DEF Reads

\* Lemma: a stored value is known, and the subscription stays.
LEMMA KnownParts ==
  ASSUME NEW s \in Characteristic, NEW v \in Int
  PROVE  /\ Known(s, v).value = v /\ Known(s, v).value_known = TRUE
         /\ Known(s, v).notify_enabled = s.notify_enabled
BY DEF Characteristic, Known

\* Lemma: and an invalidated one is what it was, but not known.
LEMMA InvalidatedParts ==
  ASSUME NEW s \in Characteristic
  PROVE  /\ Invalidated(s).value = s.value /\ Invalidated(s).value_known = FALSE
         /\ Invalidated(s).notify_enabled = s.notify_enabled
BY DEF Characteristic, Invalidated

\* Lemma: an update stores a value and tells the client if it is another one.
LEMMA UpdateTells ==
  ASSUME SensorOk, TellInv, NEW t \in Threads, NEW c \in Reads, NEW v \in Int, Sendable(c, v),
         UpdateSensor(t, c, v)
  PROVE  /\ sensor'[c].value = v /\ sensor'[c].value_known = TRUE
         /\ \A d \in Reads \ {c} : sensor'[d] = sensor[d]
         /\ TellInv' /\ GoOn(t)
<1>t. sensor \in [Reads -> Characteristic] /\ Sendable(c, sensor[c].value) BY DEF SensorOk
<1>a. announced \in [Reads -> SUBSET Int] BY DEF TellInv
<1>v. sensor[c].value \in Int /\ sensor[c].notify_enabled \in BOOLEAN
  <2>1. sensor[c] \in Characteristic BY <1>t
  <2> QED BY <2>1 DEF Characteristic
<1>f. sensor \in [Reads -> Characteristic] /\ announced \in [Reads -> SUBSET Int]
      /\ sensor[c].value \in Int /\ Sendable(c, sensor[c].value)
  BY <1>t, <1>a, <1>v
<1>1. sensor' = [sensor EXCEPT ![c] = Known(sensor[c], v)] /\ GoOn(t) BY DEF UpdateSensor
<1>2. /\ sensor'[c].value = v /\ sensor'[c].value_known = TRUE
      /\ sensor'[c].notify_enabled = sensor[c].notify_enabled
      /\ \A d \in Reads \ {c} : sensor'[d] = sensor[d]
  <2>1. sensor[c] \in Characteristic BY <1>f
  <2>2. /\ Known(sensor[c], v).value = v /\ Known(sensor[c], v).value_known = TRUE
        /\ Known(sensor[c], v).notify_enabled = sensor[c].notify_enabled
    BY <2>1, KnownParts
  <2>3. sensor'[c] = Known(sensor[c], v) /\ \A d \in Reads \ {c} : sensor'[d] = sensor[d]
    BY <1>f, <1>1
  <2> QED BY <2>2, <2>3
<1>3. TellInv'
  <2>1. CASE sensor[c].notify_enabled /\ Compared(c, v) # Compared(c, sensor[c].value)
    <3>1. ShouldNotify("VALUE_CHANGED", Compared(c, sensor[c].value), Compared(c, v), 0)
      BY <2>1 DEF ShouldNotify
    <3>2. PICK sent \in {{v}, {}} : announced' = [announced EXCEPT ![c] = sent]
      BY <2>1, <3>1 DEF UpdateSensor
    <3>3. announced' \in [Reads -> SUBSET Int] /\ announced'[c] \subseteq {v}
          /\ \A d \in Reads \ {c} : announced'[d] = announced[d]
      BY <1>f, <3>2
    <3> QED BY <1>2, <3>3 DEF TellInv
  <2>2. CASE ~sensor[c].notify_enabled /\ UNCHANGED announced
    BY <1>2, <2>2 DEF TellInv
  <2>3. CASE Compared(c, v) = Compared(c, sensor[c].value) /\ UNCHANGED announced
    <3>1. v = sensor[c].value BY <1>f, <2>3, ComparedApart
    <3> QED BY <1>2, <2>3, <3>1 DEF TellInv
  <2>4. ShouldNotify("VALUE_CHANGED", Compared(c, sensor[c].value), Compared(c, v), 0)
          = (Compared(c, v) # Compared(c, sensor[c].value))
    BY DEF ShouldNotify
  <2> QED BY <2>1, <2>2, <2>3, <2>4 DEF UpdateSensor
<1> QED BY <1>1, <1>2, <1>3

\* Lemma: a value that is no longer known stays what the client was told.
LEMMA InvalidateTells ==
  ASSUME SensorOk, TellInv, NEW cs, Invalidate(cs)
  PROVE  /\ TellInv'
         /\ \A d \in Reads : IF d \in cs THEN sensor'[d].value_known = FALSE
                                         ELSE sensor'[d] = sensor[d]
<1>1. sensor \in [Reads -> Characteristic] BY DEF SensorOk
<1>2. \A d \in Reads : sensor'[d] = IF d \in cs THEN Invalidated(sensor[d]) ELSE sensor[d]
  BY DEF Invalidate
<1>3. \A d \in Reads : /\ Invalidated(sensor[d]).value = sensor[d].value
                       /\ Invalidated(sensor[d]).value_known = FALSE
                       /\ Invalidated(sensor[d]).notify_enabled = sensor[d].notify_enabled
  BY <1>1, InvalidatedParts
<1>4. ASSUME NEW d \in Reads
      PROVE  /\ sensor'[d].value = sensor[d].value
             /\ sensor'[d].notify_enabled = sensor[d].notify_enabled
  <2>1. CASE d \in cs BY <1>2, <1>3, <2>1
  <2>2. CASE d \notin cs BY <1>2, <2>2
  <2> QED BY <2>1, <2>2
<1>5. UNCHANGED announced BY DEF Invalidate
<1>6. TellInv' BY <1>4, <1>5 DEF TellInv
<1> QED BY <1>2, <1>3, <1>6

\* Lemma: each environment characteristic has its place in an update, before
\* the gases.
LEMMA Places ==
  ASSUME NEW k \in 1 .. 5
  PROVE  /\ Order[k] = "temperature" => k = 1
         /\ Order[k] = "humidity" => k = 2
         /\ Order[k] = "pressure" => k = 3
         /\ Order[k] \in {"co2", "tvoc"} => k > 3
<1>1. /\ Order[1] = "temperature" /\ Order[2] = "humidity" /\ Order[3] = "pressure"
      /\ Order[4] = "co2" /\ Order[5] = "tvoc"
  BY DEF Order
<1>2. k = 1 \/ k = 2 \/ k = 3 \/ k = 4 \/ k = 5 OBVIOUS
<1> QED BY <1>1, <1>2

\* Lemma: one environment characteristic is brought up to date.
LEMMA EnvironmentUpdate ==
  ASSUME EssInv, TellInv, NEW t \in Threads, NEW c \in Environment, UpdateEnvironment(t, c),
         copy[t] = current_data, UNCHANGED current_data
  PROVE  /\ TellInv' /\ Shows(c, current_data)'
         /\ \A d \in Environment \ {c} : sensor'[d] = sensor[d]
         /\ GoOn(t) \/ (GoToEnd(t) /\ Rejected(c, current_data))
<1>s. SensorOk /\ copy[t] \in SensorData /\ GasesOk(copy[t])
  BY DEF EssInv, ManagerInv, CopyInv, TypeInv, ControlInv, ControlType
<1>d. Environment \subseteq Reads /\ c \in Reads /\ c # "co2" BY DEF Environment, Reads
<1>1. CASE /\ Invalidate({c}) /\ ~(IsValid(c, current_data) /\ InRange(c, current_data))
           /\ GoOn(t) \/ (GoToEnd(t) /\ Rejected(c, current_data))
  <2>1. /\ TellInv' /\ sensor'[c].value_known = FALSE
        /\ \A d \in Environment \ {c} : sensor'[d] = sensor[d]
    BY <1>s, <1>d, <1>1, InvalidateTells
  <2>2. Shows(c, current_data)' BY <1>1, <2>1 DEF Shows
  <2> QED BY <1>1, <2>1, <2>2
<1>2. CASE /\ IsValid(c, current_data) /\ InRange(c, current_data)
           /\ UpdateSensor(t, c, Encoded(c, copy[t]))
  <2>1. Encoded(c, copy[t]) \in Int /\ Sendable(c, Encoded(c, copy[t]))
    BY <1>s, <1>d, <1>2, EncodedOk
  <2>2. /\ TellInv' /\ GoOn(t)
        /\ sensor'[c].value_known = TRUE /\ sensor'[c].value = Encoded(c, copy[t])
        /\ \A d \in Reads \ {c} : sensor'[d] = sensor[d]
    BY <1>s, <1>d, <1>2, <2>1, UpdateTells
  <2>3. Shows(c, current_data)' BY <1>2, <2>2 DEF Shows
  <2> QED BY <1>d, <2>2, <2>3
<1> QED BY <1>1, <1>2 DEF UpdateEnvironment, Rejected

\* Lemma: a gas is, and the environment is left alone.
LEMMA GasUpdate ==
  ASSUME EssInv, TellInv, NEW t \in Threads, UpdateCo2(t) \/ UpdateTvoc(t)
  PROVE  /\ TellInv' /\ \A d \in Environment : sensor'[d] = sensor[d]
         /\ Order[step[t]] \in {"co2", "tvoc"} /\ (GoOn(t) \/ GoToEnd(t))
<1>s. SensorOk /\ copy[t] \in SensorData /\ GasesOk(copy[t])
  BY DEF EssInv, ManagerInv, CopyInv, TypeInv, ControlInv, ControlType
<1>d. Environment \subseteq Reads /\ \A c \in {"co2", "tvoc"} : c \in Reads /\ c \notin Environment
  BY DEF Environment, Reads
<1>1. PICK c \in {"co2", "tvoc"}, rejected \in BOOLEAN :
        UpdateGas(t, c, rejected) /\ (c = "co2" /\ ~rejected => InRange("co2", copy[t]))
  <2>1. CASE UpdateCo2(t)
    <3>1. UpdateGas(t, "co2", ~InRange("co2", copy[t]) \/ ~InRange("tvoc", copy[t]))
      BY <2>1 DEF UpdateCo2
    <3>2. CASE InRange("co2", copy[t]) /\ InRange("tvoc", copy[t])
      <4>1. UpdateGas(t, "co2", FALSE) BY <3>1, <3>2 DEF UpdateGas
      <4> QED BY <3>2, <4>1
    <3>3. CASE ~(InRange("co2", copy[t]) /\ InRange("tvoc", copy[t]))
      <4>1. UpdateGas(t, "co2", TRUE) BY <3>1, <3>3 DEF UpdateGas
      <4> QED BY <4>1
    <3> QED BY <3>2, <3>3
  <2>2. CASE UpdateTvoc(t) BY <2>2 DEF UpdateTvoc
  <2> QED BY <2>1, <2>2
<1>2. Order[step[t]] = c BY <1>1 DEF UpdateGas, Updating
<1>3. CASE \E cs \in {{c}, {"co2", "tvoc"}} : Invalidate(cs) /\ (GoOn(t) \/ GoToEnd(t))
  <2>1. PICK cs \in {{c}, {"co2", "tvoc"}} : Invalidate(cs) /\ (GoOn(t) \/ GoToEnd(t)) BY <1>3
  <2>2. \A d \in Environment : d \notin cs BY <1>d
  <2>3. TellInv' /\ \A d \in Environment : sensor'[d] = sensor[d]
    BY <1>s, <1>d, <2>1, <2>2, InvalidateTells
  <2> QED BY <1>2, <2>1, <2>3
<1>4. ASSUME NEW v \in Int, Sendable(c, v), UpdateSensor(t, c, v)
      PROVE  TellInv' /\ (\A d \in Environment : sensor'[d] = sensor[d]) /\ GoOn(t)
  <2>1. TellInv' /\ GoOn(t) /\ \A d \in Reads \ {c} : sensor'[d] = sensor[d]
    BY <1>s, <1>d, <1>4, UpdateTells
  <2> QED BY <1>d, <2>1
<1>5. CASE UpdateSensor(t, c, ESS_UNKNOWN_U16)
  <2>1. ESS_UNKNOWN_U16 \in Int /\ Sendable(c, ESS_UNKNOWN_U16) BY LimitsInt, SendableCases
  <2> QED BY <1>2, <1>4, <1>5, <2>1
<1>6. CASE IsValid(c, copy[t]) /\ ~rejected /\ UpdateSensor(t, c, Encoded(c, copy[t]))
  <2>1. Encoded(c, copy[t]) \in Int /\ Sendable(c, Encoded(c, copy[t]))
    BY <1>s, <1>d, <1>1, <1>6, EncodedOk
  <2> QED BY <1>2, <1>4, <1>6, <2>1
<1> QED BY <1>1, <1>3, <1>5, <1>6 DEF UpdateGas

\* Lemma: an update goes on, or ends, with what it has reached up to date.
LEMMA UpdateShown ==
  ASSUME EssInv, SoloInv, ShownInv, TellInv, NEW t \in Threads, Update(t)
  PROVE  ShownInv' /\ TellInv'
<1>n. Len(Order) = 5 BY DEF Order
<1>f. /\ step \in [Threads -> 1 .. 6] /\ step[t] \in 1 .. 5 /\ phase[t] = "callback"
      /\ UNCHANGED <<job, todo, phase, copy, current_data>>
  <2>1. phase[t] = "callback" /\ step[t] <= 5
    BY <1>n DEF Update, UpdateEnvironment, UpdateCo2, UpdateTvoc, UpdateGas, Updating
  <2>2. step \in [Threads -> 1 .. 6] BY <1>n DEF EssInv, StepOk
  <2>3. step[t] \in 1 .. 5 BY <2>1, <2>2
  <2> QED BY <2>1, <2>2, <2>3 DEF Update
<1>1. copy[t] = current_data /\ ShownUpTo(step[t], current_data)
  BY <1>f DEF ShownInv, UpdateInv
<1>2. \A u \in Threads \ {t} : phase[u] = "call"
  <2>1. TypeInv BY DEF EssInv, ManagerInv
  <2>2. job[t] # "idle" BY <1>f, <2>1, IdleIsOut
  <2> QED BY <2>1, <2>2, Alone
<1>3. ASSUME GoOn(t) \/ GoToEnd(t), ShownUpTo(step[t], current_data)' PROVE ShownInv'
  <2>1. \A u \in Threads \ {t} : step'[u] = step[u] BY <1>f, <1>3 DEF GoOn, GoToEnd
  <2>2. ~AtRest' BY <1>f DEF AtRest
  <2>3. \A u \in Threads \ {t} : phase'[u] = "call" /\ step'[u] = 1
    BY <1>2, <1>f, <2>1 DEF ShownInv, UpdateInv
  <2>4. phase'[t] = "callback" /\ copy'[t] = current_data' BY <1>1, <1>f
  <2>5. UpdateInv' BY <1>3, <2>3, <2>4 DEF UpdateInv
  <2>6. CopiedInv' BY <1>f DEF ShownInv, CopiedInv
  <2> QED BY <2>2, <2>5, <2>6 DEF ShownInv, RestInv
<1>4. /\ GoOn(t) => step'[t] = step[t] + 1
      /\ GoToEnd(t) => step'[t] = 6
  BY <1>n, <1>f DEF GoOn, GoToEnd
<1>5. \A d \in Environment :
        /\ Rejected(d, current_data)' <=> Rejected(d, current_data)
        /\ sensor'[d] = sensor[d] /\ Shows(d, current_data) => Shows(d, current_data)'
  BY <1>f DEF Rejected, Shows
<1>6. ASSUME NEW c \in Environment, UpdateEnvironment(t, c) PROVE ShownInv' /\ TellInv'
  <2>1. /\ TellInv' /\ Shows(c, current_data)'
        /\ \A d \in Environment \ {c} : sensor'[d] = sensor[d]
        /\ GoOn(t) \/ (GoToEnd(t) /\ Rejected(c, current_data))
    BY <1>1, <1>6, <1>f, EnvironmentUpdate
  <2>2. Order[step[t]] = c BY <1>6 DEF UpdateEnvironment, Updating
  <2>3. CASE c = "temperature"
    <3>1. step[t] = 1 BY <1>f, <2>2, <2>3, Places
    <3>2. step'[t] = 2 \/ (step'[t] = 6 /\ Rejected("temperature", current_data))
      BY <1>4, <2>1, <2>3, <3>1
    <3>3. ShownUpTo(step[t], current_data)'
      BY <1>5, <2>1, <2>3, <3>2 DEF ShownUpTo, Environment
    <3> QED BY <1>3, <2>1, <3>3
  <2>4. CASE c = "humidity"
    <3>1. step[t] = 2 BY <1>f, <2>2, <2>4, Places
    <3>2. step'[t] = 3 \/ (step'[t] = 6 /\ Rejected("humidity", current_data))
      BY <1>4, <2>1, <2>4, <3>1
    <3>3. Shows("temperature", current_data)'
      BY <1>1, <1>5, <2>1, <2>4, <3>1 DEF ShownUpTo, Environment
    <3>4. ShownUpTo(step[t], current_data)'
      BY <1>5, <2>1, <2>4, <3>2, <3>3 DEF ShownUpTo, Environment
    <3> QED BY <1>3, <2>1, <3>4
  <2>5. CASE c = "pressure"
    <3>1. step[t] = 3 BY <1>f, <2>2, <2>5, Places
    <3>2. Shows("temperature", current_data)'
      BY <1>1, <1>5, <2>1, <2>5, <3>1 DEF ShownUpTo, Environment
    <3>3. ~Rejected("temperature", current_data)' => Shows("humidity", current_data)'
      BY <1>1, <1>5, <2>1, <2>5, <3>1 DEF ShownUpTo, Environment
    <3>4. ShownUpTo(step[t], current_data)' BY <2>1, <2>5, <3>2, <3>3 DEF ShownUpTo
    <3> QED BY <1>3, <2>1, <3>4
  <2> QED BY <2>3, <2>4, <2>5 DEF Environment
<1>7. CASE UpdateCo2(t) \/ UpdateTvoc(t)
  <2>1. /\ TellInv' /\ \A d \in Environment : sensor'[d] = sensor[d]
        /\ Order[step[t]] \in {"co2", "tvoc"} /\ (GoOn(t) \/ GoToEnd(t))
    BY <1>7, GasUpdate
  <2>2. step[t] > 3 BY <1>f, <2>1, Places
  <2>3. \A d \in Environment : Shows(d, current_data) => Shows(d, current_data)'
    BY <1>5, <2>1
  <2>4. /\ Shows("temperature", current_data)'
        /\ ~Rejected("temperature", current_data)' => Shows("humidity", current_data)'
        /\ ~Rejected("temperature", current_data)' /\ ~Rejected("humidity", current_data)'
             => Shows("pressure", current_data)'
    BY <1>1, <1>5, <1>f, <2>2, <2>3 DEF ShownUpTo, Environment
  <2>5. ShownUpTo(step[t], current_data)' BY <2>4 DEF ShownUpTo
  <2> QED BY <1>3, <2>1, <2>5
<1> QED BY <1>6, <1>7 DEF Update, Environment

\* Lemma: what a read makes of a characteristic.
LEMMA RefreshedParts ==
  ASSUME SensorOk, NEW data \in SensorData, GasesOk(data), NEW c \in Reads
  PROVE  /\ Refreshed(c, data).notify_enabled = sensor[c].notify_enabled
         /\ IF IsValid(c, data) /\ InRange(c, data)
              THEN Refreshed(c, data).value_known = TRUE /\ Refreshed(c, data).value = Encoded(c, data)
              ELSE Refreshed(c, data).value_known = FALSE /\ Refreshed(c, data).value = sensor[c].value
<1>1. sensor[c] \in Characteristic BY DEF SensorOk
<1>2. CASE IsValid(c, data) /\ InRange(c, data)
  <2>1. Refreshed(c, data) = Known(sensor[c], Encoded(c, data)) BY <1>2 DEF Refreshed
  <2>2. Encoded(c, data) \in Int BY <1>2, EncodedOk
  <2>3. /\ Known(sensor[c], Encoded(c, data)).value = Encoded(c, data)
        /\ Known(sensor[c], Encoded(c, data)).value_known = TRUE
        /\ Known(sensor[c], Encoded(c, data)).notify_enabled = sensor[c].notify_enabled
    BY <1>1, <2>2, KnownParts
  <2> QED BY <1>2, <2>1, <2>3
<1>3. CASE ~(IsValid(c, data) /\ InRange(c, data))
  <2>1. Refreshed(c, data) = Invalidated(sensor[c]) BY <1>3 DEF Refreshed
  <2>2. /\ Invalidated(sensor[c]).value = sensor[c].value
        /\ Invalidated(sensor[c]).value_known = FALSE
        /\ Invalidated(sensor[c]).notify_enabled = sensor[c].notify_enabled
    BY <1>1, InvalidatedParts
  <2> QED BY <1>3, <2>1, <2>2
<1> QED BY <1>2, <1>3

\* Lemma: a read stores the characteristic itself and at most one other, of the
\* same sensor, and this only after a temperature it has not rejected.
LEMMA StoredOthers ==
  ASSUME NEW c, NEW data, NEW d \in Stored(c, data), d # c
  PROVE  d = "temperature" \/ (d = "humidity" /\ Refreshed("temperature", data).value_known)
<1>1. CASE c = "humidity" BY <1>1 DEF Stored
<1>2. CASE c # "humidity" /\ c = "temperature" /\ Refreshed("temperature", data).value_known
  BY <1>2 DEF Stored
<1>3. CASE ~(c = "humidity") /\ ~(c = "temperature" /\ Refreshed("temperature", data).value_known)
  BY <1>3 DEF Stored
<1> QED BY <1>1, <1>2, <1>3

\* Lemma: it stores the characteristic that is read.
LEMMA StoredItself == ASSUME NEW c, NEW data PROVE c \in Stored(c, data)
<1>1. CASE c = "humidity" BY <1>1 DEF Stored
<1>2. CASE c # "humidity" /\ c = "temperature" /\ Refreshed("temperature", data).value_known
  BY <1>2 DEF Stored
<1>3. CASE ~(c = "humidity") /\ ~(c = "temperature" /\ Refreshed("temperature", data).value_known)
  BY <1>3 DEF Stored
<1> QED BY <1>1, <1>2, <1>3

\* Lemma: a read is answered with what its update has shown already, so that the
\* second characteristic it stores keeps the value the client was told.
LEMMA AnswerShown ==
  ASSUME EssInv, SoloInv, ShownInv, TellInv, NEW t \in Threads, Answer(t)
  PROVE  ShownInv' /\ TellInv'
<1> USE ThreadsAssumption
<1>t. TypeInv /\ SensorOk /\ CopyInv BY DEF EssInv, ManagerInv
<1>s. Step(t) BY DEF Step, Answer
<1>f. /\ todo[t] \in Rest(job[t]) /\ job[t] \in Jobs
      /\ job[Main] \in {"boot", "idle"} /\ job[WorkQueue] \in Works \cup {"idle"}
      /\ sensor \in [Reads -> Characteristic]
      /\ copy[t] \in SensorData /\ GasesOk(copy[t])
  BY <1>t DEF TypeInv, ControlInv, ControlType, CallInv, JobInv, SensorOk, CopyInv
<1>1. /\ phase[t] = "call" /\ todo[t] # <<>> /\ Head(todo[t]) = "answer" /\ Proceed(t)
      /\ UNCHANGED <<step, current_data>>
  BY DEF Answer, At, Return
<1>2. todo[t] = <<"answer">> /\ job[t] \in Reads BY <1>f, <1>1, TailRest
<1>3. copy[t] = current_data BY <1>2 DEF ShownInv, CopiedInv
<1>4. job[Main] = "idle"
  <2>1. t = Rx BY <1>f, <1>2 DEF Threads, Reads, Works
  <2>2. job[Rx] # "idle" BY <1>2, <2>1 DEF Reads
  <2> QED BY <2>2 DEF SoloInv
<1>5. AtRest
  <2>1. job[t] # "idle" BY <1>s, <1>t, StepIsBusy
  <2>2. \A u \in Threads \ {t} : phase[u] = "call" BY <1>t, <2>1, Alone
  <2> QED BY <1>1, <1>4, <2>2 DEF AtRest
<1>6. ShownUpTo(6, current_data) BY <1>5 DEF ShownInv, RestInv
<1> DEFINE c == job[t]
           S == Stored(c, current_data)
<1>7. sensor' = [d \in Reads |-> IF d \in S THEN Refreshed(d, current_data) ELSE sensor[d]]
  BY <1>3 DEF Answer
<1>8. \A d \in Reads :
        /\ Refreshed(d, current_data).notify_enabled = sensor[d].notify_enabled
        /\ IF IsValid(d, current_data) /\ InRange(d, current_data)
             THEN /\ Refreshed(d, current_data).value_known = TRUE
                  /\ Refreshed(d, current_data).value = Encoded(d, current_data)
             ELSE /\ Refreshed(d, current_data).value_known = FALSE
                  /\ Refreshed(d, current_data).value = sensor[d].value
  BY <1>t, <1>f, <1>3, RefreshedParts
<1>d. Environment \subseteq Reads BY DEF Environment, Reads
<1> HIDE DEF S, c
<1>9. ShownInv'
  <2>1. \A d \in Environment : Shows(d, current_data) => Shows(d, current_data)'
    <3> SUFFICES ASSUME NEW d \in Environment, Shows(d, current_data)
                PROVE  Shows(d, current_data)'
      OBVIOUS
    <3>1. CASE d \in S
      <4>1. sensor'[d] = Refreshed(d, current_data) BY <1>7, <1>d, <3>1
      <4> QED BY <1>1, <1>8, <1>d, <4>1 DEF Shows
    <3>2. CASE d \notin S
      <4>1. sensor'[d] = sensor[d] BY <1>7, <1>d, <3>2
      <4> QED BY <1>1, <4>1 DEF Shows
    <3> QED BY <3>1, <3>2
  <2>2. \A d \in Environment : Rejected(d, current_data)' <=> Rejected(d, current_data)
    BY <1>1 DEF Rejected
  <2>3. ShownUpTo(6, current_data)' BY <1>6, <2>1, <2>2 DEF ShownUpTo, Environment
  <2>4. phase'[t] = "call" /\ todo'[t] \notin {<<"answer">>, <<"seed">>}
    BY <1>s, <1>t, <1>1, ProceedsTo
  <2>5. step'[t] = 1 BY <1>1 DEF ShownInv, UpdateInv
  <2> QED BY <1>s, <1>t, <1>1, <2>3, <2>4, <2>5, OnlyOne
<1>10. TellInv'
  <2>1. /\ announced \in [Reads -> SUBSET Int]
        /\ \A d \in Reads : sensor[d].notify_enabled => announced[d] \subseteq {sensor[d].value}
    BY DEF TellInv
  <2>2. announced' = IF sensor[c].notify_enabled /\ sensor'[c].value_known
                       THEN [announced EXCEPT ![c] = {sensor'[c].value}] ELSE announced
    BY DEF Answer, c
  <2>3. c \in Reads /\ c \in S BY <1>2, StoredItself DEF c, S
  <2>4. sensor'[c] = Refreshed(c, current_data) BY <1>7, <2>3
  <2>5. Refreshed(c, current_data) \in Characteristic BY <1>t, <1>f, <1>3, <2>3, RefreshedOk
  <2>6. sensor'[c].value \in Int BY <2>4, <2>5 DEF Characteristic
  <2>7. announced' \in [Reads -> SUBSET Int] BY <2>1, <2>2, <2>6
  <2>8. ASSUME sensor'[c].notify_enabled PROVE announced'[c] \subseteq {sensor'[c].value}
    <3>1. sensor[c].notify_enabled BY <1>8, <2>3, <2>4, <2>8
    <3>2. CASE sensor'[c].value_known
      <4>1. announced'[c] = {sensor'[c].value} BY <2>1, <2>2, <2>3, <3>1, <3>2
      <4> QED BY <4>1
    <3>3. CASE ~sensor'[c].value_known
      <4>1. sensor'[c].value = sensor[c].value BY <1>8, <2>3, <2>4, <3>3
      <4>2. announced' = announced BY <2>2, <3>3
      <4> QED BY <2>1, <2>3, <3>1, <4>1, <4>2
    <3> QED BY <3>2, <3>3
  <2>9. ASSUME NEW d \in Reads \ {c}, sensor'[d].notify_enabled
        PROVE  announced'[d] \subseteq {sensor'[d].value}
    <3>1. announced'[d] = announced[d] BY <2>1, <2>2, <2>9
    <3>2. CASE d \notin S
      <4>1. sensor'[d] = sensor[d] BY <1>7, <3>2
      <4> QED BY <2>1, <2>9, <3>1, <4>1
    <3>3. CASE d \in S
      <4>1. sensor'[d] = Refreshed(d, current_data) BY <1>7, <3>3
      <4>2. sensor[d].notify_enabled BY <1>8, <2>9, <4>1
      <4>3. d = "temperature" \/ (d = "humidity" /\ Refreshed("temperature", current_data).value_known)
        BY <3>3, StoredOthers DEF S
      <4>4. Shows(d, current_data)
        <5>1. CASE d = "temperature" BY <1>6, <5>1 DEF ShownUpTo
        <5>2. CASE d = "humidity" /\ Refreshed("temperature", current_data).value_known
          <6>1. ~Rejected("temperature", current_data) BY <1>8, <5>2 DEF Rejected, Reads
          <6> QED BY <1>6, <5>2, <6>1 DEF ShownUpTo
        <5> QED BY <4>3, <5>1, <5>2
      <4>5. sensor'[d].value = sensor[d].value
        <5>1. CASE IsValid(d, current_data) /\ InRange(d, current_data)
          BY <1>8, <4>1, <4>4, <5>1 DEF Shows
        <5>2. CASE ~(IsValid(d, current_data) /\ InRange(d, current_data))
          BY <1>8, <4>1, <5>2
        <5> QED BY <5>1, <5>2
      <4> QED BY <2>1, <2>9, <3>1, <4>2, <4>5
    <3> QED BY <3>2, <3>3
  <2> QED BY <2>7, <2>8, <2>9 DEF TellInv
<1> QED BY <1>9, <1>10

-----------------------------------------------------------------------------
(* All steps *)

\* Lemma: a subscription changes no value.
LEMMA NotifyParts ==
  ASSUME NEW s \in Characteristic, NEW on \in BOOLEAN
  PROVE  /\ [s EXCEPT !.notify_enabled = on].value = s.value
         /\ [s EXCEPT !.notify_enabled = on].value_known = s.value_known
         /\ [s EXCEPT !.notify_enabled = on].notify_enabled = on
BY DEF Characteristic

\* Lemma: what the client does between its requests.
LEMMA ClientShown ==
  ASSUME EssInv, SoloInv, ShownInv, TellInv,
         \/ \E c \in Reads : ReadUnready(c)
         \/ \E c \in Subscribable, on \in BOOLEAN : CccCfgChanged(c, on)
         \/ BecomesReady
         \/ UNCHANGED vars
  PROVE  ShownInv' /\ TellInv'
<1>f. /\ sensor \in [Reads -> Characteristic] /\ announced \in [Reads -> SUBSET Int]
      /\ Environment \subseteq Reads
  BY DEF EssInv, SensorOk, TellInv, Environment, Reads
<1>1. OnlyCpu /\ UNCHANGED step
  BY DEF ReadUnready, CccCfgChanged, BecomesReady, vars, essVars, OnlyCpu, smVars, threadVars
<1>2. CASE \E c \in Reads : ReadUnready(c)
  <2>1. PICK c \in {"co2", "tvoc"} :
          /\ sensor' = [sensor EXCEPT ![c] = Known(sensor[c], ESS_UNKNOWN_U16)]
          /\ announced' = IF sensor[c].notify_enabled
                            THEN [announced EXCEPT ![c] = {ESS_UNKNOWN_U16}] ELSE announced
    BY <1>2 DEF ReadUnready
  <2>2. c \in Reads /\ c \notin Environment /\ ESS_UNKNOWN_U16 \in Int
    BY LimitsInt DEF Reads, Environment
  <2>3. /\ Known(sensor[c], ESS_UNKNOWN_U16).value = ESS_UNKNOWN_U16
        /\ Known(sensor[c], ESS_UNKNOWN_U16).notify_enabled = sensor[c].notify_enabled
    BY <1>f, <2>2, KnownParts
  <2>4. /\ sensor'[c].value = ESS_UNKNOWN_U16
        /\ sensor'[c].notify_enabled = sensor[c].notify_enabled
        /\ \A d \in Reads \ {c} : sensor'[d] = sensor[d]
    BY <1>f, <2>1, <2>2, <2>3
  <2>5. ValuesSame BY <1>f, <2>2, <2>4 DEF ValuesSame
  <2>6. CASE sensor[c].notify_enabled
    <3>1. /\ announced' \in [Reads -> SUBSET Int] /\ announced'[c] = {ESS_UNKNOWN_U16}
          /\ \A d \in Reads \ {c} : announced'[d] = announced[d]
      BY <1>f, <2>1, <2>2, <2>6
    <3>2. TellInv' BY <2>4, <3>1 DEF TellInv
    <3> QED BY <1>1, <2>5, <3>2, QuietKeepsShown
  <2>7. CASE ~sensor[c].notify_enabled
    <3>1. announced' = announced BY <2>1, <2>7
    <3>2. TellInv' BY <2>4, <2>7, <3>1 DEF TellInv
    <3> QED BY <1>1, <2>5, <3>2, QuietKeepsShown
  <2> QED BY <2>6, <2>7
<1>3. CASE \E c \in Subscribable, on \in BOOLEAN : CccCfgChanged(c, on)
  <2>1. PICK c \in Reads, on \in BOOLEAN :
          /\ sensor' = [sensor EXCEPT ![c] = [sensor[c] EXCEPT !.notify_enabled = on]]
          /\ announced' = [announced EXCEPT ![c] = {sensor[c].value}]
    BY <1>3, SubscribableAssumption DEF CccCfgChanged
  <2>2. sensor[c] \in Characteristic BY <1>f
  <2>3. /\ [sensor[c] EXCEPT !.notify_enabled = on].value = sensor[c].value
        /\ [sensor[c] EXCEPT !.notify_enabled = on].value_known = sensor[c].value_known
    BY <2>2, NotifyParts
  <2>4. sensor[c].value \in Int BY <2>2 DEF Characteristic
  <2>5. /\ sensor'[c].value = sensor[c].value /\ sensor'[c].value_known = sensor[c].value_known
        /\ \A d \in Reads \ {c} : sensor'[d] = sensor[d]
    BY <1>f, <2>1, <2>3
  <2>6. ValuesSame BY <1>f, <2>5 DEF ValuesSame
  <2>7. /\ announced' \in [Reads -> SUBSET Int] /\ announced'[c] = {sensor[c].value}
        /\ \A d \in Reads \ {c} : announced'[d] = announced[d]
    BY <1>f, <2>1, <2>4
  <2>8. TellInv' BY <2>5, <2>7 DEF TellInv
  <2> QED BY <1>1, <2>6, <2>8, QuietKeepsShown
<1>4. CASE BecomesReady \/ UNCHANGED vars
  <2>1. UNCHANGED <<sensor, announced>> BY <1>4 DEF BecomesReady, vars, essVars
  <2>2. ValuesSame /\ TellInv' BY <2>1 DEF ValuesSame, TellInv
  <2> QED BY <1>1, <2>2, QuietKeepsShown
<1> QED BY <1>2, <1>3, <1>4

\* Lemma: a client that connects, leaves or reads.
LEMMA RequestShown ==
  ASSUME EssInv, ShownInv, TellInv,
         \/ OnConnected /\ UNCHANGED essVars
         \/ ClientLeaves
         \/ \E c \in Reads : StartRead(c)
  PROVE  ShownInv' /\ TellInv'
<1>f. /\ sensor \in [Reads -> Characteristic] /\ Environment \subseteq Reads /\ TypeInv
  BY DEF EssInv, ManagerInv, SensorOk, Environment, Reads
<1>1. PICK j \in Reads \cup {"connect", "disconnect"} : Start(Rx, j)
  <2>1. CASE OnConnected BY <2>1 DEF OnConnected
  <2>2. CASE ClientLeaves BY <2>2 DEF ClientLeaves, OnDisconnected
  <2>3. CASE \E c \in Reads : StartRead(c) BY <2>3 DEF StartRead, Read
  <2> QED BY <2>1, <2>2, <2>3
<1>2. UNCHANGED <<step, announced>> BY DEF ClientLeaves, StartRead, essVars
<1>3. CASE UNCHANGED sensor
  <2>1. ValuesSame /\ TellInv' BY <1>2, <1>3 DEF ValuesSame, TellInv
  <2> QED BY <1>f, <1>1, <1>2, <2>1, StartKeepsShown
<1>4. CASE sensor' = [c \in Reads |-> [sensor[c] EXCEPT !.notify_enabled = FALSE]]
  <2>1. \A c \in Reads : /\ sensor'[c].value = sensor[c].value
                         /\ sensor'[c].value_known = sensor[c].value_known
                         /\ sensor'[c].notify_enabled = FALSE
    BY <1>f, <1>4, NotifyParts
  <2>2. ValuesSame /\ TellInv' BY <1>f, <1>2, <2>1 DEF ValuesSame, TellInv
  <2> QED BY <1>f, <1>1, <1>2, <2>2, StartKeepsShown
<1> QED BY <1>3, <1>4 DEF ClientLeaves, StartRead, essVars

\* Lemma: every step keeps what is shown and what was told.
LEMMA ShownStep ==
  ASSUME EssInv, AloneInv, ShownInv, TellInv, [EssNext]_vars
  PROVE  ShownInv' /\ TellInv'
<1>f. SoloInv /\ BackInv /\ TypeInv /\ StepOk /\ SensorOk
  BY DEF AloneInv, EssInv, ManagerInv
<1>1. ASSUME NEW t \in Threads, EssStep(t) PROVE ShownInv' /\ TellInv'
  <2>1. CASE Internal(t) /\ UNCHANGED essVars
    <3>1. TellInv' BY <2>1 DEF essVars, TellInv
    <3> QED BY <1>f, <2>1, <3>1, InternalShown
  <2>2. CASE Notified(t)
    <3>1. OnlyCpu /\ UNCHANGED <<step, sensor, announced>>
      BY <2>2 DEF Notified, OnlyCpu, essVars
    <3>2. ValuesSame /\ TellInv' BY <3>1 DEF ValuesSame, TellInv
    <3> QED BY <3>1, <3>2, QuietKeepsShown
  <2>3. CASE Updated(t)
    <3>1. TellInv' BY <2>3 DEF Updated, TellInv
    <3> QED BY <1>f, <2>3, <3>1, UpdatedShown
  <2>4. CASE Refuse(t)
    <3>1. Step(t) /\ phase[t] = "call" /\ todo[t] # <<>> /\ Head(todo[t]) = "refuse"
      BY <2>4 DEF Refuse, At, Step
    <3>2. todo[t] \in Rest(job[t]) /\ job[t] \in Jobs
      BY <1>f DEF TypeInv, ControlInv, ControlType, CallInv
    <3>3. todo[t] = <<"refuse">> BY <3>1, <3>2, TailRest
    <3> QED BY <1>f, <3>3 DEF SoloInv
  <2> QED BY <1>f, <1>1, <2>1, <2>2, <2>3, <2>4, UpdateShown, AnswerShown DEF EssStep
<1>2. ASSUME NEW w, Work(w) PROVE FALSE BY <1>f, <1>2 DEF Work, SoloInv
<1> QED BY <1>f, <1>1, <1>2, ClientShown, RequestShown DEF EssNext

\* Lemma: at boot nothing is shown, and nobody is told anything.
LEMMA ShownInit == EssInit => ShownInv /\ TellInv
<1> SUFFICES ASSUME EssInit PROVE ShownInv /\ TellInv OBVIOUS
<1> USE ThreadsAssumption
<1>1. /\ job[Main] = "boot" /\ todo[Main] = Script["boot"]
      /\ \A t \in {Rx, WorkQueue} : todo[t] = <<>>
      /\ \A t \in Threads : phase[t] = "call" /\ step[t] = 1
      /\ announced = [c \in Reads |-> {sensor[c].value}]
  BY DEF EssInit, SmInit, Threads
<1>2. Script["boot"] \notin {<<"answer">>, <<"seed">>} /\ <<>> \notin {<<"answer">>, <<"seed">>}
  BY DEF Script
<1>3. CopiedInv BY <1>1, <1>2 DEF CopiedInv, Threads
<1>4. RestInv /\ UpdateInv BY <1>1 DEF RestInv, AtRest, UpdateInv
<1>5. TellInv
  <2>1. SensorOk BY EssStart DEF EssInv
  <2>2. \A c \in Reads : sensor[c].value \in Int BY <2>1 DEF SensorOk, Characteristic
  <2> QED BY <1>1, <2>2 DEF TellInv
<1> QED BY <1>3, <1>4, <1>5 DEF ShownInv

\* Lemma: the parts of the invariant keep each other.
LEMMA DefaultStep ==
  ASSUME ~Periodic
  PROVE  EssInv /\ AloneInv /\ ShownInv /\ TellInv /\ [EssNext]_vars
           => EssInv' /\ AloneInv' /\ ShownInv' /\ TellInv'
<1> SUFFICES ASSUME EssInv, AloneInv, ShownInv, TellInv, [EssNext]_vars
             PROVE  EssInv' /\ AloneInv' /\ ShownInv' /\ TellInv'
  OBVIOUS
<1>1. TypeInv BY DEF EssInv, ManagerInv
<1> QED BY <1>1, EssKeeps, AloneStep, ShownStep

\* In the default build a subscribed client is left behind only by the host:
\* when nothing is going on, the value of a characteristic is the one it had at
\* the subscription, or was read or handed to bt_gatt_notify() since, also when
\* a read of one characteristic stores the other one of its sensor
\* (ess_service.c:202-294, 628-660).
THEOREM NoChangeUnannouncedHolds ==
  ASSUME ~Periodic PROVE EssSpec => []NoChangeUnannounced
<1>1. TellInv => NoChangeUnannounced BY DEF TellInv, NoChangeUnannounced
<1> QED BY <1>1, EssStart, AloneInit, ShownInit, DefaultStep, PTL DEF EssSpec

-----------------------------------------------------------------------------
(* Readings in range *)

\* The sensors answer within the limits of the wire format.
ReadingsInRange ==
  /\ \A c \in Climates : TemperatureInRange(c.temperature) /\ HumidityInRange(c.humidity)
  /\ \A p \in Pressures : PressureInRange(p)

RangeInv == \A c \in Environment : ~Rejected(c, current_data)

\* Lemma: the ranges, one by one.
LEMMA RangeParts ==
  ASSUME NEW data
  PROVE  (\A c \in Environment : ~Rejected(c, data))
           <=> /\ "temphum" \in data.valid_mask
                    => TemperatureInRange(data.temperature) /\ HumidityInRange(data.humidity)
               /\ "pressure" \in data.valid_mask => PressureInRange(data.pressure)
BY DEF Environment, Rejected, IsValid, Source, InRange

\* Lemma: a sensor read leaves nothing to reject.
LEMMA RangeRead ==
  ASSUME ReadingsInRange, current_data \in SensorData, RangeInv,
         \/ TemperatureHumidityRead \/ PressureRead \/ AirQualityRead \/ ForBle
         \/ UNCHANGED current_data
  PROVE  RangeInv'
<1> DEFINE Fine(d) ==
       /\ "temphum" \in d.valid_mask => TemperatureInRange(d.temperature) /\ HumidityInRange(d.humidity)
       /\ "pressure" \in d.valid_mask => PressureInRange(d.pressure)
<1>1. Fine(current_data) BY RangeParts DEF RangeInv
<1>2. SUFFICES Fine(current_data')
  <2>1. \A c \in Environment : ~Rejected(c, current_data') BY <1>2, RangeParts
  <2> QED BY <2>1 DEF RangeInv
<1>3. CASE EnvSame(current_data, current_data') BY <1>1, <1>3 DEF EnvSame
<1>4. CASE TemperatureHumidityRead
  <2>1. CASE current_data' = Invalid(current_data, "temphum")
    BY <1>1, <2>1 DEF Invalid, SensorData
  <2>2. ASSUME NEW c \in Climates, current_data' = Valid([current_data EXCEPT
                 !.temperature = c.temperature, !.humidity = c.humidity], "temphum")
        PROVE  Fine(current_data')
    <3>1. /\ current_data'.temperature = c.temperature /\ current_data'.humidity = c.humidity
          /\ current_data'.pressure = current_data.pressure
          /\ "pressure" \in current_data'.valid_mask <=> "pressure" \in current_data.valid_mask
      BY <2>2 DEF Valid, SensorData
    <3> QED BY <1>1, <3>1 DEF ReadingsInRange
  <2> QED BY <1>4, <2>1, <2>2 DEF TemperatureHumidityRead
<1>5. CASE PressureRead
  <2>1. CASE current_data' = Invalid(current_data, "pressure")
    BY <1>1, <2>1 DEF Invalid, SensorData
  <2>2. ASSUME NEW p \in Pressures,
               current_data' = Valid([current_data EXCEPT !.pressure = p], "pressure")
        PROVE  Fine(current_data')
    <3>1. /\ current_data'.temperature = current_data.temperature
          /\ current_data'.humidity = current_data.humidity /\ current_data'.pressure = p
          /\ "temphum" \in current_data'.valid_mask <=> "temphum" \in current_data.valid_mask
      BY <2>2 DEF Valid, SensorData
    <3> QED BY <1>1, <3>1 DEF ReadingsInRange
  <2> QED BY <1>5, <2>1, <2>2 DEF PressureRead
<1>6. CASE AirQualityRead
  <2>1. CASE current_data' = Invalid(current_data, "air")
    BY <1>3, <2>1 DEF Invalid, SensorData, EnvSame
  <2>2. ASSUME NEW e, NEW v
        PROVE  /\ EnvSame(current_data, Valid([current_data EXCEPT !.eco2 = e, !.tvoc = v], "air"))
               /\ EnvSame(current_data, Invalid([current_data EXCEPT !.eco2 = e, !.tvoc = v], "air"))
    <3>1. EnvSame(current_data, Valid([current_data EXCEPT !.eco2 = e, !.tvoc = v], "air"))
      BY DEF Valid, SensorData, EnvSame
    <3>2. EnvSame(current_data, Invalid([current_data EXCEPT !.eco2 = e, !.tvoc = v], "air"))
      BY DEF Invalid, SensorData, EnvSame
    <3> QED BY <3>1, <3>2
  <2>3. ASSUME NEW g,
               LET data == [current_data EXCEPT
                              !.eco2 = IF Eco2Ok(g.eco2) THEN g.eco2 ELSE current_data.eco2,
                              !.tvoc = IF TvocOk(g.tvoc) THEN g.tvoc ELSE current_data.tvoc]
               IN current_data' = IF Eco2Ok(g.eco2) /\ TvocOk(g.tvoc)
                                    THEN Valid(data, "air") ELSE Invalid(data, "air")
        PROVE  EnvSame(current_data, current_data')
    <3>1. PICK e, v : current_data' \in {Valid([current_data EXCEPT !.eco2 = e, !.tvoc = v], "air"),
                                         Invalid([current_data EXCEPT !.eco2 = e, !.tvoc = v], "air")}
      BY <2>3
    <3> QED BY <2>2, <3>1
  <2> QED BY <1>3, <1>6, <2>1, <2>3 DEF AirQualityRead
<1>7. CASE UNCHANGED current_data BY <1>1, <1>7
<1> QED BY <1>3, <1>4, <1>5, <1>6, <1>7, ForBleSame

\* Lemma: only reads change the data.
LEMMA RangeStep ==
  ASSUME ReadingsInRange, TypeInv, RangeInv, [EssNext]_vars PROVE RangeInv'
<1>1. current_data \in SensorData BY DEF TypeInv, DataType
<1>2. ASSUME NEW t \in Threads, Step(t)
      PROVE  \/ TemperatureHumidityRead \/ PressureRead \/ AirQualityRead \/ ForBle
             \/ UNCHANGED current_data
  BY <1>2 DEF Step, Internal, Lock, Locked, GiveUp, SensorRead, DriverCall, DriverReturns,
              Register, Arm, Seed, Schedule, Rearm, CallbackReturns, Return
<1>3. \/ TemperatureHumidityRead \/ PressureRead \/ AirQualityRead \/ ForBle
      \/ UNCHANGED current_data
  <2>1. ASSUME NEW t \in Threads, EssStep(t) PROVE Step(t) \/ UNCHANGED current_data
    BY <2>1 DEF EssStep, Step, Update, Notified, Updated, Answer, Refuse
  <2>2. ASSUME NEW u, NEW j, Start(u, j) PROVE UNCHANGED current_data BY <2>2 DEF Start
  <2>3. CASE OnConnected \/ ClientLeaves
    BY <2>2, <2>3 DEF OnConnected, ClientLeaves, OnDisconnected
  <2>4. CASE (\E c \in Reads : StartRead(c)) \/ \E w \in {"env_work", "aq_work"} : Work(w)
    BY <2>2, <2>4 DEF StartRead, Read, Work
  <2>5. CASE UNCHANGED smVars BY <2>5 DEF smVars
  <2> QED
    BY <1>2, <2>1, <2>3, <2>4, <2>5 DEF EssNext, ReadUnready, CccCfgChanged, BecomesReady, vars
<1> QED BY <1>1, <1>3, RangeRead

\* In the default build, with sensors that keep to the wire format's range, the
\* environment characteristics show the last sample whenever nothing is going
\* on: no read, failed sensor, refused notification or client that comes and
\* goes leaves an older value in place (ess_service.c:736-810).
THEOREM EssCurrentHolds ==
  ASSUME ~Periodic, ReadingsInRange PROVE EssSpec => []EssCurrent
<1>1. EssInv /\ ShownInv /\ RangeInv => EssCurrent
  <2> SUFFICES ASSUME EssInv, ShownInv, RangeInv, Quiet, NEW c \in Environment
               PROVE  sensor[c] = Refreshed(c, current_data)
    BY DEF EssCurrent, Environment
  <2>1. TypeInv BY DEF EssInv, ManagerInv
  <2>2. AtRest BY <2>1, IdleIsOut DEF Quiet, AtRest, Threads
  <2>3. ShownUpTo(6, current_data) BY <2>2 DEF ShownInv, RestInv
  <2>4. Shows(c, current_data) BY <2>3 DEF ShownUpTo, RangeInv, Environment
  <2>5. sensor[c] \in Characteristic BY DEF EssInv, SensorOk, Environment, Reads
  <2>6. CASE IsValid(c, current_data) /\ InRange(c, current_data)
    <3>1. Known(sensor[c], Encoded(c, current_data)) = sensor[c]
      <4>1. sensor[c].value_known = TRUE /\ sensor[c].value = Encoded(c, current_data)
        BY <2>4, <2>6 DEF Shows
      <4> QED BY <2>5, <4>1 DEF Known, Characteristic
    <3> QED BY <2>6, <3>1 DEF Refreshed
  <2>7. CASE ~(IsValid(c, current_data) /\ InRange(c, current_data))
    <3>1. Invalidated(sensor[c]) = sensor[c]
      <4>1. sensor[c].value_known = FALSE BY <2>4, <2>7 DEF Shows
      <4> QED BY <2>5, <4>1 DEF Invalidated, Characteristic
    <3> QED BY <2>7, <3>1 DEF Refreshed
  <2> QED BY <2>6, <2>7
<1>2. EssInit => RangeInv
  <2>1. EssInit => current_data.valid_mask = {} BY DEF EssInit, SmInit, NoData
  <2> QED BY <2>1, RangeParts DEF RangeInv
<1>3. EssInv /\ RangeInv /\ [EssNext]_vars => RangeInv' BY RangeStep DEF EssInv, ManagerInv
<1> QED
  BY <1>1, <1>2, <1>3, EssStart, AloneInit, ShownInit, DefaultStep, PTL DEF EssSpec
=============================================================================
