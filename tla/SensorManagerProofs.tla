------------------------- MODULE SensorManagerProofs -------------------------
(***************************************************************************)
(* Type correctness of SensorManager, the discipline of its mutex, the     *)
(* validity of its gas readings, the two invariants about timed sampling,  *)
(* and the freshness of what a GATT read is answered with, for any         *)
(* readings, failing sensors and both builds.                              *)
(*                                                                         *)
(* What has to be added to make them inductive says where a thread is: the *)
(* calls it still has to make are the rest of the script of its job        *)
(* (CallInv), which threads have which jobs (JobInv), and that a client is *)
(* counted while its connect is handled (ClientInv).                       *)
(***************************************************************************)
EXTENDS SensorManager, SequenceTheorems, TLAPS

-----------------------------------------------------------------------------
(* What is left of a script *)

BootRest == {<<"ALL", "register", "arm", "get", "seed">>, <<"register", "arm", "get", "seed">>,
             <<"arm", "get", "seed">>, <<"get", "seed">>, <<"seed">>}
ConnectRest == {<<"mode", "ENV_BASIC", "AIR_QUALITY", "schedule">>,
                <<"ENV_BASIC", "AIR_QUALITY", "schedule">>,
                <<"AIR_QUALITY", "schedule">>, <<"schedule">>}
EnvRest == {<<"ENV_BASIC", "rearm">>, <<"rearm">>}
AirRest == {<<"AIR_QUALITY", "baseline", "rearm">>, <<"baseline", "rearm">>, <<"rearm">>}
ClimateRest == {<<"TEMP_HUMIDITY", "get", "answer">>, <<"get", "answer">>, <<"answer">>, <<"refuse">>}
PressureRest == {<<"PRESSURE", "get", "answer">>, <<"get", "answer">>, <<"answer">>, <<"refuse">>}
GasRest == {<<"for_ble", "get", "answer">>, <<"get", "answer">>, <<"answer">>, <<"refuse">>}

Rest(j) ==
  CASE j = "idle"                        -> {<<>>}
    [] j = "boot"                        -> BootRest
    [] j = "connect"                     -> ConnectRest
    [] j = "disconnect"                  -> {<<"mode">>}
    [] j = "env_work"                    -> EnvRest
    [] j = "aq_work"                     -> AirRest
    [] j \in {"temperature", "humidity"} -> ClimateRest
    [] j = "pressure"                    -> PressureRest
    [] j \in {"co2", "tvoc"}             -> GasRest

Works == {"env_work", "aq_work"}

\* A script goes on with what is left of it, and only its last call ends it.
Follows(j, s) ==
  /\ s # <<>>
  /\ Tail(s) = <<>> \/ Tail(s) \in Rest(j)
  /\ Head(s) = "schedule" => j = "connect"
  /\ Head(s) = "rearm" => j \in Works
  /\ Tail(s) = <<>> /\ j = "connect" => Head(s) = "schedule"
  /\ Tail(s) = <<>> /\ j \in Works => Head(s) = "rearm"

\* Lemma: this is so for every job's script (main.c:68-134,
\* sensor_manager.c:56-88, 449-498, ess_service.c:296-493).
LEMMA RestFollows ==
  ASSUME NEW j \in Jobs, j # "idle", NEW s \in Rest(j)
  PROVE  Follows(j, s)
<1>1. CASE j = "boot"
  <2>0. s \in BootRest BY <1>1 DEF Rest
  <2>1. CASE s = <<"ALL", "register", "arm", "get", "seed">>
    BY <1>1, <2>1 DEF Follows, Works, Rest, BootRest
  <2>2. CASE s = <<"register", "arm", "get", "seed">>
    BY <1>1, <2>2 DEF Follows, Works, Rest, BootRest
  <2>3. CASE s = <<"arm", "get", "seed">> BY <1>1, <2>3 DEF Follows, Works, Rest, BootRest
  <2>4. CASE s = <<"get", "seed">> BY <1>1, <2>4 DEF Follows, Works, Rest, BootRest
  <2>5. CASE s = <<"seed">> BY <1>1, <2>5 DEF Follows, Works, Rest, BootRest
  <2> QED BY <2>0, <2>1, <2>2, <2>3, <2>4, <2>5 DEF BootRest
<1>2. CASE j = "connect"
  <2>0. s \in ConnectRest BY <1>2 DEF Rest
  <2>1. CASE s = <<"mode", "ENV_BASIC", "AIR_QUALITY", "schedule">>
    BY <1>2, <2>1 DEF Follows, Works, Rest, ConnectRest
  <2>2. CASE s = <<"ENV_BASIC", "AIR_QUALITY", "schedule">>
    BY <1>2, <2>2 DEF Follows, Works, Rest, ConnectRest
  <2>3. CASE s = <<"AIR_QUALITY", "schedule">> BY <1>2, <2>3 DEF Follows, Works, Rest, ConnectRest
  <2>4. CASE s = <<"schedule">> BY <1>2, <2>4 DEF Follows, Works, Rest, ConnectRest
  <2> QED BY <2>0, <2>1, <2>2, <2>3, <2>4 DEF ConnectRest
<1>3. CASE j = "disconnect"
  <2>1. s = <<"mode">> BY <1>3 DEF Rest
  <2> QED BY <1>3, <2>1 DEF Follows, Works, Rest
<1>4. CASE j = "env_work"
  <2>0. s \in EnvRest BY <1>4 DEF Rest
  <2>1. CASE s = <<"ENV_BASIC", "rearm">> BY <1>4, <2>1 DEF Follows, Works, Rest, EnvRest
  <2>2. CASE s = <<"rearm">> BY <1>4, <2>2 DEF Follows, Works, Rest, EnvRest
  <2> QED BY <2>0, <2>1, <2>2 DEF EnvRest
<1>5. CASE j = "aq_work"
  <2>0. s \in AirRest BY <1>5 DEF Rest
  <2>1. CASE s = <<"AIR_QUALITY", "baseline", "rearm">>
    BY <1>5, <2>1 DEF Follows, Works, Rest, AirRest
  <2>2. CASE s = <<"baseline", "rearm">> BY <1>5, <2>2 DEF Follows, Works, Rest, AirRest
  <2>3. CASE s = <<"rearm">> BY <1>5, <2>3 DEF Follows, Works, Rest, AirRest
  <2> QED BY <2>0, <2>1, <2>2, <2>3 DEF AirRest
<1>6. CASE j \in {"temperature", "humidity"}
  <2>r. Rest(j) = ClimateRest BY <1>6 DEF Rest
  <2>1. CASE s = <<"TEMP_HUMIDITY", "get", "answer">>
    BY <1>6, <2>r, <2>1 DEF Follows, Works, ClimateRest
  <2>2. CASE s = <<"get", "answer">> BY <1>6, <2>r, <2>2 DEF Follows, Works, ClimateRest
  <2>3. CASE s = <<"answer">> BY <1>6, <2>r, <2>3 DEF Follows, Works, ClimateRest
  <2>4. CASE s = <<"refuse">> BY <1>6, <2>r, <2>4 DEF Follows, Works, ClimateRest
  <2> QED BY <2>r, <2>1, <2>2, <2>3, <2>4 DEF ClimateRest
<1>7. CASE j = "pressure"
  <2>r. Rest(j) = PressureRest BY <1>7 DEF Rest
  <2>1. CASE s = <<"PRESSURE", "get", "answer">>
    BY <1>7, <2>r, <2>1 DEF Follows, Works, PressureRest
  <2>2. CASE s = <<"get", "answer">> BY <1>7, <2>r, <2>2 DEF Follows, Works, PressureRest
  <2>3. CASE s = <<"answer">> BY <1>7, <2>r, <2>3 DEF Follows, Works, PressureRest
  <2>4. CASE s = <<"refuse">> BY <1>7, <2>r, <2>4 DEF Follows, Works, PressureRest
  <2> QED BY <2>r, <2>1, <2>2, <2>3, <2>4 DEF PressureRest
<1>8. CASE j \in {"co2", "tvoc"}
  <2>r. Rest(j) = GasRest BY <1>8 DEF Rest
  <2>1. CASE s = <<"for_ble", "get", "answer">> BY <1>8, <2>r, <2>1 DEF Follows, Works, GasRest
  <2>2. CASE s = <<"get", "answer">> BY <1>8, <2>r, <2>2 DEF Follows, Works, GasRest
  <2>3. CASE s = <<"answer">> BY <1>8, <2>r, <2>3 DEF Follows, Works, GasRest
  <2>4. CASE s = <<"refuse">> BY <1>8, <2>r, <2>4 DEF Follows, Works, GasRest
  <2> QED BY <2>r, <2>1, <2>2, <2>3, <2>4 DEF GasRest
<1> QED BY <1>1, <1>2, <1>3, <1>4, <1>5, <1>6, <1>7, <1>8 DEF Jobs, Reads

\* Lemma: a script is a non-empty sequence of calls and its own first rest.
LEMMA ScriptRest ==
  ASSUME NEW j \in Jobs, j # "idle"
  PROVE  Script[j] \in Rest(j) /\ Script[j] \in Seq(Calls)
<1>1. CASE j = "boot" BY <1>1 DEF Script, Rest, BootRest, Calls, Updates, DriverCalls
<1>2. CASE j = "connect"
  BY <1>2 DEF Script, Connected, Rest, ConnectRest, Calls, Updates, DriverCalls
<1>3. CASE j = "disconnect" BY <1>3 DEF Script, Rest, Calls, Updates, DriverCalls
<1>4. CASE j = "env_work" BY <1>4 DEF Script, Rest, EnvRest, Calls, Updates, DriverCalls
<1>5. CASE j = "aq_work" BY <1>5 DEF Script, Rest, AirRest, Calls, Updates, DriverCalls
<1>6. CASE j = "temperature" BY <1>6 DEF Script, Rest, ClimateRest, Calls, Updates, DriverCalls
<1>7. CASE j = "humidity" BY <1>7 DEF Script, Rest, ClimateRest, Calls, Updates, DriverCalls
<1>8. CASE j = "pressure" BY <1>8 DEF Script, Rest, PressureRest, Calls, Updates, DriverCalls
<1>9. CASE j = "co2" BY <1>9 DEF Script, Rest, GasRest, Calls, Updates, DriverCalls
<1>10. CASE j = "tvoc" BY <1>10 DEF Script, Rest, GasRest, Calls, Updates, DriverCalls
<1> QED BY <1>1, <1>2, <1>3, <1>4, <1>5, <1>6, <1>7, <1>8, <1>9, <1>10 DEF Jobs, Reads

\* Lemma: a read that is refused is on its way through its script.
LEMMA RefuseRest ==
  ASSUME NEW j \in Reads PROVE <<"refuse">> \in Rest(j) /\ <<"refuse">> \in Seq(Calls)
<1>1. <<"refuse">> \in Seq(Calls) BY DEF Calls
<1>2. CASE j \in {"temperature", "humidity"} BY <1>1, <1>2 DEF Rest, ClimateRest
<1>3. CASE j = "pressure" BY <1>1, <1>3 DEF Rest, PressureRest
<1>4. CASE j \in {"co2", "tvoc"} BY <1>1, <1>4 DEF Rest, GasRest
<1> QED BY <1>2, <1>3, <1>4 DEF Reads

-----------------------------------------------------------------------------
(* The invariant of the threads *)

ControlType ==
  /\ mutex \in Threads \cup {NoThread} /\ cpu \in Threads \cup {NoThread}
  /\ job \in [Threads -> Jobs]
  /\ todo \in [Threads -> Seq(Calls)]
  /\ phase \in [Threads -> {"call", "lock", "read", "callback", "driver"}]
  /\ reads \in [Threads -> Seq(Sensors)]
  /\ copy \in [Threads -> SensorData]

DataType ==
  /\ fresh \in SUBSET Sensors
  /\ current_data \in SensorData
  /\ update_callback \in BOOLEAN /\ armed \in BOOLEAN
  /\ connected_count \in 0 .. 1
  /\ works \subseteq {"env_work", "aq_work"}

\* A thread that is inside a call is inside one that can take it there.
Inside(p, s, r) ==
  /\ p # "call" => s # <<>>
  /\ p = "lock" => Head(s) \in Updates \cup {"get"}
  /\ p = "read" => Head(s) \in Updates /\ r # <<>>
  /\ p = "driver" => Head(s) \in DriverCalls
  /\ p = "callback" => Head(s) \in Updates \cup {"seed"}

CallInv ==
  \A t \in Threads : todo[t] \in Rest(job[t]) /\ Inside(phase[t], todo[t], reads[t])

JobInv ==
  /\ job[Main] \in {"boot", "idle"}
  /\ job[Rx] \in Reads \cup {"connect", "disconnect", "idle"}
  /\ job[WorkQueue] \in Works \cup {"idle"}

ControlInv == ControlType /\ CallInv /\ JobInv /\ MutexDiscipline

\* Thread t has finished a call and goes on, or has finished its job; only the
\* last calls of a connect and of a work handler end these.
Moved(t) ==
  /\ cpu' \in Threads \cup {NoThread}
  /\ job' \in [Threads -> Jobs]
  /\ todo' \in [Threads -> Seq(Calls)]
  /\ phase' = [phase EXCEPT ![t] = "call"]
  /\ todo'[t] \in Rest(job'[t])
  /\ job'[t] \in {job[t], "idle"}
  /\ \A u \in Threads \ {t} : job'[u] = job[u] /\ todo'[u] = todo[u]
  /\ Head(todo[t]) \notin {"schedule", "rearm"} /\ job[t] \in Works \cup {"connect"} =>
       job'[t] = job[t]

\* Thread t does not have the mutex, and whoever has got it waited for it.
Released(t) ==
  /\ mutex' # t
  /\ \/ mutex' = mutex
     \/ /\ mutex \in {t, NoThread}
        /\ mutex' = NoThread \/ (mutex' \in Threads /\ phase[mutex'] = "lock")

\* Lemma: a thread with something to do has a job, and its script goes on.
LEMMA BusyFollows ==
  ASSUME ControlType, CallInv, NEW t \in Threads, todo[t] # <<>>
  PROVE  job[t] \in Jobs /\ job[t] # "idle" /\ Follows(job[t], todo[t])
<1>1. job[t] \in Jobs /\ todo[t] \in Rest(job[t]) BY DEF ControlType, CallInv
<1>2. job[t] # "idle" BY <1>1 DEF Rest
<1> QED BY <1>1, <1>2, RestFollows

\* Lemma: Proceed() moves a thread along its script.
LEMMA ProceedMoves ==
  ASSUME ControlType, CallInv, NEW t \in Threads, todo[t] # <<>>, Proceed(t)
  PROVE  Moved(t)
<1>1. Follows(job[t], todo[t]) BY BusyFollows
<1>2. todo[t] \in Seq(Calls) BY DEF ControlType
<1>3. Tail(todo[t]) \in Seq(Calls) BY <1>2, HeadTailProperties
<1>4. todo' = [todo EXCEPT ![t] = Tail(todo[t])] /\ phase' = [phase EXCEPT ![t] = "call"]
  BY DEF Proceed, Enter
<1>5. todo' \in [Threads -> Seq(Calls)] /\ todo'[t] = Tail(todo[t])
      /\ \A u \in Threads \ {t} : todo'[u] = todo[u]
  BY <1>3, <1>4 DEF ControlType
<1>6. CASE Tail(todo[t]) = <<>>
  <2>1. job' = [job EXCEPT ![t] = "idle"] /\ cpu' = NoThread BY <1>6 DEF Proceed
  <2>2. job' \in [Threads -> Jobs] /\ job'[t] = "idle"
        /\ \A u \in Threads \ {t} : job'[u] = job[u]
    BY <2>1 DEF ControlType, Jobs
  <2>3. todo'[t] \in Rest(job'[t]) BY <1>5, <1>6, <2>2 DEF Rest
  <2>4. job[t] \in Works \cup {"connect"} => Head(todo[t]) \in {"schedule", "rearm"}
    BY <1>1, <1>6 DEF Follows
  <2> QED BY <1>4, <1>5, <2>1, <2>2, <2>3, <2>4 DEF Moved
<1>7. CASE Tail(todo[t]) # <<>>
  <2>1. job' = job /\ cpu' = t BY <1>7 DEF Proceed
  <2>2. todo'[t] \in Rest(job'[t]) BY <1>1, <1>5, <1>7, <2>1 DEF Follows
  <2> QED BY <1>4, <1>5, <2>1, <2>2 DEF Moved, ControlType
<1> QED BY <1>6, <1>7

\* Lemma: so does Fail().
LEMMA FailMoves ==
  ASSUME ControlType, CallInv, NEW t \in Threads, todo[t] # <<>>, Fail(t)
  PROVE  Moved(t)
<1>1. CASE job[t] \in Reads
  <2>1. /\ todo' = [todo EXCEPT ![t] = <<"refuse">>] /\ phase' = [phase EXCEPT ![t] = "call"]
        /\ cpu' = t /\ job' = job
    BY <1>1 DEF Fail, Enter
  <2>2. <<"refuse">> \in Rest(job[t]) /\ <<"refuse">> \in Seq(Calls) BY <1>1, RefuseRest
  <2> QED BY <2>1, <2>2 DEF Moved, ControlType
<1>2. CASE job[t] \notin Reads BY <1>2, ProceedMoves DEF Fail
<1> QED BY <1>1, <1>2

\* Lemma: a thread that moves on without the mutex leaves the invariant intact.
LEMMA MovedKeeps ==
  ASSUME ControlInv, NEW t \in Threads, Moved(t), Released(t),
         reads' \in [Threads -> Seq(Sensors)], copy' \in [Threads -> SensorData],
         \A u \in Threads \ {t} : reads'[u] = reads[u]
  PROVE  ControlInv'
<1> USE ThreadsAssumption
<1>p. phase' = [phase EXCEPT ![t] = "call"] /\ phase \in [Threads -> {"call", "lock", "read", "callback", "driver"}]
  BY DEF Moved, ControlInv, ControlType
<1>q. phase'[t] = "call" /\ \A u \in Threads \ {t} : phase'[u] = phase[u] BY <1>p
<1>1. ControlType'
  <2>1. mutex' \in Threads \cup {NoThread} BY DEF Released, ControlInv, ControlType
  <2>2. phase' \in [Threads -> {"call", "lock", "read", "callback", "driver"}] BY <1>p
  <2> QED BY <2>1, <2>2 DEF Moved, ControlType
<1>2. CallInv'
  <2> SUFFICES ASSUME NEW u \in Threads
              PROVE  todo'[u] \in Rest(job'[u]) /\ Inside(phase'[u], todo'[u], reads'[u])
    BY DEF CallInv
  <2>1. CASE u = t BY <1>q, <2>1 DEF Moved, Inside
  <2>2. CASE u # t
    <3>1. todo'[u] = todo[u] /\ job'[u] = job[u] /\ phase'[u] = phase[u] /\ reads'[u] = reads[u]
      BY <1>q, <2>2 DEF Moved
    <3> QED BY <3>1 DEF ControlInv, CallInv
  <2> QED BY <2>1, <2>2
<1>3. JobInv'
  <2>1. \A u \in Threads : job'[u] \in {job[u], "idle"} BY DEF Moved
  <2> QED BY <2>1 DEF JobInv, ControlInv, Threads
<1>4. MutexDiscipline'
  <2> SUFFICES ASSUME NEW u \in Threads
              PROVE  /\ phase'[u] = "read" => mutex' = u
                     /\ mutex' = u => phase'[u] \in {"read", "lock"}
    BY DEF MutexDiscipline
  <2>1. CASE u = t BY <1>q, <2>1 DEF Released
  <2>2. CASE u # t
    <3>1. phase'[u] = phase[u] BY <1>q, <2>2
    <3>2. phase[u] = "read" => mutex = u BY DEF ControlInv, MutexDiscipline
    <3>3. mutex = u => phase[u] \in {"read", "lock"} BY DEF ControlInv, MutexDiscipline
    <3> QED BY <2>2, <3>1, <3>2, <3>3 DEF Released
  <2> QED BY <2>1, <2>2
<1> QED BY <1>1, <1>2, <1>3, <1>4 DEF ControlInv

\* Lemma: so does a thread that enters a call without the mutex.
LEMMA EnterKeeps ==
  ASSUME ControlInv, NEW t \in Threads, todo[t] # <<>>, mutex # t,
         NEW p \in {"lock", "callback", "driver"}, Inside(p, todo[t], reads[t]),
         phase' = [phase EXCEPT ![t] = p], cpu' \in Threads \cup {NoThread},
         UNCHANGED <<mutex, job, todo, reads, copy>>
  PROVE  ControlInv'
<1>1. phase' \in [Threads -> {"call", "lock", "read", "callback", "driver"}] /\ phase'[t] = p
      /\ \A u \in Threads \ {t} : phase'[u] = phase[u]
  BY DEF ControlInv, ControlType
<1>2. ControlType' BY <1>1 DEF ControlInv, ControlType
<1>3. CallInv' BY <1>1 DEF ControlInv, CallInv
<1>4. JobInv' BY DEF ControlInv, JobInv
<1>5. MutexDiscipline' BY <1>1 DEF ControlInv, MutexDiscipline
<1> QED BY <1>2, <1>3, <1>4, <1>5 DEF ControlInv

\* Lemma: an unlock by the owner, or by nobody, releases the mutex.
LEMMA UnlockReleases ==
  ASSUME NEW t \in Threads, mutex \in {t, NoThread}, Unlock(t)
  PROVE  Released(t)
BY ThreadsAssumption DEF Unlock, Waiting, Released

\* Lemma: every update reads some sensors.
LEMMA SelectedReads ==
  ASSUME NEW call \in Updates PROVE Selected[call] \in Seq(Sensors) /\ Selected[call] # <<>>
<1>1. CASE call = "ALL" BY <1>1 DEF Selected, Sensors
<1>2. CASE call = "ENV_BASIC" BY <1>2 DEF Selected, Sensors
<1>3. CASE call = "TEMP_HUMIDITY" BY <1>3 DEF Selected, Sensors
<1>4. CASE call = "PRESSURE" BY <1>4 DEF Selected, Sensors
<1>5. CASE call = "AIR_QUALITY" BY <1>5 DEF Selected, Sensors
<1> QED BY <1>1, <1>2, <1>3, <1>4, <1>5 DEF Updates

\* Lemma: a thread that gets the mutex copies and moves on, or reads.
LEMMA EntersKeeps ==
  ASSUME ControlInv, current_data \in SensorData, NEW t \in Threads, todo[t] # <<>>,
         Head(todo[t]) \in Updates \cup {"get"}, mutex \in {t, NoThread}, Enters(t)
  PROVE  ControlInv'
<1> USE ThreadsAssumption
<1>1. CASE Head(todo[t]) = "get"
  <2>1. copy' = [copy EXCEPT ![t] = current_data] /\ Unlock(t) /\ Proceed(t) /\ reads' = reads
    BY <1>1 DEF Enters
  <2>2. Moved(t) BY <2>1, ProceedMoves DEF ControlInv
  <2>3. Released(t) BY <2>1, UnlockReleases
  <2>4. copy' \in [Threads -> SensorData] BY <2>1 DEF ControlInv, ControlType
  <2> QED BY <2>1, <2>2, <2>3, <2>4, MovedKeeps DEF ControlInv, ControlType
<1>2. CASE Head(todo[t]) # "get"
  <2>1. Head(todo[t]) \in Updates BY <1>2
  <2>2. /\ mutex' = t /\ reads' = [reads EXCEPT ![t] = Selected[Head(todo[t])]]
        /\ phase' = [phase EXCEPT ![t] = "read"] /\ cpu' = NoThread
        /\ UNCHANGED <<job, todo, copy>>
    BY <1>2 DEF Enters, Blocks, Enter
  <2>3. Selected[Head(todo[t])] \in Seq(Sensors) /\ Selected[Head(todo[t])] # <<>>
    BY <2>1, SelectedReads
  <2>4. phase' \in [Threads -> {"call", "lock", "read", "callback", "driver"}] /\ phase'[t] = "read"
        /\ \A u \in Threads \ {t} : phase'[u] = phase[u]
    BY <2>2 DEF ControlInv, ControlType
  <2>5. reads' \in [Threads -> Seq(Sensors)] /\ reads'[t] # <<>>
        /\ \A u \in Threads \ {t} : reads'[u] = reads[u]
    BY <2>2, <2>3 DEF ControlInv, ControlType
  <2>6. ControlType' BY <2>2, <2>4, <2>5 DEF ControlInv, ControlType
  <2>7. CallInv' BY <2>1, <2>2, <2>4, <2>5 DEF ControlInv, CallInv, Inside
  <2>8. JobInv' BY <2>2 DEF ControlInv, JobInv
  <2>9. MutexDiscipline' BY <2>2, <2>4 DEF ControlInv, MutexDiscipline
  <2> QED BY <2>6, <2>7, <2>8, <2>9 DEF ControlInv
<1> QED BY <1>1, <1>2

\* Lemma: a job that a thread may have starts at the beginning of its script.
LEMMA StartKeeps ==
  ASSUME ControlInv, NEW t \in Threads, NEW j \in Jobs, j # "idle", Start(t, j),
         \/ t = Rx /\ j \in Reads \cup {"connect", "disconnect"}
         \/ t = WorkQueue /\ j \in Works
  PROVE  ControlInv'
<1> USE ThreadsAssumption
<1>1. /\ cpu' = t /\ job[t] = "idle" /\ job' = [job EXCEPT ![t] = j]
      /\ todo' = [todo EXCEPT ![t] = Script[j]]
      /\ UNCHANGED <<mutex, phase, reads, copy>>
  BY DEF Start
<1>2. Script[j] \in Rest(j) /\ Script[j] \in Seq(Calls) BY ScriptRest
<1>3. phase[t] = "call"
  <2>1. todo[t] = <<>> BY <1>1 DEF ControlInv, CallInv, Rest
  <2> QED BY <2>1 DEF ControlInv, CallInv, Inside
<1>4. ControlType' BY <1>1, <1>2 DEF ControlInv, ControlType
<1>5. job'[t] = j /\ todo'[t] = Script[j]
      /\ \A u \in Threads \ {t} : job'[u] = job[u] /\ todo'[u] = todo[u]
  BY <1>1 DEF ControlInv, ControlType
<1>6. CallInv'
  <2> SUFFICES ASSUME NEW u \in Threads
              PROVE  todo'[u] \in Rest(job'[u]) /\ Inside(phase'[u], todo'[u], reads'[u])
    BY DEF CallInv
  <2>1. CASE u = t BY <1>1, <1>2, <1>3, <1>5, <2>1 DEF Inside
  <2>2. CASE u # t
    <3>1. todo'[u] = todo[u] /\ job'[u] = job[u] /\ phase'[u] = phase[u] /\ reads'[u] = reads[u]
      BY <1>1, <1>5, <2>2
    <3> QED BY <3>1 DEF ControlInv, CallInv
  <2> QED BY <2>1, <2>2
<1>7. JobInv' BY <1>5 DEF ControlInv, JobInv, Threads
<1>8. MutexDiscipline' BY <1>1 DEF ControlInv, MutexDiscipline
<1> QED BY <1>4, <1>6, <1>7, <1>8 DEF ControlInv

\* Lemma: a thread that is not inside a call does not have the mutex.
LEMMA NoMutex ==
  ASSUME ControlInv, NEW t \in Threads, phase[t] \in {"call", "callback", "driver"}
  PROVE  mutex # t /\ (UNCHANGED mutex => Released(t))
BY DEF ControlInv, MutexDiscipline, Released

\* Lemma: whoever moves on without touching mutex, reads and copy.
LEMMA JustMoved ==
  ASSUME ControlInv, NEW t \in Threads, todo[t] # <<>>, phase[t] \in {"call", "callback", "driver"},
         Proceed(t), UNCHANGED <<mutex, reads>>,
         UNCHANGED copy \/ copy' = [copy EXCEPT ![t] = NoData]
  PROVE  ControlInv'
<1>1. Moved(t) BY ProceedMoves DEF ControlInv
<1>2. Released(t) BY NoMutex
<1>3. NoData \in SensorData BY DEF NoData, SensorData
<1>4. copy' \in [Threads -> SensorData] BY <1>3 DEF ControlInv, ControlType
<1> QED BY <1>1, <1>2, <1>4, MovedKeeps DEF ControlInv, ControlType

-----------------------------------------------------------------------------
(* The data *)

\* Lemma: what is put into the readings keeps their type.
LEMMA SensorDataUpdates ==
  ASSUME NEW d \in SensorData, NEW s \in {"temphum", "pressure", "air"}
  PROVE  /\ Valid(d, s) \in SensorData /\ Invalid(d, s) \in SensorData
         /\ \A x \in Int, y \in Int :
              [d EXCEPT !.temperature = x, !.humidity = y] \in SensorData
         /\ \A x \in Int : [d EXCEPT !.pressure = x] \in SensorData
         /\ \A x \in Nat, y \in Nat : [d EXCEPT !.eco2 = x, !.tvoc = y] \in SensorData
BY DEF SensorData, Valid, Invalid

\* Lemma: reading a sensor keeps the type of the readings.
LEMMA ReadTypes ==
  ASSUME current_data \in SensorData,
         \/ TemperatureHumidityRead \/ PressureRead \/ AirQualityRead \/ ForBle
  PROVE  current_data' \in SensorData
<1> USE ReadingsAssumption
<1>1. CASE TemperatureHumidityRead
  <2>1. CASE current_data' = Invalid(current_data, "temphum") BY <2>1, SensorDataUpdates
  <2>2. CASE \E c \in Climates : current_data' = Valid([current_data EXCEPT
               !.temperature = c.temperature, !.humidity = c.humidity], "temphum")
    <3>1. PICK c \in Climates : current_data' = Valid([current_data EXCEPT
               !.temperature = c.temperature, !.humidity = c.humidity], "temphum")
      BY <2>2
    <3>2. c.temperature \in Int /\ c.humidity \in Int OBVIOUS
    <3>3. [current_data EXCEPT !.temperature = c.temperature, !.humidity = c.humidity] \in SensorData
      BY <3>2, SensorDataUpdates
    <3> QED BY <3>1, <3>3, SensorDataUpdates
  <2> QED BY <1>1, <2>1, <2>2 DEF TemperatureHumidityRead
<1>2. CASE PressureRead
  <2>1. CASE current_data' = Invalid(current_data, "pressure") BY <2>1, SensorDataUpdates
  <2>2. CASE \E p \in Pressures :
               current_data' = Valid([current_data EXCEPT !.pressure = p], "pressure")
    <3>1. PICK p \in Pressures :
               current_data' = Valid([current_data EXCEPT !.pressure = p], "pressure")
      BY <2>2
    <3>2. [current_data EXCEPT !.pressure = p] \in SensorData BY SensorDataUpdates
    <3> QED BY <3>1, <3>2, SensorDataUpdates
  <2> QED BY <1>2, <2>1, <2>2 DEF PressureRead
<1>3. CASE AirQualityRead
  <2> DEFINE Mixed(g) == [current_data EXCEPT
                            !.eco2 = IF Eco2Ok(g.eco2) THEN g.eco2 ELSE @,
                            !.tvoc = IF TvocOk(g.tvoc) THEN g.tvoc ELSE @]
  <2>1. CASE current_data' = Invalid(current_data, "air") BY <2>1, SensorDataUpdates
  <2>2. CASE \E g \in Gases :
               current_data' = IF Eco2Ok(g.eco2) /\ TvocOk(g.tvoc)
                                 THEN Valid(Mixed(g), "air") ELSE Invalid(Mixed(g), "air")
    <3>1. PICK g \in Gases :
               current_data' = IF Eco2Ok(g.eco2) /\ TvocOk(g.tvoc)
                                 THEN Valid(Mixed(g), "air") ELSE Invalid(Mixed(g), "air")
      BY <2>2
    <3>2. g.eco2 \in Nat /\ g.tvoc \in Nat OBVIOUS
    <3>3. Mixed(g) \in SensorData BY <3>2 DEF SensorData
    <3> HIDE DEF Mixed
    <3> QED BY <3>1, <3>3, SensorDataUpdates
  <2> QED BY <1>3, <2>1, <2>2 DEF AirQualityRead
<1>4. CASE ForBle
  <2>1. CASE UNCHANGED current_data BY <2>1
  <2>2. CASE \E g, h \in Gases : current_data' =
               Valid([current_data EXCEPT !.eco2 = g.eco2, !.tvoc = h.tvoc], "air")
    <3>1. PICK g \in Gases, h \in Gases : current_data' =
               Valid([current_data EXCEPT !.eco2 = g.eco2, !.tvoc = h.tvoc], "air")
      BY <2>2
    <3>2. g.eco2 \in Nat /\ h.tvoc \in Nat OBVIOUS
    <3>3. [current_data EXCEPT !.eco2 = g.eco2, !.tvoc = h.tvoc] \in SensorData
      BY <3>2, SensorDataUpdates
    <3> QED BY <3>1, <3>3, SensorDataUpdates
  <2> QED BY <1>4, <2>1, <2>2 DEF ForBle
<1> QED BY <1>1, <1>2, <1>3, <1>4

-----------------------------------------------------------------------------
(* Types and the mutex *)

TypeInv == ControlInv /\ DataType

\* Lemma: the type invariant is the two parts it is proved in.
LEMMA TypeParts == SmTypeOK <=> ControlType /\ DataType
BY DEF SmTypeOK, ControlType, DataType

\* Lemma: at boot main is about to run its script, and nobody else does anything.
LEMMA TypeInit == SmInit => TypeInv
<1> SUFFICES ASSUME SmInit PROVE TypeInv OBVIOUS
<1> USE ThreadsAssumption
<1>1. Script["boot"] \in Rest("boot") /\ Script["boot"] \in Seq(Calls) BY ScriptRest DEF Jobs
<1>2. NoData \in SensorData BY DEF NoData, SensorData
<1>3. \A t \in Threads : job[t] \in Jobs /\ todo[t] \in Seq(Calls) /\ todo[t] \in Rest(job[t])
  <2> SUFFICES ASSUME NEW t \in Threads
              PROVE  job[t] \in Jobs /\ todo[t] \in Seq(Calls) /\ todo[t] \in Rest(job[t])
    OBVIOUS
  <2>1. CASE t = Main
    <3>1. job[t] = "boot" /\ todo[t] = Script["boot"] BY <2>1 DEF SmInit
    <3> QED BY <1>1, <3>1 DEF Jobs
  <2>2. CASE t # Main
    <3>1. job[t] = "idle" /\ todo[t] = <<>> BY <2>2 DEF SmInit
    <3>2. <<>> \in Seq(Calls) OBVIOUS
    <3> QED BY <3>1, <3>2 DEF Jobs, Rest
  <2> QED BY <2>1, <2>2
<1>4. ControlType
  <2>1. job \in [Threads -> Jobs] /\ todo \in [Threads -> Seq(Calls)] BY <1>3 DEF SmInit
  <2>2. <<>> \in Seq(Sensors) OBVIOUS
  <2>3. reads \in [Threads -> Seq(Sensors)] BY <2>2 DEF SmInit
  <2>4. copy \in [Threads -> SensorData] BY <1>2 DEF SmInit
  <2> QED BY <2>1, <2>3, <2>4 DEF SmInit, ControlType, Threads
<1>5. CallInv BY <1>3 DEF CallInv, Inside, SmInit
<1>6. JobInv BY DEF SmInit, JobInv, Threads
<1>7. MutexDiscipline BY DEF SmInit, MutexDiscipline
<1>8. DataType
  <2>1. current_data \in SensorData BY <1>2 DEF SmInit
  <2>2. fresh \in SUBSET Sensors /\ works \subseteq {"env_work", "aq_work"} BY DEF SmInit
  <2>3. connected_count \in 0 .. 1 BY DEF SmInit
  <2>4. update_callback \in BOOLEAN /\ armed \in BOOLEAN BY DEF SmInit
  <2> QED BY <2>1, <2>2, <2>3, <2>4 DEF DataType
<1> QED BY <1>4, <1>5, <1>6, <1>7, <1>8 DEF TypeInv, ControlInv

\* Lemma: the last sensor of an update ends it; the others do not.
LEMMA SensorReadKeeps ==
  ASSUME TypeInv, NEW t \in Threads, SensorRead(t) PROVE TypeInv'
<1> USE ThreadsAssumption
<1>1. /\ phase[t] = "read" /\ cpu = NoThread
      /\ reads' = [reads EXCEPT ![t] = Tail(reads[t])]
      /\ fresh' = IF job[Rx] = "idle" THEN fresh ELSE fresh \cup {Head(reads[t])}
      /\ UNCHANGED <<update_callback, armed, connected_count, works>>
  BY DEF SensorRead, Wakes
<1>2. /\ mutex = t /\ todo[t] # <<>> /\ Head(todo[t]) \in Updates /\ reads[t] # <<>>
      /\ reads[t] \in Seq(Sensors)
  BY <1>1 DEF TypeInv, ControlInv, ControlType, CallInv, Inside, MutexDiscipline
<1>3. Head(reads[t]) \in Sensors /\ Tail(reads[t]) \in Seq(Sensors)
  BY <1>2, HeadTailProperties
<1>4. current_data' \in SensorData
  <2>1. current_data \in SensorData BY DEF TypeInv, DataType
  <2>2. CASE TemperatureHumidityRead \/ PressureRead \/ AirQualityRead BY <2>1, <2>2, ReadTypes
  <2>3. CASE UNCHANGED current_data BY <2>1, <2>3
  <2> QED BY <2>2, <2>3 DEF SensorRead
<1>5. DataType' BY <1>1, <1>3, <1>4 DEF TypeInv, DataType
<1>6. reads' \in [Threads -> Seq(Sensors)] /\ reads'[t] = Tail(reads[t])
      /\ \A u \in Threads \ {t} : reads'[u] = reads[u]
  BY <1>1, <1>3 DEF TypeInv, ControlInv, ControlType
<1>7. CASE Tail(reads[t]) # <<>>
  <2>1. UNCHANGED <<mutex, cpu, job, todo, phase, copy>> BY <1>7 DEF SensorRead
  <2>2. ControlType' BY <1>6, <2>1 DEF TypeInv, ControlInv, ControlType
  <2>3. CallInv' BY <1>6, <1>7, <2>1 DEF TypeInv, ControlInv, CallInv, Inside
  <2>4. JobInv' /\ MutexDiscipline' BY <2>1 DEF TypeInv, ControlInv, JobInv, MutexDiscipline
  <2> QED BY <1>5, <2>2, <2>3, <2>4 DEF TypeInv, ControlInv
<1>8. CASE Tail(reads[t]) = <<>> /\ ~update_callback
  <2>1. Unlock(t) /\ Proceed(t) /\ UNCHANGED copy BY <1>8 DEF SensorRead
  <2>2. Released(t) BY <1>2, <2>1, UnlockReleases
  <2>3. Moved(t) BY <1>2, <2>1, ProceedMoves DEF TypeInv, ControlInv
  <2>4. copy' \in [Threads -> SensorData] BY <2>1 DEF TypeInv, ControlInv, ControlType
  <2>5. ControlInv' BY <1>6, <2>2, <2>3, <2>4, MovedKeeps DEF TypeInv
  <2> QED BY <1>5, <2>5 DEF TypeInv
<1>9. CASE Tail(reads[t]) = <<>> /\ update_callback
  <2>1. /\ Unlock(t) /\ copy' = [copy EXCEPT ![t] = current_data']
        /\ phase' = [phase EXCEPT ![t] = "callback"] /\ cpu' = t /\ UNCHANGED <<job, todo>>
    BY <1>9 DEF SensorRead, Enter
  <2>2. Released(t) BY <1>2, <2>1, UnlockReleases
  <2>3. copy' \in [Threads -> SensorData] BY <1>4, <2>1 DEF TypeInv, ControlInv, ControlType
  <2>4. phase' \in [Threads -> {"call", "lock", "read", "callback", "driver"}]
        /\ phase'[t] = "callback" /\ \A u \in Threads \ {t} : phase'[u] = phase[u]
    BY <2>1 DEF TypeInv, ControlInv, ControlType
  <2>5. mutex' \in Threads \cup {NoThread} BY <2>2 DEF Released, TypeInv, ControlInv, ControlType
  <2>6. ControlType' BY <1>6, <2>1, <2>3, <2>4, <2>5 DEF TypeInv, ControlInv, ControlType
  <2>7. CallInv' BY <1>2, <1>6, <2>1, <2>4 DEF TypeInv, ControlInv, CallInv, Inside
  <2>8. JobInv' BY <2>1 DEF TypeInv, ControlInv, JobInv
  <2>9. MutexDiscipline'
    <3> SUFFICES ASSUME NEW u \in Threads
                PROVE  /\ phase'[u] = "read" => mutex' = u
                       /\ mutex' = u => phase'[u] \in {"read", "lock"}
      BY DEF MutexDiscipline
    <3>1. CASE u = t BY <2>2, <2>4, <3>1 DEF Released
    <3>2. CASE u # t
      <4>1. phase'[u] = phase[u] BY <2>4, <3>2
      <4>2. phase[u] # "read" BY <1>2, <3>2 DEF TypeInv, ControlInv, MutexDiscipline
      <4> QED BY <1>2, <2>2, <3>2, <4>1, <4>2 DEF Released
    <3> QED BY <3>1, <3>2
  <2> QED BY <1>5, <2>6, <2>7, <2>8, <2>9 DEF TypeInv, ControlInv
<1> QED BY <1>7, <1>8, <1>9

\* Lemma: every step keeps the types and the discipline.
LEMMA TypeStep == TypeInv /\ [SmNext]_smVars => TypeInv'
<1> SUFFICES ASSUME TypeInv, [SmNext]_smVars PROVE TypeInv' OBVIOUS
<1> USE ThreadsAssumption
<1>c. ControlInv /\ DataType /\ ControlType /\ CallInv BY DEF TypeInv, ControlInv
<1>d. current_data \in SensorData BY <1>c DEF DataType
<1>1. ASSUME NEW t \in Threads, Lock(t) PROVE TypeInv'
  <2>1. /\ phase[t] = "call" /\ cpu = t /\ todo[t] # <<>> /\ Head(todo[t]) \in Updates \cup {"get"}
        /\ UNCHANGED <<fresh, current_data, update_callback, armed, connected_count, works>>
    BY <1>1 DEF Lock, At
  <2>2. DataType' BY <1>c, <2>1 DEF DataType
  <2>3. CASE mutex = NoThread
    <3>1. Enters(t) BY <1>1, <2>3 DEF Lock
    <3> QED BY <1>c, <1>d, <2>1, <2>2, <2>3, <3>1, EntersKeeps DEF TypeInv
  <2>4. CASE mutex # NoThread
    <3>1. phase' = [phase EXCEPT ![t] = "lock"] /\ cpu' = NoThread
          /\ UNCHANGED <<mutex, job, todo, reads, copy>>
      BY <1>1, <2>4 DEF Lock, Blocks, Enter
    <3>2. mutex # t BY <1>c, <2>1, NoMutex
    <3>3. Inside("lock", todo[t], reads[t]) BY <2>1 DEF Inside
    <3>4. ControlInv' BY <1>c, <2>1, <3>1, <3>2, <3>3, EnterKeeps
    <3> QED BY <2>2, <3>4 DEF TypeInv
  <2> QED BY <2>3, <2>4
<1>2. ASSUME NEW t \in Threads, Locked(t) PROVE TypeInv'
  <2>1. /\ phase[t] = "lock" /\ mutex = t /\ Enters(t)
        /\ UNCHANGED <<fresh, current_data, update_callback, armed, connected_count, works>>
    BY <1>2 DEF Locked, Wakes
  <2>2. todo[t] # <<>> /\ Head(todo[t]) \in Updates \cup {"get"} BY <1>c, <2>1 DEF CallInv, Inside
  <2>3. ControlInv' BY <1>c, <1>d, <2>1, <2>2, EntersKeeps
  <2> QED BY <1>c, <2>1, <2>3 DEF TypeInv, DataType
<1>3. ASSUME NEW t \in Threads, GiveUp(t) PROVE TypeInv'
  <2>1. /\ phase[t] = "lock" /\ mutex # t /\ Fail(t)
        /\ UNCHANGED <<mutex, reads, copy, fresh, current_data, update_callback, armed,
                       connected_count, works>>
    BY <1>3 DEF GiveUp, Wakes
  <2>2. todo[t] # <<>> BY <1>c, <2>1 DEF CallInv, Inside
  <2>3. Moved(t) /\ Released(t) BY <1>c, <2>1, <2>2, FailMoves DEF Released
  <2>4. ControlInv' BY <1>c, <2>1, <2>3, MovedKeeps DEF ControlType
  <2> QED BY <1>c, <2>1, <2>4 DEF TypeInv, DataType
<1>4. ASSUME NEW t \in Threads, SensorRead(t) PROVE TypeInv' BY <1>4, SensorReadKeeps
<1>5. ASSUME NEW t \in Threads, DriverCall(t) PROVE TypeInv'
  <2>1. /\ phase[t] = "call" /\ todo[t] # <<>> /\ Head(todo[t]) \in DriverCalls
        /\ UNCHANGED <<mutex, reads, copy, fresh, current_data, update_callback, armed,
                       connected_count, works>>
    BY <1>5 DEF DriverCall, At, DriverCalls
  <2>2. CASE Proceed(t)
    <3>1. ControlInv' BY <1>c, <2>1, <2>2, JustMoved
    <3> QED BY <1>c, <2>1, <3>1 DEF TypeInv, DataType
  <2>3. CASE Blocks(t, "driver") /\ UNCHANGED <<job, todo>>
    <3>1. phase' = [phase EXCEPT ![t] = "driver"] /\ cpu' = NoThread BY <2>3 DEF Blocks, Enter
    <3>2. mutex # t BY <1>c, <2>1, NoMutex
    <3>3. Inside("driver", todo[t], reads[t]) BY <2>1 DEF Inside
    <3>4. ControlInv' BY <1>c, <2>1, <2>3, <3>1, <3>2, <3>3, EnterKeeps
    <3> QED BY <1>c, <2>1, <3>4 DEF TypeInv, DataType
  <2> QED BY <1>5, <2>2, <2>3 DEF DriverCall
<1>6. ASSUME NEW t \in Threads, DriverReturns(t) PROVE TypeInv'
  <2>1. /\ phase[t] = "driver" /\ Proceed(t) /\ (ForBle \/ UNCHANGED current_data)
        /\ UNCHANGED <<mutex, reads, copy, fresh, update_callback, armed, connected_count, works>>
    BY <1>6 DEF DriverReturns, Wakes
  <2>2. todo[t] # <<>> BY <1>c, <2>1 DEF CallInv, Inside
  <2>3. ControlInv' BY <1>c, <2>1, <2>2, JustMoved
  <2>4. current_data' \in SensorData BY <1>d, <2>1, ReadTypes
  <2> QED BY <1>c, <2>1, <2>3, <2>4 DEF TypeInv, DataType
<1>7. ASSUME NEW t \in Threads, Register(t) \/ Arm(t) \/ Schedule(t) \/ Rearm(t) PROVE TypeInv'
  <2>1. /\ phase[t] = "call" /\ todo[t] # <<>> /\ Proceed(t)
        /\ UNCHANGED <<mutex, reads, copy, fresh, current_data, connected_count>>
    BY <1>7 DEF Register, Arm, Schedule, Rearm, At
  <2>2. ControlInv' BY <1>c, <2>1, JustMoved
  <2>3. job[t] \in Jobs BY <1>c DEF ControlType
  <2>4. Rearm(t) => job[t] \in Works
    <3>1. ASSUME Rearm(t) PROVE job[t] \in Works
      <4>1. Head(todo[t]) = "rearm" BY <3>1 DEF Rearm, At
      <4> QED BY <1>c, <2>1, <4>1, BusyFollows DEF Follows
    <3> QED BY <3>1
  <2>5. update_callback' \in BOOLEAN /\ armed' \in BOOLEAN
    BY <1>7, <1>c DEF Register, Arm, Schedule, Rearm, DataType
  <2>6. works' \subseteq {"env_work", "aq_work"}
    BY <1>7, <1>c, <2>4 DEF Register, Arm, Schedule, Rearm, DataType, Works
  <2> QED BY <1>c, <2>1, <2>2, <2>5, <2>6 DEF TypeInv, DataType
<1>8. ASSUME NEW t \in Threads, Seed(t) PROVE TypeInv'
  <2>1. /\ phase[t] = "call" /\ todo[t] # <<>> /\ Head(todo[t]) = "seed"
        /\ phase' = [phase EXCEPT ![t] = "callback"]
        /\ UNCHANGED <<mutex, cpu, job, todo, reads, copy, fresh, current_data, update_callback,
                       armed, connected_count, works>>
    BY <1>8 DEF Seed, At, Enter
  <2>2. mutex # t BY <1>c, <2>1, NoMutex
  <2>3. Inside("callback", todo[t], reads[t]) BY <2>1 DEF Inside
  <2>4. ControlInv' BY <1>c, <2>1, <2>2, <2>3, EnterKeeps DEF ControlType
  <2> QED BY <1>c, <2>1, <2>4 DEF TypeInv, DataType
<1>9. ASSUME NEW t \in Threads, CallbackReturns(t) \/ Return(t) PROVE TypeInv'
  <2>1. /\ phase[t] \in {"call", "callback"} /\ Proceed(t)
        /\ copy' = [copy EXCEPT ![t] = NoData]
        /\ UNCHANGED <<mutex, reads, fresh, current_data, update_callback, armed,
                       connected_count, works>>
    BY <1>9 DEF CallbackReturns, Return, At
  <2>2. todo[t] # <<>> BY <1>c, <1>9 DEF CallInv, Inside, CallbackReturns, Return, At
  <2>3. ControlInv' BY <1>c, <2>1, <2>2, JustMoved
  <2> QED BY <1>c, <2>1, <2>3 DEF TypeInv, DataType
<1>10. CASE OnConnected
  <2>1. ControlInv' BY <1>c, <1>10, StartKeeps DEF OnConnected, Threads, Jobs
  <2>2. DataType' BY <1>c, <1>10 DEF OnConnected, Start, DataType, Sensors
  <2> QED BY <2>1, <2>2 DEF TypeInv
<1>11. CASE OnDisconnected
  <2>1. ControlInv' BY <1>c, <1>11, StartKeeps DEF OnDisconnected, Threads, Jobs
  <2>2. connected_count' \in 0 .. 1 BY <1>c, <1>11 DEF OnDisconnected, DataType
  <2>3. works' \subseteq {"env_work", "aq_work"} BY <1>c, <1>11 DEF OnDisconnected, DataType
  <2>4. DataType' BY <1>c, <1>11, <2>2, <2>3 DEF OnDisconnected, Start, DataType
  <2> QED BY <2>1, <2>4 DEF TypeInv
<1>12. ASSUME NEW c \in Reads, Read(c) PROVE TypeInv'
  <2>1. c \in Jobs /\ c # "idle" BY DEF Jobs, Reads
  <2>2. ControlInv' BY <1>c, <1>12, <2>1, StartKeeps DEF Read, Threads
  <2>3. DataType' BY <1>c, <1>12 DEF Read, Start, DataType, Sensors
  <2> QED BY <2>2, <2>3 DEF TypeInv
<1>13. ASSUME NEW w \in {"env_work", "aq_work"}, Work(w) PROVE TypeInv'
  <2>1. w \in Jobs /\ w # "idle" /\ w \in Works BY DEF Jobs, Works
  <2>2. WorkQueue \in Threads /\ Start(WorkQueue, w) BY <1>13 DEF Work, Threads
  <2>3. ControlInv' BY <1>c, <2>1, <2>2, StartKeeps
  <2>4. DataType' BY <1>c, <1>13 DEF Work, Start, DataType, Sensors
  <2> QED BY <2>3, <2>4 DEF TypeInv
<1>14. CASE UNCHANGED smVars
  BY <1>c, <1>14 DEF smVars, threadVars, TypeInv, ControlInv, ControlType, CallInv, JobInv,
                     MutexDiscipline, DataType
<1> QED
  BY <1>1, <1>2, <1>3, <1>4, <1>5, <1>6, <1>7, <1>8, <1>9, <1>10, <1>11, <1>12, <1>13, <1>14
  DEF SmNext, Step, Internal

\* Theorem: every variable keeps its type, for any readings, any failing sensors
\* and both builds; the client count stays 0 or 1 (sensor_manager.c:39-54).
THEOREM TypeCorrect == SmSpec => []SmTypeOK
<1>1. TypeInv => SmTypeOK BY TypeParts DEF TypeInv, ControlInv
<1> QED BY <1>1, TypeInit, TypeStep, PTL DEF SmSpec

\* Theorem: sensors are read only under the mutex, and nobody takes the mutex
\* into the callback, a driver call or idleness (sensor_manager.c:321-355,
\* 366-413: "Copy data and callback pointer under lock, call after release").
THEOREM MutexDisciplineHolds == SmSpec => []MutexDiscipline
<1>1. TypeInv => MutexDiscipline BY DEF TypeInv, ControlInv
<1> QED BY <1>1, TypeInit, TypeStep, PTL DEF SmSpec

-----------------------------------------------------------------------------
(* Gas readings *)

\* Lemma: no reading leaves the air quality bit over a bad value.
LEMMA GasRead ==
  ASSUME current_data \in SensorData, GasReadingsValid,
         \/ TemperatureHumidityRead \/ PressureRead \/ AirQualityRead \/ ForBle
  PROVE  GasReadingsValid'
<1> USE DEF SensorData, Valid, Invalid
<1>1. CASE TemperatureHumidityRead
  <2>1. CASE current_data' = Invalid(current_data, "temphum") BY <2>1 DEF GasReadingsValid
  <2>2. CASE \E c \in Climates : current_data' = Valid([current_data EXCEPT
               !.temperature = c.temperature, !.humidity = c.humidity], "temphum")
    <3>1. /\ current_data'.eco2 = current_data.eco2 /\ current_data'.tvoc = current_data.tvoc
          /\ current_data'.valid_mask = current_data.valid_mask \cup {"temphum"}
      BY <2>2
    <3> QED BY <3>1 DEF GasReadingsValid
  <2> QED BY <1>1, <2>1, <2>2 DEF TemperatureHumidityRead
<1>2. CASE PressureRead
  <2>1. CASE current_data' = Invalid(current_data, "pressure") BY <2>1 DEF GasReadingsValid
  <2>2. CASE \E p \in Pressures :
               current_data' = Valid([current_data EXCEPT !.pressure = p], "pressure")
    <3>1. /\ current_data'.eco2 = current_data.eco2 /\ current_data'.tvoc = current_data.tvoc
          /\ current_data'.valid_mask = current_data.valid_mask \cup {"pressure"}
      BY <2>2
    <3> QED BY <3>1 DEF GasReadingsValid
  <2> QED BY <1>2, <2>1, <2>2 DEF PressureRead
<1>3. CASE AirQualityRead
  <2> DEFINE Mixed(g) == [current_data EXCEPT
                            !.eco2 = IF Eco2Ok(g.eco2) THEN g.eco2 ELSE @,
                            !.tvoc = IF TvocOk(g.tvoc) THEN g.tvoc ELSE @]
  <2>1. CASE current_data' = Invalid(current_data, "air") BY <2>1 DEF GasReadingsValid
  <2>2. CASE \E g \in Gases :
               current_data' = IF Eco2Ok(g.eco2) /\ TvocOk(g.tvoc)
                                 THEN Valid(Mixed(g), "air") ELSE Invalid(Mixed(g), "air")
    <3>1. PICK g \in Gases :
               current_data' = IF Eco2Ok(g.eco2) /\ TvocOk(g.tvoc)
                                 THEN Valid(Mixed(g), "air") ELSE Invalid(Mixed(g), "air")
      BY <2>2
    <3>2. CASE Eco2Ok(g.eco2) /\ TvocOk(g.tvoc)
      <4>1. current_data'.eco2 = g.eco2 /\ current_data'.tvoc = g.tvoc BY <3>1, <3>2
      <4> QED BY <3>2, <4>1 DEF GasReadingsValid
    <3>3. CASE ~(Eco2Ok(g.eco2) /\ TvocOk(g.tvoc))
      <4>1. "air" \notin current_data'.valid_mask BY <3>1, <3>3
      <4> QED BY <4>1 DEF GasReadingsValid
    <3> QED BY <3>2, <3>3
  <2> QED BY <1>3, <2>1, <2>2 DEF AirQualityRead
<1>4. CASE ForBle
  <2>1. CASE UNCHANGED current_data BY <2>1 DEF GasReadingsValid
  <2>2. CASE \E g, h \in Gases : /\ Eco2Ok(g.eco2) /\ TvocOk(h.tvoc)
                                 /\ current_data' = Valid([current_data EXCEPT
                                      !.eco2 = g.eco2, !.tvoc = h.tvoc], "air")
    BY <2>2 DEF GasReadingsValid
  <2> QED BY <1>4, <2>1, <2>2 DEF ForBle
<1> QED BY <1>1, <1>2, <1>3, <1>4

\* Lemma: only reading a sensor changes the data.
LEMMA GasStep == TypeInv /\ GasReadingsValid /\ [SmNext]_smVars => GasReadingsValid'
<1> SUFFICES ASSUME TypeInv, GasReadingsValid, [SmNext]_smVars PROVE GasReadingsValid' OBVIOUS
<1>1. current_data \in SensorData BY DEF TypeInv, DataType
<1>2. CASE UNCHANGED current_data BY <1>2 DEF GasReadingsValid
<1>3. ASSUME NEW t \in Threads, SensorRead(t) PROVE GasReadingsValid'
  <2>1. TemperatureHumidityRead \/ PressureRead \/ AirQualityRead \/ UNCHANGED current_data
    BY <1>3 DEF SensorRead
  <2> QED BY <1>1, <1>2, <2>1, GasRead
<1>4. ASSUME NEW t \in Threads, DriverReturns(t) PROVE GasReadingsValid'
  <2>1. ForBle \/ UNCHANGED current_data BY <1>4 DEF DriverReturns
  <2> QED BY <1>1, <1>2, <2>1, GasRead
<1>5. ASSUME NEW t \in Threads,
             \/ Lock(t) \/ Locked(t) \/ GiveUp(t) \/ DriverCall(t) \/ Register(t) \/ Arm(t)
             \/ Seed(t) \/ Schedule(t) \/ Rearm(t) \/ CallbackReturns(t) \/ Return(t)
      PROVE  UNCHANGED current_data
  BY <1>5 DEF Lock, Locked, GiveUp, DriverCall, Register, Arm, Seed, Schedule, Rearm,
              CallbackReturns, Return
<1>6. ASSUME \/ OnConnected \/ OnDisconnected \/ (\E c \in Reads : Read(c))
             \/ (\E w \in {"env_work", "aq_work"} : Work(w)) \/ UNCHANGED smVars
      PROVE  UNCHANGED current_data
  BY <1>6 DEF OnConnected, OnDisconnected, Read, Work, Start, smVars
<1> QED BY <1>2, <1>3, <1>4, <1>5, <1>6 DEF SmNext, Step, Internal

\* Theorem: whenever the air quality bit is set, eCO2 and TVOC are both in the
\* sensor's range, although an update stores one good value beside an older one
\* and a BLE request writes without the mutex (sensor_manager.c:138-191, 532-572).
THEOREM GasReadingsValidHolds == SmSpec => []GasReadingsValid
<1>1. SmInit => GasReadingsValid BY DEF SmInit, NoData, GasReadingsValid
<1> QED BY <1>1, TypeInit, TypeStep, GasStep, PTL DEF SmSpec

-----------------------------------------------------------------------------
(* Timed sampling *)

\* A client is counted while its connect is handled and only after main has
\* armed the manager; without periodic sampling nothing is ever scheduled.
ClientInv ==
  /\ job[Rx] = "connect" => connected_count > 0
  /\ connected_count > 0 => armed
  /\ ~Periodic => works = {}

\* The two halves of SamplingFollowsClient.
WorkOnlyWithClient == works # {} => connected_count > 0
SamplingAlive ==
  Periodic /\ connected_count > 0 /\ job[Rx] # "connect" =>
    \A w \in {"env_work", "aq_work"} : w \in works \/ job[WorkQueue] = w

TimerInv == ClientInv /\ WorkOnlyWithClient /\ SamplingAlive

\* No connect and no work handler ends.
QuietJobs ==
  \A u \in Threads :
    job'[u] = job[u] \/ (job'[u] = "idle" /\ job[u] \notin Works \cup {"connect"})

\* Lemma: these end only with the calls that schedule the next sample.
LEMMA ProceedQuiet ==
  ASSUME TypeInv, NEW t \in Threads, todo[t] # <<>>, Proceed(t) \/ Fail(t),
         Head(todo[t]) \notin {"schedule", "rearm"}
  PROVE  QuietJobs
<1>1. Moved(t) BY ProceedMoves, FailMoves DEF TypeInv, ControlInv
<1> QED BY <1>1 DEF Moved, QuietJobs

\* Lemma: steps that end no such job and schedule nothing keep the invariant.
LEMMA QuietKeeps ==
  ASSUME TypeInv, TimerInv, QuietJobs, UNCHANGED <<connected_count, works>>, armed' \in {armed, TRUE}
  PROVE  TimerInv'
<1> USE ThreadsAssumption DEF Threads
<1>1. job'[Rx] = "connect" => job[Rx] = "connect" BY DEF QuietJobs
<1>2. job'[Rx] # "connect" => job[Rx] # "connect" BY DEF QuietJobs
<1>3. \A w \in Works : job[WorkQueue] = w => job'[WorkQueue] = w BY DEF QuietJobs
<1>4. ClientInv' BY <1>1 DEF TimerInv, ClientInv
<1>5. WorkOnlyWithClient' BY DEF TimerInv, WorkOnlyWithClient
<1>6. SamplingAlive' BY <1>2, <1>3 DEF TimerInv, SamplingAlive, Works
<1> QED BY <1>4, <1>5, <1>6 DEF TimerInv

\* Lemma: a call that is not the last one of such a job is quiet.
LEMMA QuietStep ==
  ASSUME TypeInv, NEW t \in Threads,
         \/ Lock(t) \/ Locked(t) \/ GiveUp(t) \/ SensorRead(t) \/ DriverCall(t) \/ DriverReturns(t)
         \/ Register(t) \/ Arm(t) \/ Seed(t) \/ CallbackReturns(t) \/ Return(t)
  PROVE  QuietJobs /\ UNCHANGED <<connected_count, works>> /\ armed' \in {armed, TRUE}
<1>c. \A u \in Threads : Inside(phase[u], todo[u], reads[u]) BY DEF TypeInv, ControlInv, CallInv
<1>1. UNCHANGED <<connected_count, works>> /\ armed' \in {armed, TRUE}
  BY DEF Lock, Locked, GiveUp, SensorRead, DriverCall, DriverReturns, Register, Arm, Seed,
         CallbackReturns, Return
<1>2. CASE UNCHANGED job BY <1>1, <1>2 DEF QuietJobs
<1>3. ASSUME Enters(t), todo[t] # <<>> PROVE QuietJobs
  <2>1. CASE Head(todo[t]) = "get"
    <3>1. Proceed(t) BY <1>3, <2>1 DEF Enters
    <3> QED BY <1>3, <2>1, <3>1, ProceedQuiet
  <2>2. CASE Head(todo[t]) # "get"
    <3>1. UNCHANGED job BY <1>3, <2>2 DEF Enters
    <3> QED BY <1>2, <3>1
  <2> QED BY <2>1, <2>2
<1>4. CASE Lock(t)
  <2>1. todo[t] # <<>> /\ (Enters(t) \/ UNCHANGED job) BY <1>4 DEF Lock, At
  <2> QED BY <1>1, <1>2, <1>3, <2>1
<1>5. CASE Locked(t)
  <2>1. todo[t] # <<>> /\ Enters(t) BY <1>5, <1>c DEF Locked, Wakes, Inside
  <2> QED BY <1>1, <1>3, <2>1
<1>6. CASE GiveUp(t)
  <2>1. todo[t] # <<>> /\ Head(todo[t]) \in Updates \cup {"get"} /\ Fail(t)
    BY <1>6, <1>c DEF GiveUp, Wakes, Inside
  <2> QED BY <1>1, <2>1, ProceedQuiet DEF Updates
<1>7. CASE SensorRead(t)
  <2>1. todo[t] # <<>> /\ Head(todo[t]) \in Updates /\ (Proceed(t) \/ UNCHANGED job)
    BY <1>7, <1>c DEF SensorRead, Wakes, Inside
  <2> QED BY <1>1, <1>2, <2>1, ProceedQuiet DEF Updates
<1>8. CASE DriverCall(t)
  <2>1. todo[t] # <<>> /\ Head(todo[t]) \in DriverCalls /\ (Proceed(t) \/ UNCHANGED job)
    BY <1>8 DEF DriverCall, At, DriverCalls
  <2> QED BY <1>1, <1>2, <2>1, ProceedQuiet DEF DriverCalls
<1>9. CASE DriverReturns(t)
  <2>1. todo[t] # <<>> /\ Head(todo[t]) \in DriverCalls /\ Proceed(t)
    BY <1>9, <1>c DEF DriverReturns, Wakes, Inside
  <2> QED BY <1>1, <2>1, ProceedQuiet DEF DriverCalls
<1>10. CASE Register(t) \/ Arm(t) \/ Return(t)
  <2>1. /\ todo[t] # <<>> /\ Head(todo[t]) \in {"register", "arm", "answer", "refuse"}
        /\ Proceed(t)
    BY <1>10 DEF Register, Arm, Return, At
  <2> QED BY <1>1, <2>1, ProceedQuiet
<1>11. CASE Seed(t) BY <1>1, <1>2, <1>11 DEF Seed
<1>12. CASE CallbackReturns(t)
  <2>1. todo[t] # <<>> /\ Head(todo[t]) \in Updates \cup {"seed"} /\ Proceed(t)
    BY <1>12, <1>c DEF CallbackReturns, Inside
  <2> QED BY <1>1, <2>1, ProceedQuiet DEF Updates
<1> QED BY <1>4, <1>5, <1>6, <1>7, <1>8, <1>9, <1>10, <1>11, <1>12

\* Lemma: a connect ends with both items scheduled, and for a client.
LEMMA ScheduleKeeps ==
  ASSUME TypeInv, TimerInv, NEW t \in Threads, Schedule(t) PROVE TimerInv'
<1> USE ThreadsAssumption DEF Threads
<1>1. /\ todo[t] # <<>> /\ Head(todo[t]) = "schedule" /\ Proceed(t)
      /\ works' = IF Periodic THEN {"env_work", "aq_work"} ELSE works
      /\ UNCHANGED <<armed, connected_count>>
  BY DEF Schedule, At
<1>2. job[t] = "connect" BY <1>1, BusyFollows DEF TypeInv, ControlInv, Follows
<1>3. t = Rx BY <1>2 DEF TypeInv, ControlInv, JobInv, Works
<1>4. connected_count > 0 BY <1>2, <1>3 DEF TimerInv, ClientInv
<1>5. ClientInv' BY <1>1, <1>4 DEF TimerInv, ClientInv
<1>6. WorkOnlyWithClient' BY <1>1, <1>4 DEF WorkOnlyWithClient
<1>7. SamplingAlive' BY <1>1 DEF SamplingAlive
<1> QED BY <1>5, <1>6, <1>7 DEF TimerInv

\* Lemma: a work handler ends with its item scheduled if there is a client.
LEMMA RearmKeeps ==
  ASSUME TypeInv, TimerInv, NEW t \in Threads, Rearm(t) PROVE TimerInv'
<1> USE ThreadsAssumption DEF Threads
<1>1. /\ todo[t] # <<>> /\ Head(todo[t]) = "rearm" /\ Proceed(t)
      /\ works' = IF Periodic /\ armed /\ connected_count > 0 THEN works \cup {job[t]} ELSE works
      /\ UNCHANGED <<armed, connected_count>>
  BY DEF Rearm, At
<1>2. job[t] \in Works BY <1>1, BusyFollows DEF TypeInv, ControlInv, Follows
<1>3. t = WorkQueue BY <1>2 DEF TypeInv, ControlInv, JobInv, Works, Reads
<1>4. Moved(t) BY <1>1, ProceedMoves DEF TypeInv, ControlInv
<1>5. job'[Rx] = job[Rx] BY <1>3, <1>4 DEF Moved
<1>6. ClientInv' BY <1>1, <1>5 DEF TimerInv, ClientInv
<1>7. WorkOnlyWithClient' BY <1>1 DEF TimerInv, WorkOnlyWithClient
<1>8. SamplingAlive' BY <1>1, <1>3, <1>5 DEF TimerInv, SamplingAlive, ClientInv
<1> QED BY <1>6, <1>7, <1>8 DEF TimerInv

\* Lemma: every step keeps the invariant about timed sampling.
LEMMA TimerStep == TypeInv /\ TimerInv /\ [SmNext]_smVars => TimerInv'
<1> SUFFICES ASSUME TypeInv, TimerInv, [SmNext]_smVars PROVE TimerInv' OBVIOUS
<1> USE ThreadsAssumption
<1>j. job \in [Threads -> Jobs] /\ Rx \in Threads /\ WorkQueue \in Threads
  BY DEF TypeInv, ControlInv, ControlType, Threads
<1>k. connected_count \in 0 .. 1 BY DEF TypeInv, DataType
<1>1. ASSUME NEW t \in Threads,
             \/ Lock(t) \/ Locked(t) \/ GiveUp(t) \/ SensorRead(t) \/ DriverCall(t)
             \/ DriverReturns(t) \/ Register(t) \/ Arm(t) \/ Seed(t) \/ CallbackReturns(t)
             \/ Return(t)
      PROVE  TimerInv'
  BY <1>1, QuietStep, QuietKeeps
<1>2. ASSUME NEW t \in Threads, Schedule(t) PROVE TimerInv' BY <1>2, ScheduleKeeps
<1>3. ASSUME NEW t \in Threads, Rearm(t) PROVE TimerInv' BY <1>3, RearmKeeps
<1>4. CASE OnConnected
  <2>1. /\ armed /\ connected_count = 0 /\ connected_count' = 1
        /\ job' = [job EXCEPT ![Rx] = "connect"] /\ UNCHANGED <<armed, works>>
    BY <1>4 DEF OnConnected, Start
  <2>2. job'[Rx] = "connect" BY <1>j, <2>1
  <2>3. ClientInv' BY <2>1 DEF TimerInv, ClientInv
  <2>4. WorkOnlyWithClient' BY <2>1 DEF WorkOnlyWithClient
  <2>5. SamplingAlive' BY <2>2 DEF SamplingAlive
  <2> QED BY <2>3, <2>4, <2>5 DEF TimerInv
<1>5. CASE OnDisconnected
  <2>1. /\ connected_count' = 0 /\ works' = IF Periodic THEN {} ELSE works
        /\ job' = [job EXCEPT ![Rx] = "disconnect"] /\ UNCHANGED armed
    BY <1>5, <1>k DEF OnDisconnected, Start
  <2>2. job'[Rx] = "disconnect" BY <1>j, <2>1
  <2>3. works' = {} BY <2>1 DEF TimerInv, ClientInv
  <2>4. ClientInv' BY <2>1, <2>2, <2>3 DEF ClientInv
  <2>5. WorkOnlyWithClient' BY <2>3 DEF WorkOnlyWithClient
  <2>6. SamplingAlive' BY <2>1 DEF SamplingAlive
  <2> QED BY <2>4, <2>5, <2>6 DEF TimerInv
<1>6. ASSUME NEW c \in Reads, Read(c) PROVE TimerInv'
  <2>1. /\ job[Rx] = "idle" /\ job' = [job EXCEPT ![Rx] = c]
        /\ UNCHANGED <<armed, connected_count, works>>
    BY <1>6 DEF Read, Start
  <2>2. job'[Rx] = c /\ job'[WorkQueue] = job[WorkQueue] /\ c # "connect"
    BY <1>j, <2>1 DEF Reads
  <2>3. ClientInv' BY <2>1, <2>2 DEF TimerInv, ClientInv
  <2>4. WorkOnlyWithClient' BY <2>1 DEF TimerInv, WorkOnlyWithClient
  <2>5. SamplingAlive' BY <2>1, <2>2 DEF TimerInv, SamplingAlive
  <2> QED BY <2>3, <2>4, <2>5 DEF TimerInv
<1>7. ASSUME NEW w \in {"env_work", "aq_work"}, Work(w) PROVE TimerInv'
  <2>1. /\ w \in works /\ works' = works \ {w}
        /\ job[WorkQueue] = "idle" /\ job' = [job EXCEPT ![WorkQueue] = w]
        /\ UNCHANGED <<armed, connected_count>>
    BY <1>7 DEF Work, Start
  <2>2. job'[WorkQueue] = w /\ job'[Rx] = job[Rx] BY <1>j, <2>1
  <2>3. ClientInv' BY <2>1, <2>2 DEF TimerInv, ClientInv
  <2>4. WorkOnlyWithClient' BY <2>1 DEF TimerInv, WorkOnlyWithClient
  <2>5. SamplingAlive' BY <2>1, <2>2 DEF TimerInv, SamplingAlive
  <2> QED BY <2>3, <2>4, <2>5 DEF TimerInv
<1>8. CASE UNCHANGED smVars
  BY <1>8 DEF smVars, threadVars, TimerInv, ClientInv, WorkOnlyWithClient, SamplingAlive
<1> QED BY <1>1, <1>2, <1>3, <1>4, <1>5, <1>6, <1>7, <1>8 DEF SmNext, Step, Internal

\* Lemma: at boot there is no client and nothing is scheduled.
LEMMA TimerInit == SmInit => TimerInv
BY ThreadsAssumption
DEF SmInit, TimerInv, ClientInv, WorkOnlyWithClient, SamplingAlive, Threads

\* Theorem: timed sampling is scheduled only for a client, also when a handler
\* was running while its item was cancelled, and under a client each work item is
\* scheduled or being handled, whatever failed or timed out
\* (sensor_manager.c:56-88, 472-476, 490-494).
THEOREM SamplingFollowsClientHolds == SmSpec => []SamplingFollowsClient
<1>1. TimerInv => SamplingFollowsClient
  BY DEF TimerInv, WorkOnlyWithClient, SamplingAlive, SamplingFollowsClient
<1> QED BY <1>1, TypeInit, TypeStep, TimerInit, TimerStep, PTL DEF SmSpec
-----------------------------------------------------------------------------
(* Reads of the environment *)

EnvReads == {"temperature", "humidity", "pressure"}

\* A read has its sample, is refused, or is on its way to the sensor.
FreshInv ==
  job[Rx] \in EnvReads =>
    \/ Source[job[Rx]] \in fresh
    \/ todo[Rx] = <<"refuse">>
    \/ todo[Rx] = Script[job[Rx]] /\ phase[Rx] \in {"call", "lock"}
    \/ todo[Rx] = Script[job[Rx]] /\ phase[Rx] = "read" /\ reads[Rx] = <<Source[job[Rx]]>>

\* Lemma: the first call of such a read takes the mutex for its one sensor.
LEMMA EnvScript ==
  ASSUME NEW j \in EnvReads
  PROVE  /\ Script[j] # <<>> /\ Tail(Script[j]) # <<>> /\ Script[j] # <<"answer">>
         /\ Head(Script[j]) \in Updates
         /\ Selected[Head(Script[j])] = <<Source[j]>>
<1>1. CASE j = "temperature" BY <1>1 DEF Script, Selected, Source, Updates
<1>2. CASE j = "humidity" BY <1>2 DEF Script, Selected, Source, Updates
<1>3. CASE j = "pressure" BY <1>3 DEF Script, Selected, Source, Updates
<1> QED BY <1>1, <1>2, <1>3 DEF EnvReads

\* Lemma: once the sensor has been read it stays read, until the next job.
LEMMA FreshStays ==
  ASSUME TypeInv, job'[Rx] \in {job[Rx], "idle"}, fresh \subseteq fresh',
         job[Rx] \in EnvReads => Source[job[Rx]] \in fresh
  PROVE  FreshInv'
BY DEF FreshInv, EnvReads

\* Lemma: another thread does not disturb a read.
LEMMA OthersKeepFresh ==
  ASSUME TypeInv, FreshInv, fresh \subseteq fresh',
         UNCHANGED <<job[Rx], todo[Rx], phase[Rx], reads[Rx]>>
  PROVE  FreshInv'
BY DEF FreshInv
\* Lemma: a step of one thread leaves what the others are doing alone.
LEMMA StepTouches ==
  ASSUME TypeInv, NEW t \in Threads, NEW u \in Threads \ {t}, Step(t)
  PROVE  /\ job'[u] = job[u] /\ todo'[u] = todo[u] /\ phase'[u] = phase[u]
         /\ reads'[u] = reads[u] /\ copy'[u] = copy[u] /\ fresh \subseteq fresh'
<1> DEFINE Same == /\ job'[u] = job[u] /\ todo'[u] = todo[u] /\ phase'[u] = phase[u]
                   /\ reads'[u] = reads[u] /\ copy'[u] = copy[u] /\ fresh \subseteq fresh'
<1>f. /\ DOMAIN job = Threads /\ DOMAIN todo = Threads /\ DOMAIN phase = Threads
      /\ DOMAIN reads = Threads /\ DOMAIN copy = Threads
      /\ job \in [Threads -> Jobs] /\ todo \in [Threads -> Seq(Calls)]
      /\ reads \in [Threads -> Seq(Sensors)] /\ copy \in [Threads -> SensorData]
      /\ phase \in [Threads -> {"call", "lock", "read", "callback", "driver"}]
  BY DEF TypeInv, ControlInv, ControlType
<1>p. ASSUME Proceed(t) PROVE job'[u] = job[u] /\ todo'[u] = todo[u] /\ phase'[u] = phase[u]
  BY <1>f, <1>p DEF Proceed, Enter
<1>q. ASSUME Fail(t) PROVE job'[u] = job[u] /\ todo'[u] = todo[u] /\ phase'[u] = phase[u]
  BY <1>f, <1>p, <1>q DEF Fail, Enter
<1>e. ASSUME Enters(t)
      PROVE  /\ job'[u] = job[u] /\ todo'[u] = todo[u] /\ phase'[u] = phase[u]
             /\ reads'[u] = reads[u] /\ copy'[u] = copy[u]
  BY <1>f, <1>p, <1>e DEF Enters, Blocks, Enter
<1>1. CASE Lock(t) BY <1>1, <1>f, <1>e DEF Lock, Blocks, Enter
<1>2. CASE Locked(t) BY <1>2, <1>e DEF Locked
<1>3. CASE GiveUp(t) BY <1>3, <1>q DEF GiveUp
<1>4. CASE SensorRead(t) BY <1>4, <1>f, <1>p DEF SensorRead, Enter
<1>5. CASE DriverCall(t) BY <1>5, <1>f, <1>p DEF DriverCall, Blocks, Enter
<1>6. CASE DriverReturns(t) BY <1>6, <1>p DEF DriverReturns
<1>7. CASE Register(t) \/ Arm(t) \/ Schedule(t) \/ Rearm(t)
  BY <1>7, <1>p DEF Register, Arm, Schedule, Rearm
<1>8. CASE Seed(t) BY <1>8, <1>f DEF Seed, Enter
<1>9. CASE CallbackReturns(t) \/ Return(t) BY <1>9, <1>f, <1>p DEF CallbackReturns, Return
<1> QED BY <1>1, <1>2, <1>3, <1>4, <1>5, <1>6, <1>7, <1>8, <1>9 DEF Step, Internal

\* Lemma: a step goes on with a job or ends it.
LEMMA StepJob ==
  ASSUME TypeInv, NEW t \in Threads, Step(t) PROVE job'[t] \in {job[t], "idle"}
<1>c. ControlInv /\ ControlType /\ CallInv /\ Inside(phase[t], todo[t], reads[t])
  BY DEF TypeInv, ControlInv, CallInv
<1>1. CASE UNCHANGED job BY <1>1
<1>2. CASE (Proceed(t) \/ Fail(t)) /\ todo[t] # <<>>
  BY <1>c, <1>2, ProceedMoves, FailMoves DEF Moved
<1> QED
  BY <1>c, <1>1, <1>2
  DEF Step, Internal, Lock, Locked, GiveUp, SensorRead, DriverCall, DriverReturns, Register,
      Arm, Seed, Schedule, Rearm, CallbackReturns, Return, Enters, At, Wakes, Inside

\* Lemma: a step of the thread that reads brings it nearer to its sample.
LEMMA RxKeepsFresh ==
  ASSUME TypeInv, FreshInv, Step(Rx) PROVE FreshInv'
<1> DEFINE j == job[Rx]
<1>r. Rx \in Threads BY DEF Threads
<1>c. /\ ControlInv /\ ControlType /\ CallInv /\ Inside(phase[Rx], todo[Rx], reads[Rx])
  BY <1>r DEF TypeInv, ControlInv, CallInv
<1>f. /\ job \in [Threads -> Jobs] /\ todo \in [Threads -> Seq(Calls)]
      /\ reads \in [Threads -> Seq(Sensors)]
      /\ phase \in [Threads -> {"call", "lock", "read", "callback", "driver"}]
  BY <1>c DEF ControlType
<1>n. CASE j \notin EnvReads
  <2>1. job'[Rx] \in {j, "idle"} BY <1>r, StepJob
  <2> QED BY <1>n, <2>1 DEF FreshInv, EnvReads
<1> SUFFICES ASSUME j \in EnvReads PROVE FreshInv'
  BY <1>n
<1>s. /\ Script[j] # <<>> /\ Head(Script[j]) \in Updates
      /\ Selected[Head(Script[j])] = <<Source[j]>>
  BY EnvScript
<1>k. CASE Source[j] \in fresh
  <2>1. fresh \subseteq fresh'
    BY DEF Step, Internal, Lock, Locked, GiveUp, SensorRead, DriverCall, DriverReturns, Register,
           Arm, Seed, Schedule, Rearm, CallbackReturns, Return
  <2>2. job'[Rx] \in {j, "idle"} BY <1>r, StepJob
  <2> QED BY <1>k, <2>1, <2>2, FreshStays
<1> SUFFICES ASSUME Source[j] \notin fresh PROVE FreshInv'
  BY <1>k
<1>1. CASE todo[Rx] = <<"refuse">>
  <2>1. Head(todo[Rx]) = "refuse" /\ Tail(todo[Rx]) = <<>> /\ todo[Rx] # <<>> BY <1>1
  <2>2. phase[Rx] = "call" BY <1>c, <1>f, <1>r, <2>1 DEF Inside, Updates, DriverCalls
  <2>3. Proceed(Rx)
    BY <2>1, <2>2
    DEF Step, Internal, Lock, Locked, GiveUp, SensorRead, DriverCall, DriverReturns, Register,
        Arm, Seed, Schedule, Rearm, CallbackReturns, Return, At, Wakes, Updates, DriverCalls
  <2>4. job'[Rx] = "idle" BY <1>f, <1>r, <2>1, <2>3 DEF Proceed
  <2> QED BY <2>4 DEF FreshInv, EnvReads
<1>2. CASE todo[Rx] = Script[j] /\ phase[Rx] \in {"call", "lock"}
  <2>1. todo[Rx] # <<>> /\ Head(todo[Rx]) \in Updates BY <1>2, <1>s
  <2>2. ASSUME Enters(Rx) PROVE FreshInv'
    <3>1. /\ reads' = [reads EXCEPT ![Rx] = Selected[Head(todo[Rx])]]
          /\ phase' = [phase EXCEPT ![Rx] = "read"] /\ UNCHANGED <<job, todo>>
      BY <2>1, <2>2 DEF Enters, Blocks, Enter, Updates
    <3>2. reads'[Rx] = <<Source[j]>> /\ phase'[Rx] = "read" BY <1>2, <1>s, <1>f, <1>r, <3>1
    <3> QED BY <1>2, <3>1, <3>2 DEF FreshInv
  <2>3. CASE Lock(Rx)
    <3>1. CASE Blocks(Rx, "lock") /\ UNCHANGED <<job, todo>>
      <4>1. phase'[Rx] = "lock" BY <1>f, <1>r, <3>1 DEF Blocks, Enter
      <4> QED BY <1>2, <3>1, <4>1 DEF FreshInv
    <3> QED BY <2>2, <2>3, <3>1 DEF Lock
  <2>4. CASE Locked(Rx) BY <2>2, <2>4 DEF Locked
  <2>5. CASE GiveUp(Rx)
    <3>1. Fail(Rx) /\ j \in Reads BY <2>5 DEF GiveUp, EnvReads, Reads
    <3>2. todo'[Rx] = <<"refuse">> BY <1>f, <1>r, <3>1 DEF Fail
    <3> QED BY <3>2 DEF FreshInv
  <2> QED
    BY <1>2, <2>1, <2>3, <2>4, <2>5
    DEF Step, Internal, SensorRead, DriverCall, DriverReturns, Register,
        Arm, Seed, Schedule, Rearm, CallbackReturns, Return, At, Wakes, Updates, DriverCalls
<1>3. CASE todo[Rx] = Script[j] /\ phase[Rx] = "read" /\ reads[Rx] = <<Source[j]>>
  <2>1. SensorRead(Rx)
    BY <1>3
    DEF Step, Internal, Lock, Locked, GiveUp, DriverCall, DriverReturns, Register,
        Arm, Seed, Schedule, Rearm, CallbackReturns, Return, At, Wakes
  <2>2. Head(reads[Rx]) = Source[j] /\ Tail(reads[Rx]) = <<>> BY <1>3
  <2>3. Source[j] \in fresh' BY <2>1, <2>2 DEF SensorRead, EnvReads
  <2>4. job'[Rx] \in {j, "idle"} BY <1>r, StepJob
  <2> QED BY <2>3, <2>4 DEF FreshInv, EnvReads
<1> QED BY <1>1, <1>2, <1>3 DEF FreshInv
\* Lemma: every step keeps what is said about reads of the environment.
LEMMA FreshStep == TypeInv /\ FreshInv /\ [SmNext]_smVars => FreshInv'
<1> SUFFICES ASSUME TypeInv, FreshInv, [SmNext]_smVars PROVE FreshInv' OBVIOUS
<1> USE ThreadsAssumption
<1>f. /\ Rx \in Threads /\ WorkQueue \in Threads /\ job \in [Threads -> Jobs]
      /\ todo \in [Threads -> Seq(Calls)]
  BY DEF TypeInv, ControlInv, ControlType, Threads
<1>1. ASSUME NEW t \in Threads, Step(t) PROVE FreshInv'
  <2>1. CASE t = Rx BY <1>1, <2>1, RxKeepsFresh
  <2>2. CASE t # Rx
    <3>1. Rx \in Threads \ {t} BY <1>f, <2>2
    <3> QED BY <1>1, <3>1, StepTouches, OthersKeepFresh
  <2> QED BY <2>1, <2>2
<1>2. CASE OnConnected \/ OnDisconnected
  <2>1. job' = [job EXCEPT ![Rx] = "connect"] \/ job' = [job EXCEPT ![Rx] = "disconnect"]
    BY <1>2 DEF OnConnected, OnDisconnected, Start
  <2> QED BY <1>f, <2>1 DEF FreshInv, EnvReads
<1>3. ASSUME NEW c \in Reads, Read(c) PROVE FreshInv'
  <2>1. /\ job[Rx] = "idle" /\ job' = [job EXCEPT ![Rx] = c]
        /\ todo' = [todo EXCEPT ![Rx] = Script[c]] /\ UNCHANGED phase
    BY <1>3 DEF Read, Start
  <2>2. job'[Rx] = c /\ todo'[Rx] = Script[c] BY <1>f, <2>1
  <2>3. phase[Rx] = "call"
    <3>1. todo[Rx] = <<>> /\ Inside(phase[Rx], todo[Rx], reads[Rx])
      BY <1>f, <2>1 DEF TypeInv, ControlInv, CallInv, Rest
    <3> QED BY <3>1 DEF Inside
  <2> QED BY <2>1, <2>2, <2>3 DEF FreshInv
<1>4. ASSUME NEW w \in {"env_work", "aq_work"}, Work(w) PROVE FreshInv'
  <2>1. /\ job' = [job EXCEPT ![WorkQueue] = w]
        /\ todo' = [todo EXCEPT ![WorkQueue] = Script[w]]
        /\ UNCHANGED <<phase, reads, fresh>>
    BY <1>4 DEF Work, Start
  <2>2. job'[Rx] = job[Rx] /\ todo'[Rx] = todo[Rx] BY <1>f, <2>1
  <2> QED BY <2>1, <2>2, OthersKeepFresh
<1>5. CASE UNCHANGED smVars BY <1>5 DEF smVars, threadVars, FreshInv
<1> QED BY <1>1, <1>2, <1>3, <1>4, <1>5 DEF SmNext

\* Theorem: a GATT read of an environment characteristic is answered only with a
\* sensor that was read again since the request, also when a timer's update has
\* the mutex or times the read out (ess_service.c:296-493, sensor_manager.c:357-413).
THEOREM ReadIsFreshHolds == SmSpec => []ReadIsFresh
<1>1. SmInit => FreshInv
  BY ThreadsAssumption DEF SmInit, FreshInv, EnvReads, Threads
<1>2. FreshInv => ReadIsFresh
  <2> SUFFICES ASSUME FreshInv, phase[Rx] = "call", todo[Rx] = <<"answer">>, job[Rx] \in EnvReads
              PROVE  Source[job[Rx]] \in fresh
    BY DEF ReadIsFresh, EnvReads
  <2>1. Script[job[Rx]] # <<"answer">> BY EnvScript
  <2>2. <<"answer">> # <<"refuse">> OBVIOUS
  <2> QED BY <2>1, <2>2 DEF FreshInv
<1> QED BY <1>1, <1>2, TypeInit, TypeStep, FreshStep, PTL DEF SmSpec
=============================================================================
