---------------------------- MODULE MarineJsProofs ----------------------------
(***************************************************************************)
(* Theorems about MarineJs: who holds the mutex, that a control module     *)
(* which serves calls has its Marine and its logger, and that JSON arrives *)
(* as what it stands for if the conversions do what they are to.           *)
(***************************************************************************)
EXTENDS MarineJs, TLAPS

Stages == {"none", "instantiating", "registering", "registered", "ok", "failed"}
Controls ==
    [marine : BOOLEAN, locked : BOOLEAN, poisoned : BOOLEAN, names : {{}, Modules}, panicked : BOOLEAN]
Tasks == {Register} \cup {CallOf(c) : c \in Calls}
Running ==
    [instance : Instances, task : Tasks, logging : BOOLEAN,
     told : {NotSet, "service", "console"}, logs : 0..MaxLogs]

\* A promise; what its input, values and answer may be is said below.
IsPromise(p) ==
    /\ p = [phase |-> p.phase, instance |-> p.instance, input |-> p.input,
            received |-> p.received, answer |-> p.answer]
    /\ p.phase \in {"unasked", "queued", "settled"}

Types ==
    /\ service \in Instances \cup {NotSet}
    /\ inits \in [Instances -> Stages]
    /\ control \in [Instances -> Controls]
    /\ tasks \in [Instances -> Seq(Tasks)]
    /\ running \in Running \cup {Idle}
    /\ calls = [c \in Calls |-> calls[c]]
    /\ \A c \in Calls : IsPromise(calls[c])
    /\ panics \in 0..MaxPanics

\* The mutex is held by the task that runs, or was left by a panic outside
\* of guest frames; what runs did not find it poisoned.
Mutex ==
    \A i \in Instances :
        /\ control[i].locked <=> control[i].panicked \/ running.instance = i
        /\ control[i].panicked \/ control[i].poisoned => running.instance # i

\* The tasks that are queued.
Waiting(i) == {tasks[i][k] : k \in DOMAIN tasks[i]}

\* Modules are registered at most once in a control module: there is one
\* such task, and it is queued or runs.
RegisteredOnce ==
    \A i \in Instances :
        /\ \A k, l \in DOMAIN tasks[i] : tasks[i][k] = Register /\ tasks[i][l] = Register => k = l
        /\ Register \in Waiting(i) =>
            inits[i] = "registering" /\ ~(running.instance = i /\ running.task = Register)
        /\ running.instance = i /\ running.task = Register => inits[i] = "registering"

\* A control module that the service uses has its Marine, and what runs in
\* one has its logger.
Equipped ==
    /\ service # NotSet => inits[service] = "ok"
    /\ \A i \in Instances :
        /\ inits[i] \in {"registered", "ok"} => control[i].marine
        /\ control[i].marine \/ running.instance = i => control[i].names = Modules

\* A call that is queued, or runs, was asked for, of a control module that
\* serves calls.
Asked(c) == calls[c].phase # "unasked" /\ calls[c].input \in Inputs[c]

CallsServed ==
    /\ \A i \in Instances : \A c \in Calls :
        CallOf(c) \in Waiting(i) => Asked(c) /\ control[i].marine
    /\ \A c \in Calls :
        running # Idle /\ running.task = CallOf(c) =>
            Asked(c) /\ calls[c].input.function \in DOMAIN Functions
    /\ \A c \in Calls : calls[c].answer.why # "not initialized"

\* What was told was told the service.
Told == running # Idle => running.told \in {NotSet, "service"}

JsInv ==
    Types /\ Mutex /\ RegisteredOnce /\ Equipped /\ CallsServed /\ Told

--------------------------------------------------------------------------
(* Queues and promises. *)

(* What a task is. *)
LEMMA TaskKinds ==
  /\ Register.kind = "register"
  /\ \A c \in Calls : CallOf(c).kind = "call" /\ CallOf(c).call = c /\ CallOf(c) # Register
  /\ \A t \in Tasks : t.kind = "register" => t = Register
  /\ \A t \in Tasks : t.kind = "call" => \E c \in Calls : t = CallOf(c)
<1>1. Register.kind = "register"
  BY DEF Register
<1>2. \A c \in Calls : CallOf(c).kind = "call" /\ CallOf(c).call = c
  BY DEF CallOf
<1>3. \A c \in Calls : CallOf(c) # Register
  BY <1>1, <1>2
<1> QED
  BY <1>1, <1>2, <1>3 DEF Tasks

(* The task that is taken from a queue is its first, and the others stay in
   their order. *)
LEMMA Dequeued ==
  ASSUME NEW queue \in Seq(Tasks), queue # <<>>
  PROVE  /\ Head(queue) \in Tasks /\ 1 \in DOMAIN queue /\ Head(queue) = queue[1]
         /\ Tail(queue) \in Seq(Tasks)
         /\ \A k \in DOMAIN Tail(queue) :
                k + 1 \in DOMAIN queue /\ k + 1 # 1 /\ k \in Nat /\ Tail(queue)[k] = queue[k + 1]
  OBVIOUS

(* A task that is queued is the last. *)
LEMMA Queued ==
  ASSUME NEW queue \in Seq(Tasks), NEW task \in Tasks
  PROVE  /\ Append(queue, task) \in Seq(Tasks)
         /\ \A k \in DOMAIN Append(queue, task) :
                \/ k \in DOMAIN queue /\ Append(queue, task)[k] = queue[k]
                \/ k = Len(queue) + 1 /\ Append(queue, task)[k] = task
  OBVIOUS

(* A promise that is settled has its answer, and is as it was otherwise. *)
LEMMA SettledIs ==
  ASSUME NEW p, IsPromise(p), NEW answer
  PROVE  /\ IsPromise(Settled(p, answer))
         /\ Settled(p, answer).phase = "settled"
         /\ Settled(p, answer).input = p.input
         /\ Settled(p, answer).received = p.received
         /\ Settled(p, answer).answer = answer
<1>1. DOMAIN p = {"phase", "instance", "input", "received", "answer"}
  BY DEF IsPromise
<1>2. Settled(p, answer) =
        [x \in DOMAIN p |-> IF x = "answer" THEN answer ELSE IF x = "phase" THEN "settled" ELSE p[x]]
  BY <1>1 DEF Settled
<1>3. Settled(p, answer) =
        [phase |-> "settled", instance |-> p.instance, input |-> p.input,
         received |-> p.received, answer |-> answer]
  BY <1>1, <1>2
<1> QED
  BY <1>3 DEF IsPromise

\* A promise once it is asked for, and queued.
AskedOf(p, input, instance) == [p EXCEPT !.input = input, !.instance = instance]
QueuedOf(p, input, instance) == [AskedOf(p, input, instance) EXCEPT !.phase = "queued"]

(* Asking sets who is asked for what, queueing the phase. *)
LEMMA AskedIs ==
  ASSUME NEW p, IsPromise(p), NEW input, NEW instance
  PROVE  LET asked == AskedOf(p, input, instance)
             queued == QueuedOf(p, input, instance)
         IN  /\ IsPromise(asked) /\ asked.phase = p.phase /\ asked.input = input
             /\ asked.received = p.received /\ asked.answer = p.answer
             /\ IsPromise(queued) /\ queued.phase = "queued" /\ queued.input = input
             /\ queued.received = p.received /\ queued.answer = p.answer
<1> DEFINE asked == AskedOf(p, input, instance)
           queued == QueuedOf(p, input, instance)
<1>1. DOMAIN p = {"phase", "instance", "input", "received", "answer"}
  BY DEF IsPromise
<1>2. asked = [x \in DOMAIN p |-> IF x = "instance" THEN instance
                                   ELSE IF x = "input" THEN input ELSE p[x]]
  BY <1>1 DEF AskedOf
<1>3. asked = [phase |-> p.phase, instance |-> instance, input |-> input,
               received |-> p.received, answer |-> p.answer]
  BY <1>1, <1>2
<1>4. queued = [asked EXCEPT !.phase = "queued"]
  BY DEF QueuedOf
<1> HIDE DEF asked, queued
<1>5. queued = [phase |-> "queued", instance |-> instance, input |-> input,
                received |-> p.received, answer |-> p.answer]
  BY <1>3, <1>4
<1>6. IsPromise(asked) /\ asked.phase = p.phase /\ asked.input = input
      /\ asked.received = p.received /\ asked.answer = p.answer
  BY <1>1, <1>3 DEF IsPromise
<1>7. IsPromise(queued) /\ queued.phase = "queued" /\ queued.input = input
      /\ queued.received = p.received /\ queued.answer = p.answer
  BY <1>5 DEF IsPromise
<1> QED
  BY <1>6, <1>7 DEF asked, queued

(* Actions set one promise. *)
LEMMA OnePromise ==
  ASSUME calls = [d \in Calls |-> calls[d]], \A d \in Calls : IsPromise(calls[d]),
         NEW c \in Calls, NEW p, IsPromise(p), calls' = [calls EXCEPT ![c] = p]
  PROVE  /\ calls' = [d \in Calls |-> calls'[d]]
         /\ \A d \in Calls : IsPromise(calls'[d])
         /\ calls'[c] = p
         /\ \A d \in Calls : d # c => calls'[d] = calls[d]
<1>1. \A d \in Calls : calls'[d] = IF d = c THEN p ELSE calls[d]
  OBVIOUS
<1> QED
  BY <1>1

--------------------------------------------------------------------------
(* Initial states. *)

(* Nothing was asked of anybody. *)
LEMMA JsInitial ==
  ASSUME Init
  PROVE  JsInv
<1> USE MarineJsAssumption
<1>1. /\ \A i \in Instances : control[i] = Fresh /\ inits[i] = "none" /\ tasks[i] = <<>>
      /\ \A c \in Calls : calls[c] = Unasked
  BY DEF Init
<1>2. Types
  <2>1. Fresh \in Controls
    BY DEF Fresh, Controls
  <2>2. IsPromise(Unasked)
    BY DEF IsPromise, Unasked
  <2>3. calls = [c \in Calls |-> calls[c]]
    BY DEF Init
  <2>4. inits \in [Instances -> Stages] /\ control \in [Instances -> Controls]
    BY <2>1 DEF Init, Stages
  <2>5. tasks \in [Instances -> Seq(Tasks)]
    BY DEF Init
  <2> QED
    BY <1>1, <2>2, <2>3, <2>4, <2>5 DEF Init, Types
<1>3. running = Idle /\ running.instance = NotSet
  BY DEF Init, Idle
<1>9. \A i \in Instances : DOMAIN tasks[i] = {}
  BY <1>1
<1>4. Mutex /\ RegisteredOnce /\ Equipped
  <2>1. \A i \in Instances : ~control[i].locked /\ ~control[i].panicked /\ ~control[i].marine
    BY <1>1 DEF Fresh
  <2> QED
    BY <1>1, <1>3, <1>9, <2>1 DEF Mutex, RegisteredOnce, Equipped, Waiting, Init
<1>5. CallsServed /\ Told
  <2>1. \A c \in Calls : calls[c].answer.why = "none"
    BY <1>1 DEF Unasked
  <2> QED
    BY <1>1, <1>3, <1>9, <2>1 DEF CallsServed, Told, Waiting
<1> QED
  BY <1>2, <1>4, <1>5 DEF JsInv

--------------------------------------------------------------------------
(* Steps. *)

(* A task that runs is one of a control module. *)
LEMMA RunningIs ==
  ASSUME JsInv
  PROVE  /\ running # Idle => running \in Running
         /\ \A i \in Instances : running = Idle => running.instance # i
         /\ \A i \in Instances : running.instance = i => running \in Running
         /\ \A i \in Instances :
                ~control[i].locked => ~control[i].panicked /\ running.instance # i
<1>1. running \in Running \cup {Idle}
  BY DEF JsInv, Types
<1>2. Idle.instance \notin Instances
  BY MarineJsAssumption DEF Idle
<1> QED
  BY <1>1, <1>2 DEF JsInv, Mutex

(* Taking a task from a queue leaves the others there; a registration is
   not in it twice. *)
LEMMA Taking ==
  ASSUME JsInv, NEW i \in Instances, tasks[i] # <<>>,
         tasks' = [tasks EXCEPT ![i] = Tail(@)]
  PROVE  /\ tasks' \in [Instances -> Seq(Tasks)]
         /\ Head(tasks[i]) \in Tasks /\ Head(tasks[i]) \in Waiting(i)
         /\ \A j \in Instances : Waiting(j)' \subseteq Waiting(j)
         /\ \A j \in Instances : \A k, l \in DOMAIN tasks'[j] :
                tasks'[j][k] = Register /\ tasks'[j][l] = Register => k = l
         /\ Head(tasks[i]) = Register => Register \notin Waiting(i)'
<1> USE DEF Waiting
<1>1. tasks \in [Instances -> Seq(Tasks)]
  BY DEF JsInv, Types
<1>2. tasks[i] \in Seq(Tasks)
  BY <1>1
<1>3. /\ Head(tasks[i]) \in Tasks /\ 1 \in DOMAIN tasks[i] /\ Head(tasks[i]) = tasks[i][1]
      /\ Tail(tasks[i]) \in Seq(Tasks)
      /\ \A k \in DOMAIN Tail(tasks[i]) :
             /\ k + 1 \in DOMAIN tasks[i] /\ k + 1 # 1 /\ k \in Nat
             /\ Tail(tasks[i])[k] = tasks[i][k + 1]
  BY <1>2, Dequeued
<1>4. tasks'[i] = Tail(tasks[i]) /\ \A j \in Instances : j # i => tasks'[j] = tasks[j]
  BY <1>1
<1>5. tasks' \in [Instances -> Seq(Tasks)]
  BY <1>1, <1>3
<1>6. \A j \in Instances : Waiting(j)' \subseteq Waiting(j)
  <2>1. TAKE j \in Instances
  <2>2. CASE j = i
    BY <1>3, <1>4, <2>2
  <2>3. CASE j # i
    BY <1>4, <2>3
  <2> QED
    BY <2>2, <2>3
<1>7. \A j \in Instances : \A k, l \in DOMAIN tasks[j] :
          tasks[j][k] = Register /\ tasks[j][l] = Register => k = l
  BY DEF JsInv, RegisteredOnce
<1>8. \A j \in Instances : \A k, l \in DOMAIN tasks'[j] :
          tasks'[j][k] = Register /\ tasks'[j][l] = Register => k = l
  <2>1. TAKE j \in Instances
  <2>2. CASE j = i
    <3>1. TAKE k, l \in DOMAIN tasks'[j]
    <3>2. HAVE tasks'[j][k] = Register /\ tasks'[j][l] = Register
    <3>3. k + 1 = l + 1
      BY <1>3, <1>4, <1>7, <2>2, <3>2
    <3>4. k \in Nat /\ l \in Nat
      BY <1>3, <1>4, <2>2
    <3> QED
      BY <3>3, <3>4
  <2>3. CASE j # i
    BY <1>4, <1>7, <2>3
  <2> QED
    BY <2>2, <2>3
<1>9. ASSUME Head(tasks[i]) = Register PROVE Register \notin Waiting(i)'
  <2>1. \A k \in DOMAIN tasks'[i] : tasks'[i][k] # Register
    <3>1. SUFFICES ASSUME NEW k \in DOMAIN tasks'[i], tasks'[i][k] = Register PROVE FALSE
      OBVIOUS
    <3>2. k + 1 \in DOMAIN tasks[i] /\ k + 1 # 1 /\ tasks[i][k + 1] = Register
      BY <1>3, <1>4, <3>1
    <3>3. 1 \in DOMAIN tasks[i] /\ tasks[i][1] = Register
      BY <1>3, <1>9
    <3> QED
      BY <1>7, <3>2, <3>3
  <2> QED
    BY <2>1
<1>10. Head(tasks[i]) \in Waiting(i)
  BY <1>3
<1> QED
  BY <1>3, <1>5, <1>6, <1>8, <1>9, <1>10

(* Queueing a task adds it to one queue. *)
LEMMA Queueing ==
  ASSUME JsInv, NEW i \in Instances, NEW task \in Tasks, tasks' = Enqueued(i, task)
  PROVE  /\ tasks' \in [Instances -> Seq(Tasks)]
         /\ Waiting(i)' \subseteq Waiting(i) \cup {task}
         /\ \A j \in Instances : j # i => Waiting(j)' = Waiting(j)
         /\ (task = Register => Register \notin Waiting(i)) =>
                \A j \in Instances : \A k, l \in DOMAIN tasks'[j] :
                    tasks'[j][k] = Register /\ tasks'[j][l] = Register => k = l
<1> USE DEF Waiting
<1>1. tasks \in [Instances -> Seq(Tasks)]
  BY DEF JsInv, Types
<1>2. tasks[i] \in Seq(Tasks)
  BY <1>1
<1>3. /\ Append(tasks[i], task) \in Seq(Tasks)
      /\ \A k \in DOMAIN Append(tasks[i], task) :
             \/ k \in DOMAIN tasks[i] /\ Append(tasks[i], task)[k] = tasks[i][k]
             \/ k = Len(tasks[i]) + 1 /\ Append(tasks[i], task)[k] = task
  BY <1>2, Queued
<1>4. /\ tasks'[i] = Append(tasks[i], task)
      /\ \A j \in Instances : j # i => tasks'[j] = tasks[j]
  BY <1>1 DEF Enqueued
<1>5. tasks' \in [Instances -> Seq(Tasks)]
  BY <1>1, <1>3 DEF Enqueued
<1>6. Waiting(i)' \subseteq Waiting(i) \cup {task}
  BY <1>3, <1>4
<1>7. \A j \in Instances : j # i => Waiting(j)' = Waiting(j)
  BY <1>4
<1>8. \A j \in Instances : \A k, l \in DOMAIN tasks[j] :
          tasks[j][k] = Register /\ tasks[j][l] = Register => k = l
  BY DEF JsInv, RegisteredOnce
<1>9. ASSUME task = Register => Register \notin Waiting(i),
             NEW j \in Instances, NEW k \in DOMAIN tasks'[j], NEW l \in DOMAIN tasks'[j],
             tasks'[j][k] = Register, tasks'[j][l] = Register
      PROVE  k = l
  <2>1. CASE j # i
    BY <1>4, <1>8, <1>9, <2>1
  <2>2. CASE j = i /\ task = Register
    <3>1. \A n \in DOMAIN tasks[i] : tasks[i][n] # Register
      BY <1>9, <2>2
    <3> QED
      <4>1. k = Len(tasks[i]) + 1
        BY <1>3, <1>4, <1>9, <2>2, <3>1
      <4>2. l = Len(tasks[i]) + 1
        BY <1>3, <1>4, <1>9, <2>2, <3>1
      <4> QED
        BY <4>1, <4>2
  <2>3. CASE j = i /\ task # Register
    <3>1. k \in DOMAIN tasks[i] /\ tasks[i][k] = Register
      BY <1>3, <1>4, <1>9, <2>3
    <3>2. l \in DOMAIN tasks[i] /\ tasks[i][l] = Register
      BY <1>3, <1>4, <1>9, <2>3
    <3> QED
      BY <1>8, <3>1, <3>2
  <2> QED
    BY <2>1, <2>2, <2>3
<1> QED
  BY <1>5, <1>6, <1>7, <1>9

(* init() begins. *)
LEMMA StartInitKeeps ==
  ASSUME JsInv, NEW i \in Instances, StartInit(i)
  PROVE  JsInv'
<1> USE DEF JsInv
<1>1. /\ inits[i] = "none" /\ inits' = [inits EXCEPT ![i] = "instantiating"]
      /\ UNCHANGED <<service, control, tasks, running, calls, panics>>
  BY DEF StartInit
<1>2. Types'
  BY <1>1 DEF Types, Stages
<1>3. \A j \in Instances : inits'[j] = IF j = i THEN "instantiating" ELSE inits[j]
  BY <1>1 DEF Types
<1>4. Mutex' /\ CallsServed' /\ Told'
  BY <1>1 DEF Mutex, CallsServed, Told, Waiting, Asked
<1>5. RegisteredOnce'
  BY <1>1, <1>3 DEF RegisteredOnce, Waiting
<1>6. Equipped'
  BY <1>1, <1>3 DEF Equipped, Types
<1> QED
  BY <1>2, <1>4, <1>5, <1>6

(* A control module is instantiated, and its registration queued, or not. *)
LEMMA InstantiatedKeeps ==
  ASSUME JsInv, NEW i \in Instances, Instantiated(i)
  PROVE  JsInv'
<1> USE DEF JsInv
<1>1. /\ inits[i] = "instantiating" /\ running = Idle
      /\ UNCHANGED <<service, control, running, calls, panics>>
  BY DEF Instantiated
<1>2. \/ inits' = [inits EXCEPT ![i] = "registering"] /\ tasks' = Enqueued(i, Register)
      \/ inits' = [inits EXCEPT ![i] = "failed"] /\ tasks' = tasks
  BY DEF Instantiated
<1>3. Mutex' /\ Told'
  BY <1>1 DEF Mutex, Told
<1>4. Register \notin Waiting(i) /\ running.instance # i
  BY <1>1, RunningIs DEF RegisteredOnce
<1>5. CASE inits' = [inits EXCEPT ![i] = "registering"] /\ tasks' = Enqueued(i, Register)
  <2>1. \A j \in Instances : inits'[j] = IF j = i THEN "registering" ELSE inits[j]
    BY <1>5 DEF Types
  <2>2. /\ tasks' \in [Instances -> Seq(Tasks)]
        /\ Waiting(i)' \subseteq Waiting(i) \cup {Register}
        /\ \A j \in Instances : j # i => Waiting(j)' = Waiting(j)
        /\ \A j \in Instances : \A k, l \in DOMAIN tasks'[j] :
              tasks'[j][k] = Register /\ tasks'[j][l] = Register => k = l
    BY <1>4, <1>5, Queueing DEF Tasks
  <2>3. Types'
    BY <1>1, <1>5, <2>2 DEF Types, Stages
  <2>4. RegisteredOnce'
    BY <1>1, <1>4, <2>1, <2>2 DEF RegisteredOnce
  <2>5. Equipped'
    BY <1>1, <2>1 DEF Equipped, Types
  <2>6. CallsServed'
    <3>1. \A j \in Instances : \A c \in Calls : CallOf(c) \in Waiting(j)' => CallOf(c) \in Waiting(j)
      BY <2>2, TaskKinds
    <3> QED
      BY <1>1, <3>1 DEF CallsServed, Asked
  <2> QED
    BY <1>3, <2>3, <2>4, <2>5, <2>6
<1>6. CASE inits' = [inits EXCEPT ![i] = "failed"] /\ tasks' = tasks
  <2>1. \A j \in Instances : inits'[j] = IF j = i THEN "failed" ELSE inits[j]
    BY <1>6 DEF Types
  <2>2. Types'
    BY <1>1, <1>6 DEF Types, Stages
  <2>3. \A j \in Instances : Waiting(j)' = Waiting(j)
    BY <1>6 DEF Waiting
  <2>4. RegisteredOnce'
    BY <1>1, <1>4, <1>6, <2>1, <2>3 DEF RegisteredOnce
  <2>5. Equipped'
    BY <1>1, <2>1 DEF Equipped, Types
  <2>6. CallsServed'
    BY <1>1, <2>3 DEF CallsServed, Asked
  <2> QED
    BY <1>3, <2>2, <2>4, <2>5, <2>6
<1> QED
  BY <1>2, <1>5, <1>6

(* init() ends: the service uses the control module. *)
LEMMA InitializedKeeps ==
  ASSUME JsInv, NEW i \in Instances, Initialized(i)
  PROVE  JsInv'
<1> USE DEF JsInv
<1>1. /\ inits[i] = "registered" /\ inits' = [inits EXCEPT ![i] = "ok"] /\ service' = i
      /\ UNCHANGED <<control, tasks, running, calls, panics>>
  BY DEF Initialized
<1>2. Types'
  BY <1>1 DEF Types, Stages
<1>3. \A j \in Instances : inits'[j] = IF j = i THEN "ok" ELSE inits[j]
  BY <1>1 DEF Types
<1>4. Mutex' /\ CallsServed' /\ Told'
  BY <1>1 DEF Mutex, CallsServed, Told, Waiting, Asked
<1>5. RegisteredOnce'
  BY <1>1, <1>3 DEF RegisteredOnce, Waiting
<1>6. Equipped'
  BY <1>1, <1>3 DEF Equipped
<1> QED
  BY <1>2, <1>4, <1>5, <1>6

(* terminate() *)
LEMMA TerminateKeeps ==
  ASSUME JsInv, Terminate
  PROVE  JsInv'
<1> USE DEF JsInv
<1>1. service' = NotSet /\ UNCHANGED <<inits, control, tasks, running, calls, panics>>
  BY DEF Terminate
<1>2. Types'
  BY <1>1 DEF Types
<1>3. Mutex' /\ CallsServed' /\ Told'
  BY <1>1 DEF Mutex, CallsServed, Told, Waiting, Asked
<1>4. RegisteredOnce'
  BY <1>1 DEF RegisteredOnce, Waiting
<1>5. Equipped'
  BY <1>1 DEF Equipped
<1> QED
  BY <1>2, <1>3, <1>4, <1>5

(* A call is refused, or queued at the control module of the service. *)
LEMMA CallKeeps ==
  ASSUME JsInv, NEW c \in Calls, NEW input \in Inputs[c], Call(c, input)
  PROVE  JsInv'
<1> USE DEF JsInv
<1> DEFINE asked == AskedOf(calls[c], input, service)
           queued == QueuedOf(calls[c], input, service)
           refused == Settled(asked, Error("not set"))
<1>1. /\ calls[c].phase = "unasked"
      /\ UNCHANGED <<service, inits, control, running, panics>>
  BY DEF Call
<1>2. \/ service = NotSet /\ calls' = [calls EXCEPT ![c] = refused] /\ tasks' = tasks
      \/ /\ service # NotSet /\ calls' = [calls EXCEPT ![c] = queued]
         /\ tasks' = Enqueued(service, CallOf(c))
  <2>1. IF service = NotSet
        THEN calls' = [calls EXCEPT ![c] = refused] /\ tasks' = tasks
        ELSE calls' = [calls EXCEPT ![c] = queued] /\ tasks' = Enqueued(service, CallOf(c))
    BY DEF Call, AskedOf, QueuedOf
  <2> HIDE DEF refused, queued
  <2> QED
    BY <2>1
<1>9. /\ IsPromise(asked) /\ asked.phase = "unasked" /\ asked.input = input
       /\ asked.answer = calls[c].answer
       /\ IsPromise(queued) /\ queued.phase = "queued" /\ queued.input = input
       /\ queued.answer = calls[c].answer
  <2>1. IsPromise(calls[c])
    BY DEF Types
  <2> QED
    BY <1>1, <2>1, AskedIs
<1>3. Mutex' /\ Told' /\ Equipped'
  BY <1>1 DEF Mutex, Told, Equipped
<1>4. /\ \A j \in Instances : CallOf(c) \notin Waiting(j)
      /\ running # Idle => running.task # CallOf(c)
  BY <1>1 DEF CallsServed, Asked
<1>5. CASE service = NotSet /\ calls' = [calls EXCEPT ![c] = refused] /\ tasks' = tasks
  <2>1. IsPromise(refused) /\ refused.answer.why = "not set"
    <3>1. IsPromise(asked)
      BY <1>9
    <3>2. Error("not set").why = "not set"
      BY DEF Error
    <3> QED
      <4> DEFINE answer == Error("not set")
      <4> HIDE DEF answer
      <4> HIDE DEF asked
      <4>1. IsPromise(Settled(asked, answer)) /\ Settled(asked, answer).answer = answer
        BY <3>1, SettledIs
      <4> QED
        BY <3>2, <4>1 DEF answer
  <2> HIDE DEF refused
  <2>2. /\ calls' = [d \in Calls |-> calls'[d]] /\ \A d \in Calls : IsPromise(calls'[d])
        /\ calls'[c] = refused /\ \A d \in Calls : d # c => calls'[d] = calls[d]
    BY <1>5, <2>1, OnePromise DEF Types
  <2>3. Types'
    BY <1>1, <1>5, <2>2 DEF Types
  <2>4. \A j \in Instances : Waiting(j)' = Waiting(j)
    BY <1>5 DEF Waiting
  <2>5. RegisteredOnce'
    BY <1>1, <1>5, <2>4 DEF RegisteredOnce
  <2>6. CallsServed'
    BY <1>1, <1>4, <2>1, <2>2, <2>4 DEF CallsServed, Asked
  <2> QED
    BY <1>3, <2>3, <2>5, <2>6
<1>6. CASE /\ service # NotSet /\ calls' = [calls EXCEPT ![c] = queued]
           /\ tasks' = Enqueued(service, CallOf(c))
  <2>0. PICK i \in Instances : i = service
    BY <1>6 DEF Types
  <2>1. IsPromise(queued) /\ queued.phase = "queued" /\ queued.input = input
        /\ queued.answer = calls[c].answer
    BY <1>9
  <2> HIDE DEF queued
  <2>2. /\ calls' = [d \in Calls |-> calls'[d]] /\ \A d \in Calls : IsPromise(calls'[d])
        /\ calls'[c] = queued /\ \A d \in Calls : d # c => calls'[d] = calls[d]
    BY <1>6, <2>1, OnePromise DEF Types
  <2>3. CallOf(c) \in Tasks /\ CallOf(c) # Register
    BY TaskKinds DEF Tasks
  <2>4. /\ tasks' \in [Instances -> Seq(Tasks)]
        /\ Waiting(i)' \subseteq Waiting(i) \cup {CallOf(c)}
        /\ \A j \in Instances : j # i => Waiting(j)' = Waiting(j)
        /\ \A j \in Instances : \A k, l \in DOMAIN tasks'[j] :
              tasks'[j][k] = Register /\ tasks'[j][l] = Register => k = l
    BY <1>6, <2>0, <2>3, Queueing
  <2>5. Types'
    BY <1>1, <2>2, <2>4 DEF Types
  <2>6. RegisteredOnce'
    BY <1>1, <2>3, <2>4 DEF RegisteredOnce
  <2>7. control[i].marine
    BY <1>6, <2>0, MarineJsAssumption DEF Equipped
  <2>8. CallsServed'
    <3>1. \A d \in Calls : \A j \in Instances :
            CallOf(d) \in Waiting(j)' => (d = c /\ j = i) \/ CallOf(d) \in Waiting(j)
      BY <2>4, TaskKinds
    <3>2. \A d \in Calls : Asked(d) \/ d = c => Asked(d)'
      BY <2>1, <2>2 DEF Asked
    <3>3. \A d \in Calls : calls'[d].answer.why = calls[d].answer.why
      BY <2>1, <2>2
    <3>4. \A d \in Calls : d # c => calls'[d].input = calls[d].input
      BY <2>2
    <3> QED
      BY <1>1, <1>4, <2>7, <3>1, <3>2, <3>3, <3>4 DEF CallsServed
  <2> QED
    BY <1>3, <2>5, <2>6, <2>8
<1> QED
  BY <1>2, <1>5, <1>6

(* A promise whose task finds the mutex locked is left alone. *)
LEMMA FindLockedKeeps ==
  ASSUME JsInv, NEW i \in Instances, FindLocked(i)
  PROVE  JsInv'
<1> USE DEF JsInv
<1>1. /\ tasks' = [tasks EXCEPT ![i] = Tail(@)] /\ tasks[i] # <<>>
      /\ UNCHANGED <<service, inits, control, running, calls, panics>>
  BY DEF FindLocked, Taken
<1>2. /\ tasks' \in [Instances -> Seq(Tasks)]
      /\ \A j \in Instances : Waiting(j)' \subseteq Waiting(j)
      /\ \A j \in Instances : \A k, l \in DOMAIN tasks'[j] :
            tasks'[j][k] = Register /\ tasks'[j][l] = Register => k = l
  BY <1>1, Taking
<1>3. Types'
  BY <1>1, <1>2 DEF Types
<1>4. Mutex' /\ Told' /\ Equipped'
  BY <1>1 DEF Mutex, Told, Equipped
<1>5. RegisteredOnce'
  BY <1>1, <1>2 DEF RegisteredOnce
<1>6. CallsServed'
  BY <1>1, <1>2 DEF CallsServed, Asked
<1> QED
  BY <1>3, <1>4, <1>5, <1>6

(* A task takes the mutex and runs: of the instance i, whose logger then
   knows the modules. *)
LEMMA Starting ==
  ASSUME JsInv, NEW i \in Instances, NEW task \in Tasks,
         running = Idle, ~control[i].locked, ~control[i].poisoned, Runs(i, task),
         \/ control' = Locked(i) /\ control[i].names = Modules
         \/ control' = Logged(i)
  PROVE  /\ running' \in Running /\ running'.instance = i /\ running'.task = task
         /\ control' \in [Instances -> Controls] /\ Mutex' /\ Told'
         /\ \A j \in Instances :
                /\ control'[j].marine = control[j].marine
                /\ control'[j].names = IF j = i THEN Modules ELSE control[j].names
<1> USE DEF JsInv
<1>1. running' = [instance |-> i, task |-> task, logging |-> FALSE, told |-> NotSet, logs |-> 0]
  BY DEF Runs
<1>2. running' \in Running /\ running'.instance = i /\ running'.task = task /\ running'.told = NotSet
  BY <1>1, MarineJsAssumption DEF Running
<1>3. control \in [Instances -> Controls]
  BY DEF Types
<1>4. /\ control' \in [Instances -> Controls]
      /\ \A j \in Instances :
            /\ control'[j].marine = control[j].marine
            /\ control'[j].panicked = control[j].panicked
            /\ control'[j].poisoned = control[j].poisoned
            /\ control'[j].locked = IF j = i THEN TRUE ELSE control[j].locked
            /\ control'[j].names = IF j = i THEN Modules ELSE control[j].names
  <2>1. CASE control' = Locked(i) /\ control[i].names = Modules
    BY <1>3, <2>1 DEF Locked, Controls
  <2>2. CASE control' = Logged(i)
    <3> DEFINE l == Locked(i)
    <3>1. l \in [Instances -> Controls]
      BY <1>3 DEF Locked, Controls
    <3>2. \A j \in Instances :
            /\ l[j].marine = control[j].marine /\ l[j].panicked = control[j].panicked
            /\ l[j].poisoned = control[j].poisoned
            /\ l[j].locked = IF j = i THEN TRUE ELSE control[j].locked
            /\ l[j].names = control[j].names
      BY <1>3 DEF Locked, Controls
    <3> HIDE DEF l
    <3>3. control' = [l EXCEPT ![i].names = Modules]
      BY <2>2 DEF Logged, l
    <3>4. control' \in [Instances -> Controls]
      BY <3>1, <3>3 DEF Controls
    <3>5. \A j \in Instances :
            /\ control'[j].marine = l[j].marine /\ control'[j].panicked = l[j].panicked
            /\ control'[j].poisoned = l[j].poisoned
            /\ control'[j].locked = l[j].locked
            /\ control'[j].names = IF j = i THEN Modules ELSE l[j].names
      BY <3>1, <3>3 DEF Controls
    <3> QED
      BY <3>2, <3>4, <3>5
  <2> QED
    BY <2>1, <2>2
<1>5. ~control[i].panicked
  BY DEF Mutex
<1>6. \A j \in Instances : control[j].locked <=> control[j].panicked
  <2>1. \A j \in Instances : running.instance # j
    BY RunningIs
  <2> QED
    BY <2>1 DEF Mutex
<1>7. Mutex'
  BY <1>2, <1>4, <1>5, <1>6 DEF Mutex
<1> QED
  BY <1>2, <1>4, <1>7 DEF Told

(* A registration begins, or is refused. *)
LEMMA RunRegisterKeeps ==
  ASSUME JsInv, NEW i \in Instances, RunRegister(i)
  PROVE  JsInv'
<1> USE DEF JsInv
<1>1. /\ running = Idle /\ tasks[i] # <<>> /\ Head(tasks[i]).kind = "register"
      /\ ~control[i].locked /\ tasks' = [tasks EXCEPT ![i] = Tail(@)]
      /\ UNCHANGED <<service, calls, panics>>
  BY DEF RunRegister, Taken
<1>2. \/ ~control[i].poisoned /\ control' = Logged(i) /\ Runs(i, Register) /\ inits' = inits
      \/ inits' = [inits EXCEPT ![i] = "failed"] /\ control' = control /\ running' = running
  BY DEF RunRegister
<1>3. /\ tasks' \in [Instances -> Seq(Tasks)]
      /\ Head(tasks[i]) \in Tasks /\ Head(tasks[i]) \in Waiting(i)
      /\ \A j \in Instances : Waiting(j)' \subseteq Waiting(j)
      /\ \A j \in Instances : \A k, l \in DOMAIN tasks'[j] :
            tasks'[j][k] = Register /\ tasks'[j][l] = Register => k = l
      /\ Head(tasks[i]) = Register => Register \notin Waiting(i)'
  BY <1>1, Taking
<1>4. Head(tasks[i]) = Register
  BY <1>1, <1>3, TaskKinds
<1>5. inits[i] = "registering" /\ Register \notin Waiting(i)'
  BY <1>3, <1>4 DEF RegisteredOnce
<1>6. \A j \in Instances : running.instance # j
  BY <1>1, RunningIs
<1>7. CASE ~control[i].poisoned /\ control' = Logged(i) /\ Runs(i, Register) /\ inits' = inits
  <2>1. /\ running' \in Running /\ running'.instance = i /\ running'.task = Register
        /\ control' \in [Instances -> Controls] /\ Mutex' /\ Told'
        /\ \A j \in Instances :
                /\ control'[j].marine = control[j].marine
                /\ control'[j].names = IF j = i THEN Modules ELSE control[j].names
    <3>1. Register \in Tasks
      BY DEF Tasks
    <3> QED
      BY <1>1, <1>7, <3>1, Starting
  <2>2. Types'
    BY <1>1, <1>3, <1>7, <2>1 DEF Types
  <2>3. RegisteredOnce'
    BY <1>3, <1>5, <1>7, <2>1 DEF RegisteredOnce
  <2>4. Equipped'
    BY <1>1, <1>7, <2>1 DEF Equipped
  <2>5. CallsServed'
    <3>1. \A c \in Calls : running'.task # CallOf(c)
      BY <2>1, TaskKinds
    <3>2. \A j \in Instances : control'[j].marine = control[j].marine
      BY <2>1
    <3> QED
      BY <1>1, <1>3, <3>1, <3>2 DEF CallsServed, Asked
  <2> QED
    BY <2>1, <2>2, <2>3, <2>4, <2>5
<1>8. CASE inits' = [inits EXCEPT ![i] = "failed"] /\ control' = control /\ running' = running
  <2>1. \A j \in Instances : inits'[j] = IF j = i THEN "failed" ELSE inits[j]
    BY <1>8 DEF Types
  <2>2. Types'
    BY <1>1, <1>3, <1>8 DEF Types, Stages
  <2>3. Mutex' /\ Told'
    BY <1>8 DEF Mutex, Told
  <2>4. RegisteredOnce'
    BY <1>3, <1>5, <1>6, <1>8, <2>1 DEF RegisteredOnce
  <2>5. Equipped'
    BY <1>1, <1>5, <1>8, <2>1 DEF Equipped, Types
  <2>6. CallsServed'
    BY <1>1, <1>3, <1>8 DEF CallsServed, Asked
  <2> QED
    BY <2>2, <2>3, <2>4, <2>5, <2>6
<1> QED
  BY <1>2, <1>7, <1>8

(* What becomes of a call that is taken from the queue. *)
LEMMA RunCallIs ==
  ASSUME JsInv, NEW i \in Instances, RunCall(i)
  PROVE  \E c \in Calls :
            LET args == ArgsOfJson(calls[c].input.args, Functions[calls[c].input.function].args)
            IN  /\ CallOf(c) = Head(tasks[i]) /\ CallOf(c) \in Waiting(i)
                /\ \/ /\ \E answer :
                            /\ calls' = [calls EXCEPT ![c] = Settled(@, answer)]
                            /\ \/ answer = Error("malformed parameters")
                               \/ answer = Error("lock failed")
                               \/ answer = Error("no function")
                               \/ /\ answer = Error("malformed arguments") /\ args = Unreadable
                                  /\ calls[c].input.function \in DOMAIN Functions
                      /\ UNCHANGED <<control, running>>
                   \/ /\ ~control[i].locked /\ ~control[i].poisoned
                      /\ calls[c].input.function \in DOMAIN Functions
                      /\ args # Unreadable
                      /\ calls' = [calls EXCEPT ![c].received = args]
                      /\ control' = Locked(i)
                      /\ Runs(i, CallOf(c))
<1> USE DEF JsInv
<1>1. tasks[i] # <<>> /\ Head(tasks[i]).kind = "call" /\ tasks' = [tasks EXCEPT ![i] = Tail(@)]
  BY DEF RunCall, Taken
<1>2. Head(tasks[i]) \in Tasks /\ Head(tasks[i]) \in Waiting(i)
  BY <1>1, Taking
<1>3. PICK c \in Calls : Head(tasks[i]) = CallOf(c)
  BY <1>1, <1>2, TaskKinds
<1>4. Head(tasks[i]).call = c /\ control[i].marine
  BY <1>2, <1>3, TaskKinds DEF CallsServed
<1> DEFINE args == ArgsOfJson(calls[c].input.args, Functions[calls[c].input.function].args)
           Answers(answer) == calls' = [calls EXCEPT ![c] = Settled(@, answer)]
                              /\ UNCHANGED <<control, running>>
           fn == calls[c].input.function
           ok == calls[c].input.parameters
<1>5. IF ~ok THEN Answers(Error("malformed parameters"))
      ELSE /\ ~control[i].locked
           /\ IF control[i].poisoned THEN Answers(Error("lock failed"))
              ELSE IF ~control[i].marine THEN Answers(Error("not initialized"))
              ELSE IF fn \notin DOMAIN Functions THEN Answers(Error("no function"))
              ELSE IF args = Unreadable THEN Answers(Error("malformed arguments"))
              ELSE /\ calls' = [calls EXCEPT ![c].received = args]
                   /\ control' = Locked(i)
                   /\ Runs(i, CallOf(c))
  BY <1>4 DEF RunCall
<1>6. CASE ~ok
  BY <1>2, <1>3, <1>5, <1>6
<1> DEFINE sound == ~control[i].poisoned
<1>10. CASE ok /\ ~sound
  BY <1>2, <1>3, <1>5, <1>10
<1>7. CASE ok /\ sound /\ fn \notin DOMAIN Functions
  BY <1>2, <1>3, <1>4, <1>5, <1>7
<1>8. CASE ok /\ sound /\ fn \in DOMAIN Functions /\ args = Unreadable
  BY <1>2, <1>3, <1>4, <1>5, <1>8
<1>9. CASE ok /\ sound /\ fn \in DOMAIN Functions /\ args # Unreadable
  BY <1>2, <1>3, <1>4, <1>5, <1>9
<1> QED
  BY <1>6, <1>7, <1>8, <1>9, <1>10

(* A call is refused, or its guest begins to run. *)
LEMMA RunCallKeeps ==
  ASSUME JsInv, NEW i \in Instances, RunCall(i)
  PROVE  JsInv'
<1> USE DEF JsInv
<1>1. /\ running = Idle /\ tasks[i] # <<>> /\ tasks' = [tasks EXCEPT ![i] = Tail(@)]
      /\ UNCHANGED <<service, inits, panics>>
  BY DEF RunCall, Taken
<1>2. /\ tasks' \in [Instances -> Seq(Tasks)]
      /\ \A j \in Instances : Waiting(j)' \subseteq Waiting(j)
      /\ \A j \in Instances : \A k, l \in DOMAIN tasks'[j] :
            tasks'[j][k] = Register /\ tasks'[j][l] = Register => k = l
  BY <1>1, Taking
<1>3. PICK c \in Calls :
        LET args == ArgsOfJson(calls[c].input.args, Functions[calls[c].input.function].args)
        IN  /\ CallOf(c) = Head(tasks[i]) /\ CallOf(c) \in Waiting(i)
            /\ \/ /\ \E answer :
                        /\ calls' = [calls EXCEPT ![c] = Settled(@, answer)]
                        /\ \/ answer = Error("malformed parameters")
                           \/ answer = Error("lock failed")
                           \/ answer = Error("no function")
                           \/ /\ answer = Error("malformed arguments") /\ args = Unreadable
                              /\ calls[c].input.function \in DOMAIN Functions
                  /\ UNCHANGED <<control, running>>
               \/ /\ ~control[i].locked /\ ~control[i].poisoned
                  /\ calls[c].input.function \in DOMAIN Functions
                  /\ args # Unreadable
                  /\ calls' = [calls EXCEPT ![c].received = args]
                  /\ control' = Locked(i)
                  /\ Runs(i, CallOf(c))
  BY RunCallIs
<1>4. Asked(c) /\ control[i].marine /\ CallOf(c) \in Tasks /\ CallOf(c) # Register
  BY <1>3, TaskKinds DEF CallsServed, Tasks
<1>5. IsPromise(calls[c])
  BY DEF Types
<1>6. ASSUME NEW answer, calls' = [calls EXCEPT ![c] = Settled(@, answer)],
             answer.why # "not initialized", UNCHANGED <<control, running>>
      PROVE  JsInv'
  <2>1. /\ IsPromise(Settled(calls[c], answer)) /\ Settled(calls[c], answer).phase = "settled"
        /\ Settled(calls[c], answer).input = calls[c].input
        /\ Settled(calls[c], answer).answer = answer
    BY <1>5, SettledIs
  <2>2. /\ calls' = [d \in Calls |-> calls'[d]] /\ \A d \in Calls : IsPromise(calls'[d])
        /\ calls'[c] = Settled(calls[c], answer)
        /\ \A d \in Calls : d # c => calls'[d] = calls[d]
    BY <1>6, <2>1, OnePromise DEF Types
  <2>3. Types'
    BY <1>1, <1>2, <1>6, <2>2 DEF Types
  <2>4. Mutex' /\ Told' /\ Equipped'
    BY <1>1, <1>6 DEF Mutex, Told, Equipped
  <2>5. RegisteredOnce'
    BY <1>1, <1>2, <1>6 DEF RegisteredOnce
  <2>6. CallsServed'
    <3>1. \A d \in Calls : calls'[d].input = calls[d].input /\ (Asked(d) => Asked(d)')
      BY <2>1, <2>2 DEF Asked
    <3>2. \A d \in Calls : calls'[d].answer.why # "not initialized"
      BY <1>6, <2>1, <2>2 DEF CallsServed
    <3> QED
      BY <1>2, <1>6, <3>1, <3>2 DEF CallsServed
  <2> QED
    BY <2>3, <2>4, <2>5, <2>6
<1>7. ASSUME NEW args, ~control[i].locked, ~control[i].poisoned,
             calls[c].input.function \in DOMAIN Functions,
             calls' = [calls EXCEPT ![c].received = args],
             control' = Locked(i), Runs(i, CallOf(c))
      PROVE  JsInv'
  <2>1. control[i].names = Modules
    BY <1>4 DEF Equipped
  <2>2. /\ running' \in Running /\ running'.instance = i /\ running'.task = CallOf(c)
        /\ control' \in [Instances -> Controls] /\ Mutex' /\ Told'
        /\ \A j \in Instances :
                /\ control'[j].marine = control[j].marine
                /\ control'[j].names = IF j = i THEN Modules ELSE control[j].names
    BY <1>1, <1>4, <1>7, <2>1, Starting
  <2>3. \E p : /\ IsPromise(p) /\ p.phase = calls[c].phase /\ p.input = calls[c].input
               /\ p.answer = calls[c].answer /\ calls' = [calls EXCEPT ![c] = p]
    <3> DEFINE q == calls[c]
               p == [phase |-> q.phase, instance |-> q.instance, input |-> q.input,
                     received |-> args, answer |-> q.answer]
    <3>1. calls' = [calls EXCEPT ![c] = [q EXCEPT !.received = args]]
      BY <1>7
    <3> HIDE DEF q
    <3>2. IsPromise(q)
      BY <1>5 DEF q
    <3>3. [q EXCEPT !.received = args] = p
      BY <3>2 DEF IsPromise
    <3>4. IsPromise(p)
      BY <3>2 DEF IsPromise
    <3> QED
      BY <3>1, <3>3, <3>4 DEF q
  <2>4. PICK p : /\ IsPromise(p) /\ p.phase = calls[c].phase /\ p.input = calls[c].input
                 /\ p.answer = calls[c].answer /\ calls' = [calls EXCEPT ![c] = p]
    BY <2>3
  <2>5. /\ calls' = [d \in Calls |-> calls'[d]] /\ \A d \in Calls : IsPromise(calls'[d])
        /\ calls'[c] = p /\ \A d \in Calls : d # c => calls'[d] = calls[d]
    BY <2>4, OnePromise DEF Types
  <2>6. Types'
    BY <1>1, <1>2, <2>2, <2>5 DEF Types
  <2>7. RegisteredOnce'
    BY <1>1, <1>2, <1>4, <2>2, RunningIs DEF RegisteredOnce
  <2>8. Equipped'
    BY <1>1, <2>2 DEF Equipped
  <2>9. CallsServed'
    <3>1. \A d \in Calls : calls'[d].input = calls[d].input /\ (Asked(d) => Asked(d)')
      BY <2>4, <2>5 DEF Asked
    <3>2. \A d \in Calls : calls'[d].answer.why # "not initialized"
      BY <2>4, <2>5 DEF CallsServed
    <3>3. ASSUME NEW d \in Calls, running'.task = CallOf(d) PROVE d = c
      <4>1. CallOf(d).call = d /\ CallOf(c).call = c
        BY TaskKinds
      <4>2. CallOf(d) = CallOf(c)
        BY <2>2, <3>3
      <4> QED
        BY <4>1, <4>2
    <3>4. calls'[c].input.function \in DOMAIN Functions
      BY <1>7, <3>1
    <3>5. \A j \in Instances : control'[j].marine = control[j].marine
      BY <2>2
    <3> QED
      BY <1>2, <1>4, <3>1, <3>2, <3>3, <3>4, <3>5 DEF CallsServed
  <2> QED
    BY <2>2, <2>6, <2>7, <2>8, <2>9
<1>8. /\ Error("malformed parameters").why # "not initialized"
      /\ Error("lock failed").why # "not initialized"
      /\ Error("no function").why # "not initialized"
      /\ Error("malformed arguments").why # "not initialized"
  BY DEF Error
<1> HIDE DEF JsInv
<1>9. CASE \E answer :
             /\ calls' = [calls EXCEPT ![c] = Settled(@, answer)]
             /\ \/ answer = Error("malformed parameters")
                \/ answer = Error("lock failed")
                \/ answer = Error("no function")
                \/ answer = Error("malformed arguments")
             /\ UNCHANGED <<control, running>>
  <2>1. PICK answer :
             /\ calls' = [calls EXCEPT ![c] = Settled(@, answer)]
             /\ \/ answer = Error("malformed parameters")
                \/ answer = Error("lock failed")
                \/ answer = Error("no function")
                \/ answer = Error("malformed arguments")
             /\ UNCHANGED <<control, running>>
    BY <1>9
  <2>2. answer.why # "not initialized"
    BY <1>8, <2>1
  <2> QED
    BY <1>6, <2>1, <2>2
<1> QED
  BY <1>3, <1>7, <1>9

(* A guest writes a line. *)
LEMMA GuestLogsKeeps ==
  ASSUME JsInv, NEW module \in Modules, GuestLogs(module)
  PROVE  JsInv'
<1> USE DEF JsInv
<1>1. /\ running # Idle /\ ~running.logging /\ running.logs < MaxLogs
      /\ UNCHANGED <<service, inits, control, tasks, calls, panics>>
  BY DEF GuestLogs
<1>2. running \in Running /\ running.instance \in Instances
  BY <1>1, RunningIs DEF Running
<1>3. module \in control[running.instance].names
  BY <1>2 DEF Equipped
<1>4. running' = [running EXCEPT !.logs = @ + 1, !.logging = TRUE, !.told = "service"]
  BY <1>3 DEF GuestLogs
<1>5. /\ running' \in Running /\ running'.instance = running.instance
      /\ running'.task = running.task /\ running'.told = "service"
  <2>1. /\ running = [instance |-> running.instance, task |-> running.task,
                       logging |-> running.logging, told |-> running.told, logs |-> running.logs]
        /\ running.task \in Tasks /\ running.logs \in 0..MaxLogs
    BY <1>2 DEF Running
  <2>2. running' = [instance |-> running.instance, task |-> running.task, logging |-> TRUE,
                    told |-> "service", logs |-> running.logs + 1]
    BY <1>4, <2>1
  <2>3. running.logs + 1 \in 0..MaxLogs
    BY <1>1, <2>1, MarineJsAssumption
  <2> QED
    BY <1>2, <2>1, <2>2, <2>3 DEF Running
<1>6. Types'
  BY <1>1, <1>5 DEF Types
<1>7. Mutex' /\ Told' /\ Equipped'
  BY <1>1, <1>5 DEF Mutex, Told, Equipped
<1>8. RegisteredOnce'
  BY <1>1, <1>5 DEF RegisteredOnce, Waiting
<1>9. CallsServed'
  BY <1>1, <1>5 DEF CallsServed, Waiting, Asked
<1> QED
  BY <1>5, <1>6, <1>7, <1>8, <1>9

(* The client's function returns. *)
LEMMA LogFunctionReturnsKeeps ==
  ASSUME JsInv, LogFunctionReturns
  PROVE  JsInv'
<1> USE DEF JsInv
<1>1. /\ running # Idle /\ running' = [running EXCEPT !.logging = FALSE]
      /\ UNCHANGED <<service, inits, control, tasks, calls, panics>>
  BY DEF LogFunctionReturns
<1>2. running \in Running
  BY <1>1, RunningIs
<1>3. /\ running' \in Running /\ running'.instance = running.instance
      /\ running'.task = running.task /\ running'.told = running.told
  BY <1>1, <1>2 DEF Running
<1>4. Types'
  BY <1>1, <1>3 DEF Types
<1>5. Mutex' /\ Told' /\ Equipped'
  BY <1>1, <1>3 DEF Mutex, Told, Equipped
<1>6. RegisteredOnce'
  BY <1>1, <1>3 DEF RegisteredOnce, Waiting
<1>7. CallsServed'
  BY <1>1, <1>3 DEF CallsServed, Waiting, Asked
<1> QED
  BY <1>4, <1>5, <1>6, <1>7

(* A task ends, in whatever way: the mutex of its instance is free, or the
   control module panicked. *)
Ended(i, marine, panicked) ==
    /\ control' \in [Instances -> Controls]
    /\ \A j \in Instances : j # i => control'[j] = control[j]
    /\ control'[i].marine <=> marine
    /\ control'[i].names = control[i].names
    /\ control'[i].locked <=> panicked
    /\ control'[i].panicked <=> panicked

LEMMA Ending ==
  ASSUME JsInv, NEW i \in Instances, running.instance = i, running' = Idle,
         NEW marine \in BOOLEAN, NEW panicked \in BOOLEAN, Ended(i, marine, panicked)
  PROVE  /\ Mutex' /\ Told'
         /\ \A j \in Instances :
                /\ running'.instance # j
                /\ control'[j].names = control[j].names
                /\ control'[j].marine <=> IF j = i THEN marine ELSE control[j].marine
<1>1. running' = Idle /\ \A j \in Instances : running'.instance # j
  BY MarineJsAssumption DEF Idle
<1>2. Mutex'
  BY <1>1 DEF JsInv, Mutex, Ended
<1> QED
  BY <1>1, <1>2 DEF Told, Ended

(* What the actions make of a control module whose task ends. *)
LEMMA EndingIs ==
  ASSUME JsInv, NEW i \in Instances, running.instance = i
  PROVE  /\ control' = [control EXCEPT ![i].locked = FALSE] =>
                Ended(i, control[i].marine, FALSE)
         /\ control' = [control EXCEPT ![i].locked = FALSE, ![i].marine = TRUE] =>
                Ended(i, TRUE, FALSE)
         /\ control' = [control EXCEPT ![i].panicked = TRUE] =>
                Ended(i, control[i].marine, TRUE)
         /\ \A poisons \in BOOLEAN :
                control' = [control EXCEPT ![i].locked = FALSE, ![i].poisoned = poisons] =>
                    Ended(i, control[i].marine, FALSE)
<1>1. control \in [Instances -> Controls]
  BY DEF JsInv, Types
<1>2. control[i].locked /\ ~control[i].panicked
  BY DEF JsInv, Mutex
<1>3. ASSUME control' = [control EXCEPT ![i].locked = FALSE]
      PROVE  Ended(i, control[i].marine, FALSE)
  BY <1>1, <1>2, <1>3 DEF Ended, Controls
<1>4. ASSUME control' = [control EXCEPT ![i].locked = FALSE, ![i].marine = TRUE]
      PROVE  Ended(i, TRUE, FALSE)
  <2> DEFINE freed == [control EXCEPT ![i].locked = FALSE]
  <2>1. /\ freed \in [Instances -> Controls]
        /\ \A j \in Instances : j # i => freed[j] = control[j]
        /\ freed[i].names = control[i].names
        /\ ~freed[i].locked /\ ~freed[i].panicked
    BY <1>1, <1>2 DEF Controls
  <2> HIDE DEF freed
  <2>2. control' = [freed EXCEPT ![i].marine = TRUE]
    BY <1>4 DEF freed
  <2> QED
    BY <2>1, <2>2 DEF Ended, Controls
<1>5. ASSUME control' = [control EXCEPT ![i].panicked = TRUE]
      PROVE  Ended(i, control[i].marine, TRUE)
  BY <1>1, <1>2, <1>5 DEF Ended, Controls
<1>6. ASSUME NEW poisons \in BOOLEAN,
             control' = [control EXCEPT ![i].locked = FALSE, ![i].poisoned = poisons]
      PROVE  Ended(i, control[i].marine, FALSE)
  <2> DEFINE freed == [control EXCEPT ![i].locked = FALSE]
  <2>1. /\ freed \in [Instances -> Controls]
        /\ \A j \in Instances : j # i => freed[j] = control[j]
        /\ freed[i].names = control[i].names /\ freed[i].marine = control[i].marine
        /\ ~freed[i].locked /\ ~freed[i].panicked
    BY <1>1, <1>2 DEF Controls
  <2> HIDE DEF freed
  <2>2. control' = [freed EXCEPT ![i].poisoned = poisons]
    BY <1>6 DEF freed
  <2> QED
    BY <2>1, <2>2 DEF Ended, Controls
<1> QED
  BY <1>3, <1>4, <1>5, <1>6

(* A registration ends: with a Marine, or failed. *)
LEMMA Registered ==
  ASSUME JsInv, NEW i \in Instances, running.instance = i,
         running # Idle, running.task.kind = "register", running' = Idle,
         UNCHANGED <<service, tasks, calls>>, panics' \in 0..MaxPanics,
         NEW marine \in BOOLEAN, control[i].marine => marine, Ended(i, marine, FALSE),
         NEW stage \in Stages, inits' = [inits EXCEPT ![i] = stage],
         stage = "failed" \/ (stage = "registered" /\ marine)
  PROVE  JsInv'
<1> USE DEF JsInv
<1>2. running \in Running
  BY RunningIs
<1>5. running.task = Register /\ inits[i] = "registering"
  BY <1>2, TaskKinds DEF RegisteredOnce, Running
<1>6. Register \notin Waiting(i)
  BY <1>5 DEF RegisteredOnce
<1>7. control[i].names = Modules
  BY DEF Equipped
<1>8. /\ Mutex' /\ Told'
      /\ \A j \in Instances :
            /\ running'.instance # j
            /\ control'[j].names = control[j].names
            /\ control'[j].marine <=> IF j = i THEN marine ELSE control[j].marine
  BY Ending
<1>9. \A j \in Instances : inits'[j] = IF j = i THEN stage ELSE inits[j]
  BY DEF Types
<1>10. Types'
  BY DEF Types, Ended
<1>11. RegisteredOnce'
  BY <1>6, <1>8, <1>9 DEF RegisteredOnce, Waiting
<1>12. Equipped'
  <2>1. service # NotSet => service \in Instances /\ service # i
    BY <1>5 DEF Equipped, Types
  <2>2. service' # NotSet => inits'[service'] = "ok"
    BY <1>9, <2>1 DEF Equipped
  <2>3. ASSUME NEW j \in Instances, inits'[j] \in {"registered", "ok"} PROVE control'[j].marine
    BY <1>8, <1>9, <2>3 DEF Equipped
  <2>4. ASSUME NEW j \in Instances, control'[j].marine \/ running'.instance = j
        PROVE  control'[j].names = Modules
    BY <1>7, <1>8, <2>4 DEF Equipped
  <2> QED
    BY <2>2, <2>3, <2>4 DEF Equipped
<1>13. CallsServed'
  <2>1. \A j \in Instances : control[j].marine => control'[j].marine
    BY <1>8
  <2> QED
    BY <2>1 DEF CallsServed, Waiting, Asked
<1> QED
  BY <1>8, <1>10, <1>11, <1>12, <1>13

(* A registration ends with a Marine, or fails. *)
LEMMA RegisterEndsKeeps ==
  ASSUME JsInv, RegisterEnds
  PROVE  JsInv'
<1>1. /\ running # Idle /\ running.task.kind = "register" /\ running' = Idle
      /\ UNCHANGED <<service, tasks, calls>> /\ panics' \in 0..MaxPanics
  BY DEF RegisterEnds, JsInv, Types
<1>2. PICK i \in Instances : running.instance = i
  BY <1>1, RunningIs DEF Running
<1>3. \/ /\ control' = [control EXCEPT ![i].locked = FALSE, ![i].marine = TRUE]
         /\ inits' = [inits EXCEPT ![i] = "registered"]
      \/ /\ control' = [control EXCEPT ![i].locked = FALSE]
         /\ inits' = [inits EXCEPT ![i] = "failed"]
  BY <1>2 DEF RegisterEnds, Leaves
<1>4. "registered" \in Stages /\ "failed" \in Stages
  BY DEF Stages
<1>5. CASE /\ control' = [control EXCEPT ![i].locked = FALSE, ![i].marine = TRUE]
           /\ inits' = [inits EXCEPT ![i] = "registered"]
  <2>1. Ended(i, TRUE, FALSE)
    BY <1>2, <1>5, EndingIs
  <2> QED
    BY <1>1, <1>2, <1>4, <1>5, <2>1, Registered
<1>6. CASE /\ control' = [control EXCEPT ![i].locked = FALSE]
           /\ inits' = [inits EXCEPT ![i] = "failed"]
  <2>1. control[i].marine \in BOOLEAN
    BY DEF JsInv, Types, Controls
  <2>2. Ended(i, control[i].marine, FALSE)
    BY <1>2, <1>6, EndingIs
  <2> QED
    BY <1>1, <1>2, <1>4, <1>6, <2>1, <2>2, Registered
<1> QED
  BY <1>3, <1>5, <1>6

(* A call ends with an answer. *)
LEMMA CallEndsIs ==
  ASSUME JsInv, CallEnds
  PROVE  \E c \in Calls : \E answer :
            LET function == Functions[calls[c].input.function]
                json(result) == JsonOfResults(result, function.outputs)
            IN  /\ running # Idle /\ running.task = CallOf(c)
                /\ calls' = [calls EXCEPT ![c] = Settled(@, answer)]
                /\ control' = [control EXCEPT ![running.instance].locked = FALSE]
                /\ running' = Idle
                /\ UNCHANGED <<service, inits, tasks, panics>>
                /\ \/ \E result \in function.returns :
                        \/ answer = Error("malformed result") /\ json(result) = Unreadable
                        \/ answer = [why |-> "ok", result |-> result, json |-> json(result)]
                   \/ answer = Error("failed")
<1>1. running # Idle /\ running.task.kind = "call"
  BY DEF CallEnds
<1>2. running.task \in Tasks
  BY <1>1, RunningIs DEF Running
<1>3. PICK c \in Calls : running.task = CallOf(c)
  BY <1>1, <1>2, TaskKinds
<1>4. running.task.call = c
  BY <1>3, TaskKinds
<1> DEFINE function == Functions[calls[c].input.function]
           json(result) == JsonOfResults(result, function.outputs)
           End(answer) == /\ calls' = [calls EXCEPT ![c] = Settled(@, answer)]
                          /\ control' = [control EXCEPT ![running.instance].locked = FALSE]
                          /\ running' = Idle
<1>5. /\ UNCHANGED <<service, inits, tasks, panics>>
      /\ \/ \E result \in function.returns :
                IF json(result) = Unreadable THEN End(Error("malformed result"))
                ELSE End([why |-> "ok", result |-> result, json |-> json(result)])
         \/ End(Error("failed"))
  BY <1>4 DEF CallEnds, Leaves
<1>6. CASE End(Error("failed"))
  BY <1>1, <1>3, <1>5, <1>6
<1>7. ASSUME NEW result \in function.returns,
             IF json(result) = Unreadable THEN End(Error("malformed result"))
             ELSE End([why |-> "ok", result |-> result, json |-> json(result)])
      PROVE  \E answer :
                /\ End(answer)
                /\ \/ answer = Error("malformed result") /\ json(result) = Unreadable
                   \/ answer = [why |-> "ok", result |-> result, json |-> json(result)]
  BY <1>7
<1>8. CASE \E result \in function.returns :
                IF json(result) = Unreadable THEN End(Error("malformed result"))
                ELSE End([why |-> "ok", result |-> result, json |-> json(result)])
  BY <1>1, <1>3, <1>5, <1>7, <1>8
<1> QED
  BY <1>5, <1>6, <1>8

(* The calls that are queued are still served when a task has ended. *)
LEMMA StillServed ==
  ASSUME CallsServed, tasks' = tasks, running' = Idle,
         \A i \in Instances : control[i].marine => control'[i].marine,
         \A c \in Calls : Asked(c) => Asked(c)',
         \A c \in Calls : calls'[c].answer.why # "not initialized"
  PROVE  CallsServed'
<1>1. \A i \in Instances : Waiting(i)' = Waiting(i)
  BY DEF Waiting
<1>2. ASSUME NEW i \in Instances, NEW c \in Calls, CallOf(c) \in Waiting(i)'
      PROVE  Asked(c)' /\ control'[i].marine
  <2>1. CallOf(c) \in Waiting(i)
    BY <1>1, <1>2
  <2>2. Asked(c) /\ control[i].marine
    BY <2>1 DEF CallsServed
  <2> QED
    BY <2>2
<1> QED
  BY <1>2 DEF CallsServed

(* A call ends: it is answered. *)
LEMMA Answered ==
  ASSUME JsInv, NEW i \in Instances, running.instance = i,
         running # Idle, running' = Idle, Ended(i, control[i].marine, FALSE),
         UNCHANGED <<service, inits, tasks>>, panics' \in 0..MaxPanics,
         NEW c \in Calls, NEW answer, calls' = [calls EXCEPT ![c] = Settled(@, answer)],
         answer.why # "not initialized"
  PROVE  JsInv'
<1> USE DEF JsInv
<1>3. control[i].marine \in BOOLEAN
  BY DEF Types, Controls
<1> DEFINE marine == control[i].marine
<1>4. /\ Mutex' /\ Told'
      /\ \A j \in Instances :
            /\ running'.instance # j
            /\ control'[j].names = control[j].names
            /\ control'[j].marine <=> control[j].marine
  BY <1>3, Ending
<1>5. IsPromise(calls[c])
  BY DEF Types
<1>6. /\ IsPromise(Settled(calls[c], answer)) /\ Settled(calls[c], answer).phase = "settled"
      /\ Settled(calls[c], answer).input = calls[c].input
      /\ Settled(calls[c], answer).answer = answer
  BY <1>5, SettledIs
<1>7. /\ calls' = [d \in Calls |-> calls'[d]] /\ \A d \in Calls : IsPromise(calls'[d])
      /\ calls'[c] = Settled(calls[c], answer)
      /\ \A d \in Calls : d # c => calls'[d] = calls[d]
  BY <1>6, OnePromise DEF Types
<1>8. Types'
  BY <1>3, <1>7 DEF Types, Ended
<1>9. RegisteredOnce'
  BY <1>4 DEF RegisteredOnce, Waiting
<1>10. Equipped'
  BY <1>4 DEF Equipped
<1>11. CallsServed'
  <2>1. \A d \in Calls : Asked(d) => Asked(d)'
    BY <1>6, <1>7 DEF Asked
  <2>2. \A d \in Calls : calls'[d].answer.why # "not initialized"
    BY <1>6, <1>7 DEF CallsServed
  <2> QED
    BY <1>4, <2>1, <2>2, StillServed
<1> QED
  BY <1>4, <1>8, <1>9, <1>10, <1>11

(* A call ends with what the guest returned, or fails. *)
LEMMA CallEndsKeeps ==
  ASSUME JsInv, CallEnds
  PROVE  JsInv'
<1>0. PICK c \in Calls : \E answer :
        /\ running # Idle /\ running.task = CallOf(c)
        /\ calls' = [calls EXCEPT ![c] = Settled(@, answer)]
        /\ control' = [control EXCEPT ![running.instance].locked = FALSE]
        /\ running' = Idle
        /\ UNCHANGED <<service, inits, tasks, panics>>
        /\ answer.why # "not initialized"
  <2>1. /\ Error("malformed result").why # "not initialized"
        /\ Error("failed").why # "not initialized"
    BY DEF Error
  <2>2. \A result, json : [why |-> "ok", result |-> result, json |-> json].why # "not initialized"
    OBVIOUS
  <2> QED
    BY <2>1, <2>2, CallEndsIs
<1>1. PICK answer :
        /\ running # Idle /\ running.task = CallOf(c)
        /\ calls' = [calls EXCEPT ![c] = Settled(@, answer)]
        /\ control' = [control EXCEPT ![running.instance].locked = FALSE]
        /\ running' = Idle
        /\ UNCHANGED <<service, inits, tasks, panics>>
        /\ answer.why # "not initialized"
  BY <1>0
<1>2. PICK i \in Instances : running.instance = i
  BY <1>1, RunningIs DEF Running
<1>3. Ended(i, control[i].marine, FALSE)
  BY <1>1, <1>2, EndingIs
<1>4. panics' \in 0..MaxPanics
  BY <1>1 DEF JsInv, Types
<1> QED
  BY <1>1, <1>2, <1>3, <1>4, Answered

(* A control module panics below guest frames: its mutex is free, and what
   it did has failed. *)
LEMMA GuestPanicsKeeps ==
  ASSUME JsInv, GuestPanics
  PROVE  JsInv'
<1>1. /\ running # Idle /\ panics < MaxPanics /\ panics' = panics + 1 /\ running' = Idle
      /\ UNCHANGED <<service, tasks>>
  BY DEF GuestPanics
<1>2. running \in Running
  BY <1>1, RunningIs
<1>3. PICK i \in Instances : running.instance = i
  BY <1>2 DEF Running
<1>4. \E poisons \in BOOLEAN :
        control' = [control EXCEPT ![i].locked = FALSE, ![i].poisoned = poisons]
  BY <1>3 DEF GuestPanics
<1>5. control[i].marine \in BOOLEAN /\ Ended(i, control[i].marine, FALSE)
  BY <1>3, <1>4, EndingIs DEF JsInv, Types, Controls
<1>6. panics' \in 0..MaxPanics
  BY <1>1, MarineJsAssumption DEF JsInv, Types
<1>7. CASE /\ running.task.kind = "register"
           /\ inits' = [inits EXCEPT ![i] = "failed"] /\ UNCHANGED calls
  BY <1>1, <1>3, <1>5, <1>6, <1>7, Registered DEF Stages
<1>8. CASE /\ running.task.kind = "call"
           /\ calls' = [calls EXCEPT ![running.task.call] = Settled(@, Error("failed"))]
           /\ UNCHANGED inits
  <2>1. PICK c \in Calls : running.task = CallOf(c)
    BY <1>2, <1>8, TaskKinds DEF Running
  <2>2. calls' = [calls EXCEPT ![c] = Settled(@, Error("failed"))]
    BY <1>8, <2>1, TaskKinds
  <2>3. Error("failed").why # "not initialized"
    BY DEF Error
  <2> QED
    BY <1>1, <1>3, <1>5, <1>6, <1>8, <2>2, <2>3, Answered
<1> QED
  BY <1>3, <1>7, <1>8 DEF GuestPanics

(* A control module panics outside of guest frames: its mutex stays locked. *)
LEMMA ControlPanicsKeeps ==
  ASSUME JsInv, ControlPanics
  PROVE  JsInv'
<1> USE DEF JsInv
<1>1. /\ running # Idle /\ panics < MaxPanics /\ panics' = panics + 1 /\ running' = Idle
      /\ control' = [control EXCEPT ![running.instance].panicked = TRUE]
      /\ UNCHANGED <<service, inits, tasks, calls>>
  BY DEF ControlPanics, Panicked
<1>2. PICK i \in Instances : running.instance = i
  BY <1>1, RunningIs DEF Running
<1>3. control[i].marine \in BOOLEAN /\ Ended(i, control[i].marine, TRUE)
  BY <1>1, <1>2, EndingIs DEF Types, Controls
<1>4. /\ Mutex' /\ Told'
      /\ \A j \in Instances :
            /\ running'.instance # j
            /\ control'[j].names = control[j].names
            /\ control'[j].marine <=> control[j].marine
  BY <1>1, <1>2, <1>3, Ending
<1>5. Types'
  BY <1>1, <1>3, MarineJsAssumption DEF Types, Ended
<1>6. RegisteredOnce'
  BY <1>1, <1>4 DEF RegisteredOnce, Waiting
<1>7. Equipped'
  BY <1>1, <1>4 DEF Equipped
<1>8. CallsServed'
  <2>1. \A c \in Calls : Asked(c) => Asked(c)'
    BY <1>1 DEF Asked
  <2>2. \A c \in Calls : calls'[c].answer.why # "not initialized"
    BY <1>1 DEF CallsServed
  <2> QED
    BY <1>1, <1>4, <2>1, <2>2, StillServed
<1> QED
  BY <1>4, <1>5, <1>6, <1>7, <1>8

(* JsInv is inductive. *)
LEMMA JsStep ==
  ASSUME JsInv, [Next]_vars
  PROVE  JsInv'
<1>1. CASE UNCHANGED vars
  <2>1. UNCHANGED <<service, inits, control, tasks, running, calls, panics>>
    BY <1>1 DEF vars
  <2>2. Types'
    BY <2>1 DEF JsInv, Types
  <2>3. Mutex' /\ Equipped' /\ Told'
    BY <2>1 DEF JsInv, Mutex, Equipped, Told
  <2>4. RegisteredOnce'
    BY <2>1 DEF JsInv, RegisteredOnce, Waiting
  <2>5. CallsServed'
    BY <2>1 DEF JsInv, CallsServed, Waiting, Asked
  <2> QED
    BY <2>2, <2>3, <2>4, <2>5 DEF JsInv
<1>2. ASSUME NEW i \in Instances,
             StartInit(i) \/ Instantiated(i) \/ Initialized(i)
             \/ FindLocked(i) \/ RunRegister(i) \/ RunCall(i)
      PROVE  JsInv'
  BY <1>2, StartInitKeeps, InstantiatedKeeps, InitializedKeeps,
     FindLockedKeeps, RunRegisterKeeps, RunCallKeeps
<1>3. CASE Terminate
  BY <1>3, TerminateKeeps
<1>4. ASSUME NEW c \in Calls, NEW input \in Inputs[c], Call(c, input)
      PROVE  JsInv'
  BY <1>4, CallKeeps
<1>5. ASSUME NEW module \in Modules, GuestLogs(module)
      PROVE  JsInv'
  BY <1>5, GuestLogsKeeps
<1>6. CASE LogFunctionReturns
  BY <1>6, LogFunctionReturnsKeeps
<1>7. CASE RegisterEnds
  BY <1>7, RegisterEndsKeeps
<1>8. CASE CallEnds
  BY <1>8, CallEndsKeeps
<1>9. CASE ControlPanics
  BY <1>9, ControlPanicsKeeps
<1>10. CASE GuestPanics
  BY <1>10, GuestPanicsKeeps
<1> QED
  BY <1>1, <1>2, <1>3, <1>4, <1>5, <1>6, <1>7, <1>8, <1>9, <1>10 DEF Next

--------------------------------------------------------------------------
(* Theorems. *)

(* The inductive invariant holds: the mutex belongs to the task that runs,
   which did not find it poisoned, or was left locked by a panic outside of
   guest frames; a control module in use has its Marine and its logger, and a call runs
   only where there is a Marine. *)
THEOREM MarineJsCorrect == Spec => []JsInv
<1>1. Init => JsInv
  BY JsInitial
<1>2. JsInv /\ [Next]_vars => JsInv'
  BY JsStep
<1> QED
  BY <1>1, <1>2, PTL DEF Spec

(* Every variable has its type; the mutex of the control module is locked
   exactly while a task runs, and for ever after a panic outside of guest
   frames; after one below guest frames tasks run again, unless it poisoned
   the mutex (api.rs, MARINE.lock()). *)
THEOREM MarineJsTypeCorrect == Spec => []MarineJsTypeOK
<1>1. JsInv => MarineJsTypeOK
  <2> SUFFICES ASSUME JsInv PROVE MarineJsTypeOK
    OBVIOUS
  <2>1. running # Idle => running.logs \in 0..MaxLogs /\ running.logging \in BOOLEAN
    BY RunningIs DEF Running
  <2>2. service \in Instances \cup {NotSet} /\ panics \in 0..MaxPanics
    BY DEF JsInv, Types
  <2>3. \A i \in Instances :
          inits[i] \in {"none", "instantiating", "registering", "registered", "ok", "failed"}
    BY DEF JsInv, Types, Stages
  <2>4. \A c \in Calls : calls[c].phase \in {"unasked", "queued", "settled"}
    BY DEF JsInv, Types, IsPromise
  <2> QED
    BY <2>1, <2>2, <2>3, <2>4 DEF JsInv, MarineJsTypeOK, Mutex, RegisteredOnce
<1> QED
  BY <1>1, MarineJsCorrect, PTL

(* Whatever a module writes is told to the service's function, from the
   first line of its start-up code on (api.rs, enable_service_logging). *)
THEOREM LogsCorrect == Spec => []LogsReachService
<1>1. JsInv => LogsReachService
  BY DEF JsInv, Told, LogsReachService
<1> QED
  BY <1>1, MarineJsCorrect, PTL

--------------------------------------------------------------------------
(* What calls are answered with.  The conversions are those of             *)
(* it-json-serde, whose recursion over JSON and types is checked by the    *)
(* runs; here is what follows for the calls if they are right.             *)

\* What CallsAnswered says of one call, and that nothing came of one which
\* nobody asked for.
Faithful(p) ==
    LET function == Functions[p.input.function]
    IN  /\ p.received # NotSet => p.input.args \in FormsOfArgs(p.received, function.args)
        /\ p.answer.why = "malformed arguments" => p.input.args \notin Meant[p.input.function]
        /\ p.answer.why \notin {"not initialized", "malformed result"}
        /\ p.answer.why = "ok" =>
            p.answer.json \in FormsOfResults(p.answer.result, function.outputs)
        /\ p.phase = "unasked" => p.received = NotSet /\ p.answer.why = "none"

FaithfulInv == JsInv /\ \A c \in Calls : Faithful(calls[c])

(* The values of an input, and the JSON of a result, are those meant. *)
LEMMA Converted ==
  ASSUME ConversionsFaithful, NEW c \in Calls, NEW input \in Inputs[c],
         input.function \in DOMAIN Functions
  PROVE  LET function == Functions[input.function]
             args == ArgsOfJson(input.args, function.args)
         IN  /\ args = Unreadable => input.args \notin Meant[input.function]
             /\ args # Unreadable => input.args \in FormsOfArgs(args, function.args)
             /\ \A result \in function.returns :
                    LET json == JsonOfResults(result, function.outputs)
                    IN  json # Unreadable /\ json \in FormsOfResults(result, function.outputs)
  BY DEF ConversionsFaithful

(* A client's call changes what was asked and nothing else. *)
LEMMA CallFaithful ==
  ASSUME FaithfulInv, NEW c \in Calls, NEW input \in Inputs[c], Call(c, input)
  PROVE  \A d \in Calls : Faithful(calls'[d])
<1> USE DEF FaithfulInv, JsInv
<1> DEFINE asked == AskedOf(calls[c], input, service)
           queued == QueuedOf(calls[c], input, service)
           refused == Settled(asked, Error("not set"))
<1>1. calls[c].phase = "unasked" /\ Faithful(calls[c]) /\ IsPromise(calls[c])
  BY DEF Call, Types
<1>2. /\ IsPromise(asked)
      /\ asked.received = NotSet /\ asked.answer.why = "none"
      /\ queued.phase = "queued" /\ queued.received = NotSet /\ queued.answer.why = "none"
  <2>1. calls[c].received = NotSet /\ calls[c].answer.why = "none"
    BY <1>1 DEF Faithful
  <2> QED
    BY <1>1, <2>1, AskedIs
<1>3. calls' = [calls EXCEPT ![c] = refused] \/ calls' = [calls EXCEPT ![c] = queued]
  BY DEF Call, AskedOf, QueuedOf
<1>4. refused.phase = "settled" /\ refused.received = NotSet /\ refused.answer.why = "not set"
  <2> DEFINE answer == Error("not set")
  <2>1. answer.why = "not set"
    BY DEF Error
  <2> HIDE DEF answer, asked
  <2>2. /\ Settled(asked, answer).phase = "settled"
        /\ Settled(asked, answer).received = asked.received
        /\ Settled(asked, answer).answer = answer
    BY <1>2, SettledIs
  <2> QED
    BY <1>2, <2>1, <2>2 DEF answer
<1> HIDE DEF asked, queued, refused
<1>5. Faithful(queued) /\ Faithful(refused)
  BY <1>2, <1>4 DEF Faithful
<1>6. \A d \in Calls : calls'[d] \in {calls[d], queued, refused}
  BY <1>3 DEF Types
<1> QED
  BY <1>5, <1>6

(* A promise that is settled with a faithful answer is faithful. *)
LEMMA SettledFaithful ==
  ASSUME FaithfulInv, NEW c \in Calls, NEW answer,
         calls' = [calls EXCEPT ![c] = Settled(@, answer)],
         \/ answer.why \notin
                {"malformed arguments", "not initialized", "malformed result", "ok"}
         \/ /\ answer.why = "malformed arguments"
            /\ calls[c].input.args \notin Meant[calls[c].input.function]
         \/ /\ answer.why = "ok"
            /\ answer.json \in
                 FormsOfResults(answer.result, Functions[calls[c].input.function].outputs)
  PROVE  \A d \in Calls : Faithful(calls'[d])
<1> DEFINE p == calls[c]
           q == Settled(p, answer)
<1>1. IsPromise(p) /\ Faithful(p)
  BY DEF FaithfulInv, JsInv, Types
<1> HIDE DEF p
<1>2. q.phase = "settled" /\ q.input = p.input /\ q.received = p.received /\ q.answer = answer
  BY <1>1, SettledIs
<1> HIDE DEF q
<1>3. Faithful(q)
  BY <1>1, <1>2 DEF Faithful, p
<1>4. \A d \in Calls : calls'[d] \in {calls[d], q}
  BY DEF FaithfulInv, JsInv, Types, p, q
<1> QED
  BY <1>3, <1>4 DEF FaithfulInv

(* No action makes a call unfaithful. *)
LEMMA FaithfulStep ==
  ASSUME ConversionsFaithful, FaithfulInv, [Next]_vars
  PROVE  FaithfulInv'
<1>0. JsInv /\ JsInv'
  BY JsStep DEF FaithfulInv
<1>1. CASE calls' = calls
  BY <1>0, <1>1 DEF FaithfulInv
<1>2. ASSUME NEW c \in Calls, NEW input \in Inputs[c], Call(c, input)
      PROVE  FaithfulInv'
  BY <1>0, <1>2, CallFaithful DEF FaithfulInv
<1>3. ASSUME NEW i \in Instances, RunCall(i)
      PROVE  FaithfulInv'
  <2>1. PICK c \in Calls :
          LET args == ArgsOfJson(calls[c].input.args, Functions[calls[c].input.function].args)
          IN  /\ CallOf(c) \in Waiting(i)
              /\ \/ \E answer :
                        /\ calls' = [calls EXCEPT ![c] = Settled(@, answer)]
                        /\ \/ answer = Error("malformed parameters")
                           \/ answer = Error("lock failed")
                           \/ answer = Error("no function")
                           \/ /\ answer = Error("malformed arguments") /\ args = Unreadable
                              /\ calls[c].input.function \in DOMAIN Functions
                 \/ /\ calls[c].input.function \in DOMAIN Functions
                    /\ args # Unreadable
                    /\ calls' = [calls EXCEPT ![c].received = args]
    BY <1>0, <1>3, RunCallIs
  <2> DEFINE function == Functions[calls[c].input.function]
             args == ArgsOfJson(calls[c].input.args, function.args)
  <2>2. calls[c].phase # "unasked" /\ calls[c].input \in Inputs[c]
    BY <1>0, <2>1 DEF JsInv, CallsServed, Asked
  <2>3. calls[c].input.function \in DOMAIN Functions =>
          /\ args = Unreadable => calls[c].input.args \notin Meant[calls[c].input.function]
          /\ args # Unreadable => calls[c].input.args \in FormsOfArgs(args, function.args)
    BY <2>2, Converted
  <2>4. ASSUME NEW answer, calls' = [calls EXCEPT ![c] = Settled(@, answer)],
               \/ answer = Error("malformed parameters")
               \/ answer = Error("lock failed")
               \/ answer = Error("no function")
               \/ /\ answer = Error("malformed arguments") /\ args = Unreadable
                  /\ calls[c].input.function \in DOMAIN Functions
        PROVE  \A d \in Calls : Faithful(calls'[d])
    <3>1. \/ answer.why \notin
                {"malformed arguments", "not initialized", "malformed result", "ok"}
          \/ /\ answer.why = "malformed arguments"
             /\ calls[c].input.args \notin Meant[calls[c].input.function]
      <4>1. \A why : Error(why).why = why
        BY DEF Error
      <4>2. CASE \/ answer = Error("malformed parameters") \/ answer = Error("lock failed")
                 \/ answer = Error("no function")
        <5>1. answer.why \in {"malformed parameters", "lock failed", "no function"}
          BY <4>1, <4>2, Zenon
        <5> QED
          BY <5>1
      <4>3. CASE answer = Error("malformed arguments") /\ args = Unreadable
                 /\ calls[c].input.function \in DOMAIN Functions
        BY <2>3, <4>1, <4>3
      <4> QED
        BY <2>4, <4>2, <4>3
    <3> QED
      BY <2>4, <3>1, SettledFaithful
  <2>5. ASSUME calls[c].input.function \in DOMAIN Functions, args # Unreadable,
               calls' = [calls EXCEPT ![c].received = args]
        PROVE  \A d \in Calls : Faithful(calls'[d])
    <3> DEFINE p == calls[c]
               values == args
               q == [p EXCEPT !.received = values]
    <3>1. IsPromise(p) /\ Faithful(p) /\ p.phase # "unasked"
      BY <2>2 DEF FaithfulInv, JsInv, Types
    <3>2. p.input.args \in FormsOfArgs(values, Functions[p.input.function].args)
      BY <2>3, <2>5
    <3>3. \A d \in Calls : calls'[d] \in {calls[d], q}
      BY <2>5 DEF FaithfulInv, JsInv, Types
    <3> HIDE DEF p, values
    <3>4. q.phase = p.phase /\ q.input = p.input /\ q.answer = p.answer /\ q.received = values
      <4>1. DOMAIN p = {"phase", "instance", "input", "received", "answer"}
        BY <3>1 DEF IsPromise
      <4>2. q = [x \in DOMAIN p |-> IF x = "received" THEN values ELSE p[x]]
        BY <4>1
      <4> HIDE DEF q
      <4> QED
        BY <4>1, <4>2
    <3> HIDE DEF q
    <3>5. Faithful(q)
      BY <3>1, <3>2, <3>4 DEF Faithful
    <3> QED
      BY <3>3, <3>5 DEF FaithfulInv
  <2> QED
    BY <1>0, <2>1, <2>4, <2>5 DEF FaithfulInv
<1>4. CASE CallEnds
  <2>0. PICK c \in Calls : \E answer :
          LET function == Functions[calls[c].input.function]
              json(result) == JsonOfResults(result, function.outputs)
          IN  /\ running # Idle /\ running.task = CallOf(c)
              /\ calls' = [calls EXCEPT ![c] = Settled(@, answer)]
              /\ \/ \E result \in function.returns :
                        \/ answer = Error("malformed result") /\ json(result) = Unreadable
                        \/ answer = [why |-> "ok", result |-> result, json |-> json(result)]
                 \/ answer = Error("failed")
    BY <1>0, <1>4, CallEndsIs
  <2>1. PICK answer :
          LET function == Functions[calls[c].input.function]
              json(result) == JsonOfResults(result, function.outputs)
          IN  /\ running # Idle /\ running.task = CallOf(c)
              /\ calls' = [calls EXCEPT ![c] = Settled(@, answer)]
              /\ \/ \E result \in function.returns :
                        \/ answer = Error("malformed result") /\ json(result) = Unreadable
                        \/ answer = [why |-> "ok", result |-> result, json |-> json(result)]
                 \/ answer = Error("failed")
    BY <2>0
  <2> DEFINE function == Functions[calls[c].input.function]
             json(result) == JsonOfResults(result, function.outputs)
  <2>2. calls[c].input \in Inputs[c] /\ calls[c].input.function \in DOMAIN Functions
    BY <1>0, <2>1 DEF JsInv, CallsServed, Asked
  <2>3. \A result \in function.returns :
          json(result) # Unreadable /\ json(result) \in FormsOfResults(result, function.outputs)
    BY <2>2, Converted
  <2>4. \/ answer.why = "failed"
        \/ /\ answer.why = "ok"
           /\ answer.json \in FormsOfResults(answer.result, function.outputs)
    <3>1. ASSUME NEW result \in function.returns,
                 answer = Error("malformed result"), json(result) = Unreadable
          PROVE  FALSE
      BY <2>3, <3>1
    <3>2. ASSUME NEW result \in function.returns,
                 answer = [why |-> "ok", result |-> result, json |-> json(result)]
          PROVE  /\ answer.why = "ok"
                 /\ answer.json \in FormsOfResults(answer.result, function.outputs)
      <4>1. json(result) \in FormsOfResults(result, function.outputs)
        BY <2>3
      <4> DEFINE form == json(result)
      <4>2. answer = [why |-> "ok", result |-> result, json |-> form]
        BY <3>2
      <4> HIDE DEF form
      <4>3. answer.why = "ok" /\ answer.result = result /\ answer.json = form
        BY <4>2
      <4> QED
        BY <4>1, <4>3 DEF form
    <3>3. answer = Error("failed") => answer.why = "failed"
      BY DEF Error
    <3> QED
      BY <2>1, <3>1, <3>2, <3>3
  <2> QED
    BY <1>0, <2>1, <2>4, SettledFaithful DEF FaithfulInv
<1>5. ASSUME NEW i \in Instances,
             StartInit(i) \/ Instantiated(i) \/ Initialized(i) \/ FindLocked(i) \/ RunRegister(i)
      PROVE  calls' = calls
  BY <1>5 DEF StartInit, Instantiated, Initialized, FindLocked, RunRegister
<1>6. Terminate \/ LogFunctionReturns \/ RegisterEnds \/ ControlPanics => calls' = calls
  BY DEF Terminate, LogFunctionReturns, RegisterEnds, ControlPanics
<1>7. ASSUME NEW module \in Modules, GuestLogs(module)
      PROVE  calls' = calls
  BY <1>7 DEF GuestLogs
<1>8. UNCHANGED vars => calls' = calls
  BY DEF vars
<1>9. CASE GuestPanics
  <2>1. CASE running.task.kind = "call"
    <3>1. PICK c \in Calls : running.task = CallOf(c)
      BY <1>0, <1>9, <2>1, RunningIs, TaskKinds DEF GuestPanics, Running
    <3>2. calls' = [calls EXCEPT ![c] = Settled(@, Error("failed"))]
      BY <1>9, <2>1, <3>1, TaskKinds DEF GuestPanics
    <3>3. Error("failed").why = "failed"
      BY DEF Error
    <3> QED
      BY <1>0, <3>2, <3>3, SettledFaithful DEF FaithfulInv
  <2>2. CASE running.task.kind # "call"
    BY <1>1, <1>9, <2>2 DEF GuestPanics
  <2> QED
    BY <2>1, <2>2
<1> QED
  BY <1>1, <1>2, <1>3, <1>4, <1>5, <1>6, <1>7, <1>8, <1>9 DEF Next

(* If the conversions of it-json-serde are right, then whatever is called
   in whatever order, a guest gets the values its client's JSON stands for
   and the client JSON that stands for the guest's results, and a service
   that lets a call pass has its modules (call_module, MarineService). *)
THEOREM CallsCorrect == ConversionsFaithful => (Spec => []CallsAnswered)
<1> SUFFICES ASSUME ConversionsFaithful PROVE Spec => []CallsAnswered
  OBVIOUS
<1>1. Init => FaithfulInv
  <2> SUFFICES ASSUME Init PROVE FaithfulInv
    OBVIOUS
  <2>1. \A c \in Calls : calls[c] = Unasked
    BY DEF Init
  <2>2. Faithful(Unasked)
    BY DEF Faithful, Unasked
  <2> QED
    BY <2>1, <2>2, JsInitial DEF FaithfulInv
<1>2. FaithfulInv /\ [Next]_vars => FaithfulInv'
  BY FaithfulStep
<1>3. FaithfulInv => CallsAnswered
  BY DEF FaithfulInv, CallsAnswered, Faithful
<1> QED
  BY <1>1, <1>2, <1>3, PTL DEF Spec

=============================================================================
