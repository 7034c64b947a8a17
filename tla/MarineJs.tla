------------------------------ MODULE MarineJs ------------------------------
(***************************************************************************)
(* A MarineService of the npm package: each init() makes an instance of    *)
(* the control module, which holds one Marine behind a mutex and one       *)
(* logger.  Exports of the control module only queue a task; a task runs   *)
(* to its end, for nothing in it waits, but a guest's log message calls    *)
(* the client's function, and from there the client may call again.        *)
(***************************************************************************)
EXTENDS Integers, Sequences

CONSTANTS
    NotSet,
    Instances,   \* of the control module, one for each init
    Calls,       \* what clients ask for
    Modules,     \* names of modules, those of the service
    Functions,   \* of the facade: from names to [args, outputs, takes, returns]
    Inputs,      \* what each of the calls may be: [function, args, parameters]
    MaxLogs,     \* bound on messages of a task
    MaxPanics

\* The conversions of it-json-serde, and what they are to do.
CONSTANTS
    Unreadable,            \* the error of a conversion
    ArgsOfJson(_, _),      \* from JSON, for argument types
    JsonOfResults(_, _),   \* from interface values, for output types
    FormsOfArgs(_, _),     \* the JSON that stands for values of argument types
    FormsOfResults(_, _)   \* the JSON that stands for results of output types

ASSUME MarineJsAssumption == {MaxLogs, MaxPanics} \subseteq Nat /\ NotSet \notin Instances

VARIABLES
    service,   \* _controlModuleInstance
    inits,     \* how far the init of an instance is
    control,   \* the state of each control module
    tasks,     \* what is queued on each
    running,   \* the task that runs, or Idle
    calls,     \* what became of the calls
    panics

vars == <<service, inits, control, tasks, running, calls, panics>>

Idle == [instance |-> NotSet]
Register == [kind |-> "register"]
CallOf(c) == [kind |-> "call", call |-> c]
Fresh == [marine |-> FALSE, locked |-> FALSE, poisoned |-> FALSE, names |-> {}, panicked |-> FALSE]
Unasked == [phase |-> "unasked", instance |-> NotSet, input |-> NotSet, received |-> NotSet,
            answer |-> [why |-> "none"]]

Init ==
    /\ service = NotSet
    /\ inits = [i \in Instances |-> "none"]
    /\ control = [i \in Instances |-> Fresh]
    /\ tasks = [i \in Instances |-> <<>>]
    /\ running = Idle
    /\ calls = [c \in Calls |-> Unasked]
    /\ panics = 0

\* Client code runs between tasks, and when it is called by a task.
ClientRuns == running # Idle => running.logging

Settled(call, answer) == [call EXCEPT !.phase = "settled", !.answer = answer]
Error(why) == [why |-> why]
Enqueued(i, task) == [tasks EXCEPT ![i] = Append(@, task)]

--------------------------------------------------------------------------
(* MarineService. *)

\* init(): the control module is being instantiated.
StartInit(i) ==
    /\ ClientRuns
    /\ inits[i] = "none"
    /\ inits' = [inits EXCEPT ![i] = "instantiating"]
    /\ UNCHANGED <<service, control, tasks, running, calls, panics>>

\* register_module() is called when it is; or instantiation fails.
Instantiated(i) ==
    /\ running = Idle
    /\ inits[i] = "instantiating"
    /\ \/ inits' = [inits EXCEPT ![i] = "registering"] /\ tasks' = Enqueued(i, Register)
       \/ inits' = [inits EXCEPT ![i] = "failed"] /\ UNCHANGED tasks
    /\ UNCHANGED <<service, control, running, calls, panics>>

\* The slip of not waiting for the promise of register_module.
InitializedUnawaited(i) ==
    /\ running = Idle
    /\ inits[i] \in {"registering", "registered"}
    /\ inits' = [inits EXCEPT ![i] = "ok"]
    /\ service' = i
    /\ UNCHANGED <<control, tasks, running, calls, panics>>

\* init() goes on.  A terminate() that came in between is forgotten.
Initialized(i) ==
    /\ running = Idle
    /\ inits[i] = "registered"
    /\ inits' = [inits EXCEPT ![i] = "ok"]
    /\ service' = i
    /\ UNCHANGED <<control, tasks, running, calls, panics>>

Terminate ==
    /\ ClientRuns
    /\ service # NotSet
    /\ service' = NotSet
    /\ UNCHANGED <<inits, control, tasks, running, calls, panics>>

Call(c, input) ==
    /\ ClientRuns
    /\ calls[c].phase = "unasked"
    /\ LET call == [calls[c] EXCEPT !.input = input, !.instance = service]
       IN  IF service = NotSet
           THEN calls' = [calls EXCEPT ![c] = Settled(call, Error("not set"))] /\ UNCHANGED tasks
           ELSE /\ calls' = [calls EXCEPT ![c] = [call EXCEPT !.phase = "queued"]]
                /\ tasks' = Enqueued(service, CallOf(c))
    /\ UNCHANGED <<service, inits, control, running, panics>>

--------------------------------------------------------------------------
(* The control module. *)

\* A task finds the mutex locked when the control module panicked outside
\* of guest frames: that is a panic as well, and its promise is left alone.
\* The slip: the mutex of such a panic is free, as where panics unwind.
PanickedUnwinding(i) == [control EXCEPT ![i].panicked = TRUE, ![i].locked = FALSE]

Panicked(i) == [control EXCEPT ![i].panicked = TRUE]

Taken(i, kind) == tasks[i] # <<>> /\ Head(tasks[i]).kind = kind
Locked(i) == [control EXCEPT ![i].locked = TRUE]

Runs(i, task) ==
    running' = [instance |-> i, task |-> task, logging |-> FALSE, told |-> NotSet, logs |-> 0]

FindLocked(i) ==
    /\ running = Idle
    /\ control[i].locked
    /\ Taken(i, "register") \/ (Taken(i, "call") /\ calls[Head(tasks[i]).call].input.parameters)
    /\ tasks' = [tasks EXCEPT ![i] = Tail(@)]
    /\ UNCHANGED <<service, inits, control, running, calls, panics>>

\* The slip of turning logging on after the modules were made.
LoggedLater(i) == Locked(i)

\* register_module, first half: messages of the service's modules go to
\* its function from before the first of them runs.
Logged(i) == [Locked(i) EXCEPT ![i].names = Modules]

RunRegister(i) ==
    /\ running = Idle
    /\ Taken(i, "register") /\ ~control[i].locked
    /\ tasks' = [tasks EXCEPT ![i] = Tail(@)]
    /\ \/ ~control[i].poisoned /\ control' = Logged(i) /\ Runs(i, Register) /\ UNCHANGED inits
       \/ inits' = [inits EXCEPT ![i] = "failed"]  \* so, or the configuration is malformed
          /\ UNCHANGED <<control, running>>
    /\ UNCHANGED <<service, calls, panics>>

\* call_module up to the call of the guest, or its refusal: parameters are
\* read before the mutex is tried.
RunCall(i) ==
    /\ running = Idle
    /\ Taken(i, "call")
    /\ tasks' = [tasks EXCEPT ![i] = Tail(@)]
    /\ LET c == Head(tasks[i]).call
           input == calls[c].input
           args == ArgsOfJson(input.args, Functions[input.function].args)
           Answers(answer) == calls' = [calls EXCEPT ![c] = Settled(@, answer)]
                              /\ UNCHANGED <<control, running>>
       IN  IF ~input.parameters THEN Answers(Error("malformed parameters"))
           ELSE /\ ~control[i].locked
                /\ IF control[i].poisoned THEN Answers(Error("lock failed"))
                   ELSE IF ~control[i].marine THEN Answers(Error("not initialized"))
                   ELSE IF input.function \notin DOMAIN Functions THEN Answers(Error("no function"))
                   ELSE IF args = Unreadable THEN Answers(Error("malformed arguments"))
                   ELSE /\ calls' = [calls EXCEPT ![c].received = args]
                        /\ control' = Locked(i)
                        /\ Runs(i, CallOf(c))
    /\ UNCHANGED <<service, inits, panics>>

\* MarineLogger::log for a message of a guest.
GuestLogs(module) ==
    /\ running # Idle /\ ~running.logging
    /\ running.logs < MaxLogs
    /\ LET ours == module \in control[running.instance].names
       IN  running' = [running EXCEPT !.logs = @ + 1, !.logging = ours,
                                      !.told = IF ours THEN "service" ELSE "console"]
    /\ UNCHANGED <<service, inits, control, tasks, calls, panics>>

\* Whether it throws or not.
LogFunctionReturns ==
    /\ running # Idle /\ running.logging
    /\ running' = [running EXCEPT !.logging = FALSE]
    /\ UNCHANGED <<service, inits, control, tasks, calls, panics>>

\* The guard of the mutex is dropped on every way out.  The slip: not when
\* the task fails.
LeavesHeld(failed) ==
    /\ control' = [control EXCEPT ![running.instance].locked = failed]
    /\ running' = Idle

Leaves(failed) ==
    /\ control' = [control EXCEPT ![running.instance].locked = FALSE]
    /\ running' = Idle

\* register_module, second half.  The Marine replaces the one that was there.
RegisterEnds ==
    /\ running # Idle /\ ~running.logging
    /\ running.task.kind = "register"
    /\ running' = Idle
    /\ \/ /\ control' = [control EXCEPT ![running.instance].locked = FALSE,
                                        ![running.instance].marine = TRUE]
          /\ inits' = [inits EXCEPT ![running.instance] = "registered"]
       \/ /\ Leaves(TRUE)
          /\ inits' = [inits EXCEPT ![running.instance] = "failed"]
    /\ UNCHANGED <<service, tasks, calls, panics>>

\* call_module, after the guest returned or failed.
CallEnds ==
    /\ running # Idle /\ ~running.logging
    /\ running.task.kind = "call"
    /\ LET c == running.task.call
           function == Functions[calls[c].input.function]
           End(answer, failed) == calls' = [calls EXCEPT ![c] = Settled(@, answer)] /\ Leaves(failed)
       IN  \/ \E result \in function.returns :
                LET json == JsonOfResults(result, function.outputs)
                IN  IF json = Unreadable THEN End(Error("malformed result"), TRUE)
                    ELSE End([why |-> "ok", result |-> result, json |-> json], FALSE)
           \/ End(Error("failed"), TRUE)
    /\ UNCHANGED <<service, inits, tasks, panics>>

\* The control module panics below a guest's frames.  What applied the guest
\* catches the trap, the task fails as for any error, and the guard that it
\* drops poisons the mutex if the build knows by then of the panic: those
\* whose panics abort need not.
GuestPanics ==
    /\ running # Idle /\ ~running.logging
    /\ panics < MaxPanics
    /\ \E poisons \in BOOLEAN :
        control' = [control EXCEPT ![running.instance].locked = FALSE,
                                   ![running.instance].poisoned = poisons]
    /\ running' = Idle
    /\ \/ /\ running.task.kind = "register"
          /\ inits' = [inits EXCEPT ![running.instance] = "failed"]
          /\ UNCHANGED calls
       \/ /\ running.task.kind = "call"
          /\ calls' = [calls EXCEPT ![running.task.call] = Settled(@, Error("failed"))]
          /\ UNCHANGED inits
    /\ panics' = panics + 1
    /\ UNCHANGED <<service, tasks>>

\* It panics where no guest is below it: nobody catches that, nothing is
\* dropped, and the promise is left alone.
ControlPanics ==
    /\ running # Idle /\ ~running.logging
    /\ panics < MaxPanics
    /\ control' = Panicked(running.instance)
    /\ running' = Idle
    /\ panics' = panics + 1
    /\ UNCHANGED <<service, inits, tasks, calls>>

Next ==
    \/ \E i \in Instances : StartInit(i) \/ Instantiated(i) \/ Initialized(i)
                            \/ FindLocked(i) \/ RunRegister(i) \/ RunCall(i)
    \/ Terminate
    \/ \E c \in Calls : \E input \in Inputs[c] : Call(c, input)
    \/ \E module \in Modules : GuestLogs(module)
    \/ LogFunctionReturns \/ RegisterEnds \/ CallEnds
    \/ GuestPanics \/ ControlPanics

\* The browser runs what is queued, functions of clients return, and so do
\* guests: nothing here stops one that does not.
Fairness ==
    /\ \A i \in Instances : WF_vars(FindLocked(i) \/ RunRegister(i) \/ RunCall(i))
    /\ WF_vars(LogFunctionReturns)
    /\ WF_vars(RegisterEnds \/ CallEnds)

Spec == Init /\ [][Next]_vars /\ Fairness

--------------------------------------------------------------------------
(* Properties. *)

\* Every variable has its type; the mutex is locked exactly while a task
\* runs, and for ever after a panic outside of guest frames, so that no task
\* works on what that left half done.  A panic below guest frames lets go of
\* the mutex, and tasks run again unless it poisoned it (api.rs:
\* MARINE.lock()).
MarineJsTypeOK ==
    /\ service \in Instances \cup {NotSet}
    /\ \A i \in Instances :
        /\ inits[i] \in {"none", "instantiating", "registering", "registered", "ok", "failed"}
        /\ control[i].locked <=> control[i].panicked \/ running.instance = i
        /\ control[i].panicked \/ control[i].poisoned => running.instance # i
        /\ \A k, l \in DOMAIN tasks[i] : tasks[i][k] = Register /\ tasks[i][l] = Register => k = l
    /\ running # Idle => running.logs \in 0..MaxLogs /\ running.logging \in BOOLEAN
    /\ \A c \in Calls : calls[c].phase \in {"unasked", "queued", "settled"}
    /\ panics \in 0..MaxPanics

\* Whatever a module of the service writes is told to the service's
\* function, also what it writes while it is being made (api.rs: logging is
\* enabled before Marine::with_modules).
LogsReachService == (running # Idle /\ running.told # NotSet) => running.told = "service"

\* All JSON that stands for arguments of a function.
Meant ==
    [name \in DOMAIN Functions |->
        UNION {FormsOfArgs(values, Functions[name].args) : values \in Functions[name].takes}]

\* The conversions are right for what clients ask and guests return: JSON
\* is read as values that it stands for, refused only if it stands for
\* none, and every result becomes JSON that stands for it (it-json-serde).
ConversionsFaithful ==
    /\ \A c \in Calls : \A input \in Inputs[c] :
        input.function \in DOMAIN Functions =>
            LET args == Functions[input.function].args
                values == ArgsOfJson(input.args, args)
            IN  IF values = Unreadable THEN input.args \notin Meant[input.function]
                ELSE input.args \in FormsOfArgs(values, args)
    /\ \A name \in DOMAIN Functions : \A result \in Functions[name].returns :
        LET outputs == Functions[name].outputs
            json == JsonOfResults(result, outputs)
        IN  json # Unreadable /\ json \in FormsOfResults(result, outputs)

\* The guest gets the values that the client's JSON stands for, and is not
\* called when it stands for none; the client gets JSON that stands for
\* what the guest returned; and a service that let a call pass has its
\* modules (it-json-serde, MarineService.init).
CallsAnswered ==
    \A c \in Calls :
        LET input == calls[c].input
            function == Functions[input.function]
            received == calls[c].received
            answer == calls[c].answer
        IN  /\ received # NotSet => input.args \in FormsOfArgs(received, function.args)
            /\ answer.why = "malformed arguments" => input.args \notin Meant[input.function]
            /\ answer.why \notin {"not initialized", "malformed result"}
            /\ answer.why = "ok" =>
                answer.json \in FormsOfResults(answer.result, function.outputs)

\* A call that was let pass is answered, unless the control module panics
\* outside of guest frames (a client that calls from its log function does not block itself).
CallsSettle ==
    \A c \in Calls :
        calls[c].phase = "queued" ~>
            (calls[c].phase # "queued" \/ control[calls[c].instance].panicked)

=============================================================================
