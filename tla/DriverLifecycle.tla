-------------------------- MODULE DriverLifecycle --------------------------
(***************************************************************************)
(* Loading and unloading of NullTracerDrv.sys (DriverEntry and             *)
(* NullTracerUnload of NullTracerDrv.c, CallbacksRegister and              *)
(* CallbacksUnregister of callbacks.c) while the kernel calls the          *)
(* callbacks on several CPUs and the agent opens the device.               *)
(*                                                                         *)
(* The driver's own routines run on one system thread, one kernel call per *)
(* step.  Of the kernel this assumes what the driver relies on: removing a *)
(* callback lets no further call begin and waits for those under way, and  *)
(* a driver is unloaded only when no handle of its device is open.         *)
(***************************************************************************)
EXTENDS Naturals, Sequences, FiniteSets

CONSTANTS
  Cpus,      \* CPUs that may be inside a callback
  Clients    \* user-mode processes that may open the device

VARIABLES
  stage,     \* "entry", "rollback", "loaded", "unloading", "failed", "unloaded"
  todo,      \* what the driver's thread has still to set up or to tear down
  held,      \* what is set up at the moment
  draining,  \* the callback whose removal waits for its calls, or "none"
  inside,    \* for each CPU the callback it is in, or "none"
  clients,   \* for each client "closed", "open" or "ioctl"
  stray      \* history: whether freed or missing ring memory was touched

vars == <<stage, todo, held, draining, inside, clients, stray>>

Callbacks == {"process", "image", "registry"}

Resources == Callbacks \cup {"device", "symlink", "ring", "dispatch"}

----------------------------------------------------------------------------
(* DriverEntry with CallbacksRegister in it, in order. *)
EntrySteps ==
  <<"device", "symlink", "ring", "process", "image", "registry", "dispatch">>

\* Variant: the image callback stays registered.
ImageForgotten(step) == IF step \in {"image", "registry"} THEN <<"process">> ELSE <<>>

\* What CallbacksRegister takes back when one of its registrations fails.
CallbacksUndo(step) ==
  CASE step = "image"    -> <<"process">>
    [] step = "registry" -> <<"process", "image">>
    [] OTHER             -> <<>>

\* What DriverEntry takes back after that.
EntryUndo(step) ==
  CASE step = "device"  -> <<>>
    [] step = "symlink" -> <<"device">>
    [] step = "ring"    -> <<"symlink", "device">>
    [] OTHER            -> <<"ring", "symlink", "device">>

\* Variants: the ring freed before its users are gone, and set-up order
\* instead of the reverse.
RingFirst == <<"ring", "registry", "image", "process", "symlink", "device">>
DeviceFirst == <<"device", "symlink", "ring", "process", "image", "registry">>

\* CallbacksUnregister, then the rest of NullTracerUnload.
UnloadSteps == <<"registry", "image", "process", "ring", "symlink", "device">>

Init ==
  /\ stage = "unloaded" /\ todo = <<>> /\ held = {} /\ draining = "none"
  /\ inside = [c \in Cpus |-> "none"]
  /\ clients = [u \in Clients |-> "closed"]
  /\ stray = FALSE

driver == <<stage, todo, held, draining>>
Kernel == <<inside, clients, stray>>

\* The service manager starts the driver, for the first time or again.
Load ==
  /\ stage \in {"failed", "unloaded"}
  /\ stage' = "entry" /\ todo' = EntrySteps
  /\ UNCHANGED <<held, draining, Kernel>>

\* One step of DriverEntry; after the last one it returns STATUS_SUCCESS.
SetUp ==
  /\ stage = "entry"
  /\ held' = held \cup {Head(todo)}
  /\ todo' = Tail(todo)
  /\ stage' = IF Len(todo) = 1 THEN "loaded" ELSE "entry"
  /\ UNCHANGED <<draining, Kernel>>

\* A step fails: what it would have set up is not, and the rollback begins.
\* Filling in the dispatch table cannot fail.
StepFails ==
  /\ stage = "entry" /\ Head(todo) # "dispatch"
  /\ todo' = CallbacksUndo(Head(todo)) \o EntryUndo(Head(todo))
  /\ stage' = IF todo' = <<>> THEN "failed" ELSE "rollback"
  /\ UNCHANGED <<held, draining, Kernel>>

\* One release, in a rollback or in an unload.
TearDown ==
  /\ stage \in {"rollback", "unloading"} /\ draining = "none"
  /\ held' = held \ {Head(todo)}
  /\ draining' = IF Head(todo) \in Callbacks THEN Head(todo) ELSE "none"
  /\ todo' = Tail(todo)
  /\ stage' = IF Len(todo) > 1 THEN stage
              ELSE IF stage = "rollback" THEN "failed" ELSE "unloaded"
  /\ UNCHANGED Kernel

\* The removal of a callback returns when no CPU is inside it any more.
Drained ==
  /\ draining # "none" /\ \A c \in Cpus : inside[c] # draining
  /\ draining' = "none"
  /\ UNCHANGED <<stage, todo, held, Kernel>>

\* The service is stopped and no handle keeps the driver in memory.  The
\* dispatch table goes with the driver object.
Unload ==
  /\ stage = "loaded" /\ \A u \in Clients : clients[u] = "closed"
  /\ stage' = "unloading" /\ todo' = UnloadSteps
  /\ held' = held \ {"dispatch"}
  /\ UNCHANGED <<draining, Kernel>>

Thread == Load \/ SetUp \/ StepFails \/ TearDown \/ Drained \/ Unload

----------------------------------------------------------------------------
(* Callbacks and clients *)

TouchRing == stray' = (stray \/ "ring" \notin held)

\* The kernel calls a registered callback.
Enter(c) ==
  /\ inside[c] = "none"
  /\ \E kind \in Callbacks \cap held : inside' = [inside EXCEPT ![c] = kind]
  /\ UNCHANGED <<driver, clients, stray>>

\* Variant: the ring's lock is never released, so the callback spins.
SpinForever(c) == inside[c] # "none" /\ UNCHANGED vars

\* The callback has filled in its record, writes it to g_Ring and returns.
WriteAndReturn(c) ==
  /\ inside[c] # "none"
  /\ inside' = [inside EXCEPT ![c] = "none"]
  /\ TouchRing
  /\ UNCHANGED <<driver, clients>>

\* A process terminates, or a registry operation is none of ours: the
\* callback returns early.
ReturnEarly(c) ==
  /\ inside[c] \in {"process", "registry"}
  /\ inside' = [inside EXCEPT ![c] = "none"]
  /\ UNCHANGED <<driver, clients, stray>>

\* Opening succeeds once DriverEntry has put its handlers in place.
Open(u) ==
  /\ clients[u] = "closed" /\ {"symlink", "dispatch"} \subseteq held
  /\ clients' = [clients EXCEPT ![u] = "open"]
  /\ UNCHANGED <<driver, inside, stray>>

Request(u) ==
  /\ clients[u] = "open"
  /\ clients' = [clients EXCEPT ![u] = "ioctl"]
  /\ UNCHANGED <<driver, inside, stray>>

\* NullTracerDispatchDeviceControl reads g_Ring and completes the request.
Serve(u) ==
  /\ clients[u] = "ioctl"
  /\ clients' = [clients EXCEPT ![u] = "open"]
  /\ TouchRing
  /\ UNCHANGED <<driver, inside>>

Close(u) ==
  /\ clients[u] = "open"
  /\ clients' = [clients EXCEPT ![u] = "closed"]
  /\ UNCHANGED <<driver, inside, stray>>

Next ==
  \/ Thread
  \/ \E c \in Cpus : Enter(c) \/ WriteAndReturn(c) \/ ReturnEarly(c)
  \/ \E u \in Clients : Open(u) \/ Request(u) \/ Serve(u) \/ Close(u)

Spec == Init /\ [][Next]_vars

\* The driver's thread is scheduled while it has work, and every call of a
\* callback ends, since it takes no lock but the ring's.
FairSpec ==
  /\ Spec
  /\ WF_vars(SetUp \/ StepFails \/ TearDown \/ Drained)
  /\ \A c \in Cpus : WF_vars(WriteAndReturn(c) \/ ReturnEarly(c))

----------------------------------------------------------------------------
(* Properties *)

\* The driver's thread is in one stage at a time, and it waits for a removed
\* callback only in the middle of tearing down.
TypeOK ==
  /\ stage \in {"entry", "rollback", "loaded", "unloading", "failed", "unloaded"}
  /\ todo \in Seq(Resources) /\ held \subseteq Resources
  /\ draining \in Callbacks \cup {"none"}
  /\ draining # "none" => stage \in {"rollback", "unloading"} /\ draining \notin held
  /\ inside \in [Cpus -> Callbacks \cup {"none"}]
  /\ clients \in [Clients -> {"closed", "open", "ioctl"}]
  /\ stray \in BOOLEAN

\* "Deregister callbacks first": no callback and no request ever touches the
\* ring before it is allocated or after it is freed, however the callbacks
\* run while the driver is loaded, fails to load, or is unloaded.
RingOutlivesUsers ==
  /\ ~ stray
  /\ "ring" \notin held => /\ \A c \in Cpus : inside[c] = "none"
                           /\ \A u \in Clients : clients[u] # "ioctl"

\* Whichever step of DriverEntry fails, and after every unload, nothing is
\* left behind: no registered callback, no device, no allocation.
NothingLeaks == stage \in {"failed", "unloaded"} => held = {}

\* What the thread has still to tear down is exactly what is set up, each
\* once, so that no release is repeated and none is forgotten.
TearDownIsExact ==
  stage \in {"rollback", "unloading"} =>
    /\ {todo[i] : i \in DOMAIN todo} = held
    /\ Cardinality(held) = Len(todo)

\* A driver that has begun to load ends up loaded or failed, and one that
\* has begun to unload ends up unloaded: no removal waits for ever.
ThreadFinishes ==
  /\ stage \in {"entry", "rollback"} ~> stage \in {"loaded", "failed"}
  /\ stage = "unloading" ~> stage = "unloaded"
============================================================================
