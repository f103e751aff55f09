------------------------------- MODULE PicoDemo ------------------------------
(***************************************************************************)
(* demos/raspberry_pico_w/src/main.rs: the firmware starts the Wi-Fi driver *)
(* and the network stack and then serves connections as HttpExchange        *)
(* describes.  Its tasks run on one executor, so everything a task does     *)
(* between two awaits is one step.  cyw43, embassy-net and the network are  *)
(* external: a call of `control` or of the stack comes back only if the     *)
(* runner task of that driver has been spawned.                             *)
(***************************************************************************)
EXTENDS HttpExchange

CONSTANTS
  SsidLens, PasswordLens,   \* lengths of the variables of .env; None: not set
  MaxDrops                  \* bound: how often the Wi-Fi link goes down

ASSUME DemoAssumption ==
  /\ SsidLens \subseteq Nat \cup {None} /\ PasswordLens \subseteq Nat \cup {None}
  /\ MaxDrops \in Nat

VARIABLES
  core,      \* how far main and core_0_task are: the await it is suspended at; "done"
  running,   \* the tasks spawned
  cells,     \* the StaticCells (and the peripherals) taken
  panic,     \* why the firmware has panicked, or None
  link, config,   \* of the network stack: link up; an address from DHCP
  drops

dvars == <<core, running, cells, panic, link, config, drops>>

pvars == <<dvars, xvars>>

PInit ==
  /\ EInit
  /\ core = "main" /\ running = {} /\ cells = {}
  /\ panic = None
  /\ link = FALSE /\ config = FALSE /\ drops = 0

-----------------------------------------------------------------------------
(* What can go wrong in a step of a task. *)

Panics(why) == panic' = why /\ UNCHANGED <<core, running, cells>>

\* StaticCell::init_with panics if the cell was taken before, and so does
\* embassy_rp::init; spawning a task that runs gives an Err that is unwrapped.
Proceed(taken, tasks, next) ==
  IF taken \cap cells # {} THEN Panics("cell")
  ELSE IF tasks \cap running # {} THEN Panics("spawn")
  ELSE /\ cells' = cells \cup taken
       /\ running' = running \cup tasks
       /\ core' = next
       /\ UNCHANGED panic

\* A step of main or of core_0_task that has come to `at`.
Core(at) == panic = None /\ core = at /\ UNCHANGED <<link, config, drops, xvars>>

-----------------------------------------------------------------------------
(* main, core_0_task and init_wifi_network_driver *)

Boot ==
  /\ Core("main")
  /\ Proceed({"EXECUTOR0"}, {"core_0_task"}, "start")

\* install_core0_stack_guard().unwrap(): the hardware may refuse the guard.
StackGuardFails ==
  /\ Core("start")
  /\ Panics("stack_guard")

CreateDriver ==
  /\ Core("start")
  /\ Proceed({"Peripherals", "CY43_STATE"}, {}, "cyw43::new")

\* Mutant: the runner is spawned only after the driver has been set up.
DriverCreatedRunnerLater ==
  /\ Core("cyw43::new")
  /\ Proceed({}, {}, "control.init")

DriverCreated ==
  /\ Core("cyw43::new")
  /\ Proceed({}, {"wifi_runner_task"}, "control.init")

ControlInitialised ==
  /\ Core("control.init") /\ "wifi_runner_task" \in running
  /\ Proceed({}, {}, "set_power_management")

\* option_env!(...).unwrap_or(...): build.rs forwards what .env sets.
FromEnv(len, default) == IF len = None THEN default ELSE len

\* heapless::String::<32> and <64>
Fits(ssid, password) == FromEnv(ssid, 4) <= 32 /\ FromEnv(password, 0) <= 64

PowerManagementSet(ssid, password) ==
  /\ Core("set_power_management")
  /\ IF Fits(ssid, password) THEN Proceed({}, {}, "join")
     ELSE Panics("credentials")

\* Mutant: a retry starts the driver afresh.
JoinFailsRestarts ==
  /\ Core("join")
  /\ Proceed({}, {}, "start")

\* The loop tries again, for ever if it must.
JoinFails ==
  /\ Core("join")
  /\ Proceed({}, {}, "join")

\* ... and init_network, up to its first await.
Joined ==
  /\ Core("join")
  /\ Proceed({"NETWORK_RESOURCES"}, {"wifi_network_runner"}, "wait_link_up")

-----------------------------------------------------------------------------
(* init_network *)

\* Mutant: the configuration is taken as soon as the link is up.
LinkIsUpTakesConfig ==
  /\ Core("wait_link_up") /\ link
  /\ Proceed({}, {}, "config_v4")

LinkIsUp ==
  /\ Core("wait_link_up") /\ link
  /\ Proceed({}, {}, "wait_config_up")

ConfigIsUp ==
  /\ Core("wait_config_up") /\ config
  /\ Proceed({}, {}, "config_v4")

\* config_v4() asks the stack again and its None panics.  There is no await since
\* wait_config_up: core_0_task has kept the executor (see ExecutorFree).
TakeConfig ==
  /\ Core("config_v4")
  /\ IF config THEN Proceed({}, {"run_server_task"}, "done") ELSE Panics("config")

\* No task is in the middle of a poll that the model splits in two.
ExecutorFree == core # "config_v4"

-----------------------------------------------------------------------------
(* run_server_task, and Server::run, which forwards to edge_http. *)

ServerTask ==
  /\ panic = None /\ "run_server_task" \in running
  /\ UNCHANGED <<link, config, drops, xvars>>

RunServer ==
  /\ ServerTask /\ "TCP_BUFFERS" \notin cells
  /\ Proceed({"TCP_BUFFERS"}, {}, core)

\* Suspended at bind.
Binding == ServerTask /\ "TCP_BUFFERS" \in cells /\ "HTTP_SERVER" \notin cells

Bound == Binding /\ Proceed({"HTTP_SERVER"}, {}, core)

\* The Err of bind is unwrapped.
BindFails == Binding /\ Panics("bind")

Serving == panic = None /\ "HTTP_SERVER" \in cells

\* An Err is unwrapped, and behind an Ok is unreachable!().
ServerRunEnds ==
  /\ Serving
  /\ Panics("server")
  /\ UNCHANGED <<link, config, drops, xvars>>

\* Packets are sent while the stack is configured; what fails fails at any time.
DemoServer == Serving /\ config /\ Server /\ UNCHANGED dvars

DemoClient ==
  /\ Serving \/ asked # <<>>
  /\ \/ ClientReads \/ ClientFails \/ ClientLeaves
     \/ Serving /\ config /\ \E r \in Request : ClientSends(r)
  /\ UNCHANGED dvars

DemoConnectionEnds == Serving /\ (ServerFails \/ ServerEnds) /\ UNCHANGED dvars

\* The routes of run_server_task, for contents of the given sizes.
DemoRoutes(index, version, favicon) ==
  <<[path |-> "/", handler |-> index],
    [path |-> "/version", handler |-> version],
    [path |-> "/hello_world",
     handler |-> [kind |-> "HelloWorldHandler", bytes |-> 30, chars |-> 30]],
    [path |-> "/favicon.ico", handler |-> favicon]>>

-----------------------------------------------------------------------------
(* The network (external), seen through the runner of the stack. *)

\* Mutant: the runner has an executor of its own that interrupts the other tasks.
StackRunsInterrupting == panic = None /\ "wifi_network_runner" \in running

\* The runner of the stack, which alone changes link and configuration, is polled.
StackRuns == panic = None /\ "wifi_network_runner" \in running /\ ExecutorFree

\* Also after a loss: the code calls join only once, so it is the chip that joins again.
LinkComesUp ==
  /\ StackRuns /\ ~link
  /\ link' = TRUE
  /\ UNCHANGED <<core, running, cells, panic, config, drops, xvars>>

DhcpAnswers ==
  /\ StackRuns /\ link /\ ~config
  /\ config' = TRUE
  /\ UNCHANGED <<core, running, cells, panic, link, drops, xvars>>

LinkGoesDown ==
  /\ StackRuns /\ link /\ drops < MaxDrops
  /\ link' = FALSE /\ config' = FALSE /\ drops' = drops + 1
  /\ UNCHANGED <<core, running, cells, panic, xvars>>

-----------------------------------------------------------------------------

CoreStep ==
  \/ Boot \/ StackGuardFails \/ CreateDriver \/ DriverCreated \/ ControlInitialised
  \/ \E s \in SsidLens, p \in PasswordLens : PowerManagementSet(s, p)
  \/ Joined \/ LinkIsUp \/ ConfigIsUp \/ TakeConfig

Network == LinkComesUp \/ DhcpAnswers

PNext ==
  \/ CoreStep \/ JoinFails \/ RunServer \/ Bound \/ BindFails \/ ServerRunEnds
  \/ DemoServer \/ DemoClient \/ DemoConnectionEnds
  \/ Network \/ LinkGoesDown

PSpec == PInit /\ [][PNext]_pvars

\* The executor polls a woken task again; the access point sooner or later accepts
\* the firmware, the link stays up and DHCP answers (after at most MaxDrops
\* interruptions), and the client reads what arrives.  Its timeout need not expire.
PFairSpec ==
  /\ PSpec
  /\ WF_pvars(CoreStep) /\ WF_pvars(RunServer \/ Bound) /\ WF_pvars(Network)
  /\ WF_pvars(DemoServer)
  /\ WF_pvars(ClientReads /\ UNCHANGED dvars)

-----------------------------------------------------------------------------
(* Properties. *)

\* The firmware panics only over what its surroundings give it: a stack guard that the
\* hardware refuses, credentials that do not fit, an address that cannot be bound, or a
\* Server::run that comes back.  No retry of join takes a StaticCell or spawns a task
\* twice, and no link that comes and goes takes the configuration away between
\* wait_config_up and its use.
PanicsExplained == panic \in {None, "stack_guard", "credentials", "bind", "server"}

\* The firmware comes up: no await of the start-up waits for a task that is only
\* spawned after it, and no order of link and address changes is missed.
DemoServes == <>(panic # None \/ Serving)

\* A client gets the answer to every request that an endpoint answers with a declared
\* length, without its timeout, unless it gives up, the connection ends or the
\* firmware panics; links that go down in between only delay it.
AnswersArrive ==
  \A i \in 1 .. MaxRequests :
    (Len(asked) >= i /\ StatusFor(asked[i]) = 200)
      ~> (Len(seen) >= i \/ cpc = "gone" \/ pc = "closed" \/ panic # None)
=============================================================================
