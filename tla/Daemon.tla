------------------------------- MODULE Daemon -------------------------------
(***************************************************************************)
(* The daemon from start to exit (cmd/bonnie/main.go), the benchmark runs  *)
(* its clients ask for, and the operator's container requests (container/  *)
(* manager.go, handlers/container.go), over one Docker host that outlives  *)
(* the daemon.                                                             *)
(*                                                                         *)
(* A client makes one benchmark request after the other, always with the   *)
(* same run ID, which other clients may use too: then names collide.  A    *)
(* run is that of PairedRun without its events and its logs: one position  *)
(* per Docker request (PairedRun!RunsAsInDaemon).                          *)
(***************************************************************************)
EXTENDS Naturals, Sequences

CONSTANTS
  Clients,   \* who asks for benchmark runs
  Names,     \* run IDs
  RunName,   \* the run ID each client uses
  Nobody     \* not a client

ASSUME DaemonAssumption == RunName \in [Clients -> Names] /\ Nobody \notin Clients

VARIABLES
  proc,      \* the process: off, booting, serving, stopping
  told,      \* the signal context is done: the daemon was told to stop
  failed,    \* errCh has an error: the listener could not be opened, or broke
  exit,      \* how the last process ended: not yet, with 0, with 1, or killed
  pc, todo,  \* each client's run: its next request, what its clean-up has left
  box,       \* Docker: the state of the two containers of each run ID
  by,        \* whose runState holds the ID of that container
  nets, vols,\* Docker: the run IDs whose network, and whose volume, exist
  marred,    \* history: run IDs for which Docker refused a clean-up or lost the reply
             \* to a create, the operator acted or the process was killed
  stray,     \* the runs whose handler has returned without them: it could not write
  late       \* history: run IDs in flight when Shutdown gave up, or not waited for

main   == <<proc, told, failed, exit, stray>>
docker == <<box, by, nets, vols>>
dVars  == <<main, pc, todo, docker, marred, late>>

Kinds  == {"engine", "bench"}
Steps  == {"network", "volume", "engine", "startEngine", "bench", "startBench", "wait"}
InFlight(r) == pc[r] \in Steps \cup {"cleanup"}
-----------------------------------------------------------------------------
Init ==
  /\ proc = "off" /\ told = FALSE /\ failed = FALSE /\ exit = "none"
  /\ pc = [r \in Clients |-> "idle"] /\ todo = [r \in Clients |-> <<>>]
  /\ box = [n \in Names |-> [k \in Kinds |-> "absent"]]
  /\ by = [n \in Names |-> [k \in Kinds |-> Nobody]]
  /\ nets = {} /\ vols = {} /\ marred = {} /\ stray = {} /\ late = {}
-----------------------------------------------------------------------------
(* A run: a request of its setup succeeds, fails, or takes effect although its reply is
   lost, which to the run is a failure too.  A failure leads to the clean-up.  The run of
   a handler that has returned is cancelled: no request of its setup succeeds. *)

NetworkFirst == <<"network", "bench", "engine", "volume">>   \* mutated: in use, so kept
CleanupOrder == <<"bench", "engine", "network", "volume">>

Move(r, next) == pc' = [pc EXCEPT ![r] = next] /\ UNCHANGED todo
GoOn(r, next) == r \notin stray /\ Move(r, next)
Fail(r) == pc' = [pc EXCEPT ![r] = "cleanup"] /\ todo' = [todo EXCEPT ![r] = CleanupOrder]

(* The request arrives while the listener is open; the handler starts the run. *)
Request(r) ==
  /\ proc = "serving" /\ pc[r] = "idle"
  /\ Move(r, "network")
  /\ UNCHANGED <<main, docker, marred, late>>

(* Docker refuses a second network of the same name. *)
MakeNetwork(r) ==
  /\ pc[r] = "network" /\ RunName[r] \notin nets
  /\ nets' = nets \cup {RunName[r]} /\ (GoOn(r, "volume") \/ Fail(r))
  /\ UNCHANGED <<main, box, by, vols, marred, late>>

(* Docker answers with the volume that is there already. *)
MakeVolume(r) ==
  /\ pc[r] = "volume"
  /\ vols' = vols \cup {RunName[r]} /\ (GoOn(r, "engine") \/ Fail(r))
  /\ UNCHANGED <<main, box, by, nets, marred, late>>

(* ContainerCreate, for a name no container has; the ID goes to runState with the
   reply, or is lost with it. *)
MakeBox(r, k, next) ==
  LET n == RunName[r] IN
  /\ box[n][k] = "absent"
  /\ box' = [box EXCEPT ![n][k] = "created"]
  /\ \/ by' = [by EXCEPT ![n][k] = r] /\ GoOn(r, next) /\ UNCHANGED marred
     \/ Fail(r) /\ marred' = marred \cup {n} /\ UNCHANGED by
  /\ UNCHANGED <<main, nets, late>>

MakeEngine(r) ==
  pc[r] = "engine" /\ MakeBox(r, "engine", "startEngine") /\ UNCHANGED vols

(* Docker creates the volume a container mounts, if it is not there. *)
MakeBench(r) ==
  /\ pc[r] = "bench" /\ MakeBox(r, "bench", "startBench")
  /\ vols' = vols \cup {RunName[r]}

(* ContainerStart by ID, if the container and the network of its name are there. *)
StartBox(r, k, next) ==
  LET n == RunName[r] IN
  /\ by[n][k] = r /\ n \in nets
  /\ box' = [box EXCEPT ![n][k] = "running"]
  /\ GoOn(r, next) \/ Fail(r)
  /\ UNCHANGED <<main, by, nets, vols, marred, late>>

StartEngine(r) == pc[r] = "startEngine" /\ StartBox(r, "engine", "bench")
StartBench(r)  == pc[r] = "startBench" /\ StartBox(r, "bench", "wait")

(* A request of the setup fails, or the run has its result, or its context is done. *)
LeaveSetup(r) ==
  /\ pc[r] \in Steps /\ Fail(r)
  /\ UNCHANGED <<main, docker, marred, late>>

(* cleanupRun removes the containers whose IDs it has, and network and volume by their
   name, whoever created those.  Docker keeps a network with running containers and a
   volume with a container (external).  Every error is ignored. *)
SameName(r, k) == TRUE                           \* mutated: containers by name, too
Mine(r, k) == by[RunName[r]][k] = r

RemoveBox(r, k) ==
  LET n == RunName[r] IN
  /\ box' = IF Mine(r, k) THEN [box EXCEPT ![n][k] = "absent"] ELSE box
  /\ by' = IF Mine(r, k) THEN [by EXCEPT ![n][k] = Nobody] ELSE by
  /\ UNCHANGED <<nets, vols>>

RemoveNetwork(n) ==
  /\ nets' = IF \E k \in Kinds : box[n][k] = "running" THEN nets ELSE nets \ {n}
  /\ UNCHANGED <<box, by, vols>>

RemoveVolume(n) ==
  /\ vols' = IF box[n]["bench"] # "absent" THEN vols ELSE vols \ {n}
  /\ UNCHANGED <<box, by, nets>>

RemoveHead(r) ==
  \/ \E k \in Kinds : Head(todo[r]) = k /\ RemoveBox(r, k)
  \/ Head(todo[r]) = "network" /\ RemoveNetwork(RunName[r])
  \/ Head(todo[r]) = "volume" /\ RemoveVolume(RunName[r])

(* With runState its IDs are forgotten, also those of containers Docker kept. *)
Cleanup(r) ==
  /\ pc[r] = "cleanup" /\ todo[r] # <<>>
  /\ \/ RemoveHead(r) /\ UNCHANGED marred
     \/ UNCHANGED docker /\ marred' = marred \cup {RunName[r]}
  /\ todo' = [todo EXCEPT ![r] = Tail(@)]
  /\ UNCHANGED <<main, pc, late>>

EndRun(r) ==
  /\ pc[r] = "cleanup" /\ todo[r] = <<>>
  /\ by' = [n \in Names |-> [k \in Kinds |-> IF by[n][k] = r THEN Nobody ELSE by[n][k]]]
  /\ Move(r, "idle") /\ stray' = stray \ {r}
  /\ UNCHANGED <<proc, told, failed, exit, box, nets, vols, marred, late>>

(* The handler cannot write an event to its client and returns, which cancels the run but
   does not wait for it. *)
StreamBreaks(r) ==
  /\ InFlight(r) /\ r \notin stray /\ stray' = stray \cup {r}
  /\ UNCHANGED <<proc, told, failed, exit, pc, todo, docker, marred, late>>

RunStep(r) ==
  \/ MakeNetwork(r) \/ MakeVolume(r) \/ MakeEngine(r) \/ StartEngine(r) \/ MakeBench(r)
  \/ StartBench(r) \/ LeaveSetup(r) \/ Cleanup(r) \/ EndRun(r)
-----------------------------------------------------------------------------
(* The operator's requests on a run's container, by its name, and its own exit. *)

Touch(n, k, state) ==
  /\ box' = [box EXCEPT ![n][k] = state]
  /\ UNCHANGED <<main, pc, todo, nets, vols, late>>

Operate(n, k, from, state) ==
  /\ proc = "serving" /\ box[n][k] \in from
  /\ Touch(n, k, state) /\ marred' = marred \cup {n}

OperatorStarts(n, k) ==
  n \in nets /\ Operate(n, k, {"created", "exited"}, "running") /\ UNCHANGED by
OperatorRestarts(n, k) ==
  n \in nets /\ Operate(n, k, {"created", "running", "exited"}, "running") /\ UNCHANGED by
OperatorStops(n, k) == Operate(n, k, {"running"}, "exited") /\ UNCHANGED by
OperatorRemoves(n, k) ==
  /\ Operate(n, k, {"created", "running", "exited"}, "absent")
  /\ by' = [by EXCEPT ![n][k] = Nobody]

Exits(n, k) ==
  box[n][k] = "running" /\ Touch(n, k, "exited") /\ UNCHANGED <<by, marred>>

Outside(n, k) ==
  \/ OperatorStarts(n, k) \/ OperatorRestarts(n, k) \/ OperatorStops(n, k)
  \/ OperatorRemoves(n, k) \/ Exits(n, k)
-----------------------------------------------------------------------------
(* The process *)

(* Its end cuts every run off, and with the runs go their container IDs; Docker keeps
   what it has. *)
Halt(status) ==
  /\ proc' = "off" /\ exit' = status
  /\ pc' = [r \in Clients |-> "idle"]
  /\ todo' = [r \in Clients |-> <<>>] /\ stray' = {}
  /\ by' = [n \in Names |-> [k \in Kinds |-> Nobody]]
  /\ UNCHANGED <<told, failed, box, nets, vols>>

CutOff   == {RunName[r] : r \in {s \in Clients : InFlight(s)}}
Forsaken == {RunName[r] : r \in stray}

MainOnly == UNCHANGED <<pc, todo, docker, marred, stray, late>>

(* The service manager starts the daemon.  main.run comes to its listener, unless
   configuration, Docker client or model store return an error. *)
Launch ==
  /\ proc = "off" /\ proc' = "booting" /\ exit' = "none"
  /\ told' = FALSE /\ failed' = FALSE /\ MainOnly

BootFails == proc = "booting" /\ ~failed /\ Halt("1") /\ UNCHANGED <<marred, late>>

Listen ==
  /\ proc = "booting" /\ ~failed /\ proc' = "serving"
  /\ UNCHANGED <<told, failed, exit>> /\ MainOnly

(* net.Listen or Serve returns an error, which goes to errCh. *)
ServerFails ==
  /\ proc \in {"booting", "serving"} /\ ~failed /\ failed' = TRUE
  /\ UNCHANGED <<proc, told, exit>> /\ MainOnly

Signal ==
  /\ proc # "off" /\ ~told /\ told' = TRUE
  /\ UNCHANGED <<proc, failed, exit>> /\ MainOnly

(* The select of run(): either way srv.Shutdown closes the listener and waits. *)
BeginShutdown ==
  /\ proc \in {"booting", "serving"} /\ (told \/ failed) /\ proc' = "stopping"
  /\ UNCHANGED <<told, failed, exit>> /\ MainOnly

(* Shutdown returns when no request is active; run() returns nil whatever errCh said.  A
   run whose handler has returned is no request any more. *)
NoWait  == TRUE                                  \* mutated: Close instead of Shutdown
Drained == \A r \in Clients : InFlight(r) => r \in stray

ShutdownDone ==
  /\ proc = "stopping" /\ Drained /\ Halt("0")
  /\ late' = late \cup Forsaken /\ UNCHANGED marred

(* ... or after 10 s, with an error that becomes exit status 1.  The requests, and
   the contexts of their runs, are not cancelled. *)
Unbounded  == FALSE                              \* mutated: no timeout
TenSeconds == TRUE

ShutdownTimeout ==
  /\ proc = "stopping" /\ TenSeconds /\ Halt("1")
  /\ late' = late \cup CutOff /\ UNCHANGED marred

(* The process dies: a panic outside any handler, or a signal it cannot catch. *)
Die == proc # "off" /\ Halt("killed") /\ marred' = marred \cup CutOff /\ UNCHANGED late

Main == Listen \/ BeginShutdown \/ ShutdownDone \/ ShutdownTimeout

Next ==
  \/ \E r \in Clients : Request(r) \/ RunStep(r) \/ StreamBreaks(r)
  \/ \E n \in Names, k \in Kinds : Outside(n, k)
  \/ Main \/ Launch \/ BootFails \/ ServerFails \/ Signal \/ Die

Spec == Init /\ [][Next]_dVars

(* main.run goes on by itself and its timer fires.  Of a run nothing is assumed: its
   benchmark may take for ever. *)
FairSpec == Spec /\ WF_dVars(Main)
-----------------------------------------------------------------------------
(* Properties *)

(* What a clean-up can have left. *)
T4 == <<"bench", "engine", "network", "volume">>
T3 == <<"engine", "network", "volume">>
T2 == <<"network", "volume">>
T1 == <<"volume">>
T0 == <<>>

(* Every variable has its type. *)
TypeOK ==
  /\ proc \in {"off", "booting", "serving", "stopping"}
  /\ told \in BOOLEAN /\ failed \in BOOLEAN /\ exit \in {"none", "0", "1", "killed"}
  /\ pc \in [Clients -> {"idle", "cleanup"} \cup Steps]
  /\ todo \in [Clients -> {T4, T3, T2, T1, T0}]
  /\ box \in [Names -> [Kinds -> {"absent", "created", "running", "exited"}]]
  /\ by \in [Names -> [Kinds -> Clients \cup {Nobody}]]
  /\ nets \subseteq Names /\ vols \subseteq Names
  /\ marred \subseteq Names /\ stray \subseteq Clients /\ late \subseteq Names

Idle(n)  == \A r \in Clients : RunName[r] = n => ~InFlight(r)
Clean(n) == n \notin nets \cup vols /\ \A k \in Kinds : box[n][k] = "absent"

(* However the runs of one ID overlap, fail on each other's names and remove each
   other's network and volume, nothing of that ID is left in Docker once the last of
   them is over; and a process that ends with status 0 leaves nothing of any run, unless
   its handler could not write and returned before it (benchmark.go:108). *)
IdleNameIsClean == \A n \in Names \ (marred \cup late) : Idle(n) => Clean(n)

(* At most one run of an ID is past the creation of its engine, because no other run
   removes that engine: each holds the containers it is about to use. *)
Engaged(r) == pc[r] \in {"startEngine", "bench", "startBench", "wait"}
OneRunPerName ==
  \A r, s \in Clients :
    RunName[r] = RunName[s] /\ Engaged(r) /\ Engaged(s) /\ RunName[r] \notin marred => r = s

(* A daemon told to stop does so, whatever its runs wait for. *)
SignalEndsProcess == told ~> proc = "off"

(* Nothing is left of a run, also if the daemon is told to stop: "Cleanup ... always
   runs, even on context cancel or error" (paired_run.go:100). *)
StopLeavesNothing == \A n \in Names \ marred : Idle(n) => Clean(n)
-----------------------------------------------------------------------------
(* Why these hold: who still owes the removal of what. *)

(* Run r will come to the removal of x. *)
ToGo(x) == {T4} \cup (IF x = "bench" THEN {} ELSE {T3})
                \cup (IF x \in Kinds THEN {} ELSE {T2})
                \cup (IF x = "volume" THEN {T1} ELSE {})
Owes(r, x) == pc[r] \in Steps \/ (pc[r] = "cleanup" /\ todo[r] \in ToGo(x))

HoldersRun ==
  \A n \in Names, k \in Kinds, r \in Clients :
    by[n][k] = r => RunName[r] = n /\ InFlight(r) /\ box[n][k] # "absent"

AllIsOwed ==
  \A n \in Names \ (marred \cup late) :
    /\ \A k \in Kinds : box[n][k] # "absent" => \E r \in Clients : by[n][k] = r /\ Owes(r, k)
    /\ n \in nets => \E r \in Clients : RunName[r] = n /\ Owes(r, "network")
    /\ n \in vols => \E r \in Clients : RunName[r] = n /\ Owes(r, "volume")

EngagedHoldEngine ==
  \A r \in Clients :
    Engaged(r) /\ RunName[r] \notin marred => by[RunName[r]]["engine"] = r

StraysRun == \A r \in stray : InFlight(r)

OffMeansIdle == proc \in {"off", "booting"} => \A r \in Clients : pc[r] = "idle"

(* What every step preserves. *)
DaemonInv ==
  /\ TypeOK /\ HoldersRun /\ AllIsOwed /\ EngagedHoldEngine /\ OffMeansIdle
  /\ StraysRun
=============================================================================
