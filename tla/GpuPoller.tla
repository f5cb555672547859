------------------------------ MODULE GpuPoller ------------------------------
(***************************************************************************)
(* GPU detection and polling (internal/gpu), its readers and subscribers,  *)
(* and the container manager, which takes the vendor of its containers     *)
(* from a snapshot at start-up (cmd/bonnie/main.go, container/manager.go,  *)
(* container/runtime.go, handlers/gpu.go).                                 *)
(*                                                                         *)
(* A detection runs the vendor tools one after the other while the host    *)
(* may change under it.  A snapshot is its vendor and the number of its    *)
(* detection, which stands for the timestamp; the GPUs' names and numbers  *)
(* are left out.                                                           *)
(***************************************************************************)
EXTENDS Naturals, Sequences

CONSTANTS
  Users,       \* clients of the API and subscribers
  MaxPolls     \* bound: detections

ASSUME PollerAssumption == MaxPolls \in Nat \ {0}

VARIABLES
  present,     \* the vendors whose GPU and driver are there (external)
  cancelled,   \* the daemon's context is done
  pos,         \* the polling goroutine: the tool it runs next, or what follows
  polls,       \* detections begun so far
  snap,        \* the vendor the detection under way has found
  latest,      \* Poller.latest
  subs, sub,   \* Poller.subs: who has subscribed, and each one's channel of capacity 1
  vendor,      \* Manager.gpuVendor, "unset" before NewManager
  got, seen,   \* history: the newest snapshot each user received, and read
  steady,      \* history: vendors present, and their tools working, all through
               \* the detection under way
  missed,      \* history: the steady vendors of the detection behind latest
  made,        \* history: of the last container created, the vendor whose devices
               \* it got and the vendor then reported
  calm         \* history: no GPU came or went and no tool failed so far

pVars == <<present, cancelled, pos, polls, snap, latest, subs, sub, vendor, got, seen, steady,
           missed, made, calm>>

Vendors == {"nvidia", "amd", "intel"}
Found   == Vendors \cup {"none"}
Rank(v) == CASE v = "nvidia" -> 1 [] v = "amd" -> 2 [] v = "intel" -> 3 [] v = "none" -> 4
-----------------------------------------------------------------------------
(* The first detection is part of Poller.Start, before any reader exists. *)
Init ==
  /\ present \in SUBSET Vendors /\ cancelled = FALSE
  /\ pos = "nvidia" /\ polls = 1 /\ snap = "none"
  /\ latest = [vendor |-> "none", seq |-> 0]
  /\ subs = {} /\ sub = [u \in Users |-> <<>>]
  /\ vendor = "unset"
  /\ got = [u \in Users |-> 0] /\ seen = [u \in Users |-> 0]
  /\ steady = present /\ missed = {}
  /\ made = [injected |-> "none", reported |-> "none"] /\ calm = TRUE

Host == <<present, cancelled, subs>>
Ends == <<sub, vendor, got, seen, made>>

(* What a tool's run comes to: an error of the command, or output that is parsed whole
   or not at all (a line or device that does not parse, or no GPU, is an error). *)
Outcomes(v) == IF v \in present /\ ~cancelled THEN {"gpus", "bad"} ELSE {"bad"}

(* Detect: NVIDIA, then AMD, then Intel; the first that reports GPUs wins.  Then
   setLatest, then publish. *)
PublishFirst ==                       \* mutated: subscribers are told first
  [nvidia |-> "amd", amd |-> "intel", intel |-> "publish", found |-> "publish",
   set |-> "select", publish |-> "set"]
IntelLeftOut ==                       \* mutated: xpu-smi is never asked
  [nvidia |-> "amd", amd |-> "set", intel |-> "set", found |-> "set",
   set |-> "publish", publish |-> "select"]
After ==
  [nvidia |-> "amd", amd |-> "intel", intel |-> "set", found |-> "set",
   set |-> "publish", publish |-> "select"]

Probe(v) ==
  /\ pos = v
  /\ \E out \in Outcomes(v) :
       \/ out = "gpus" /\ snap' = v /\ pos' = After.found /\ UNCHANGED <<steady, calm>>
       \/ /\ out = "bad" /\ pos' = After[v] /\ UNCHANGED snap
          /\ steady' = steady \ {v} /\ calm' = (calm /\ v \notin present)
  /\ UNCHANGED <<Host, polls, latest, missed, Ends>>

DetectNVIDIA == Probe("nvidia")      \* nvidia-smi
DetectAMD    == Probe("amd")         \* rocm-smi
DetectIntel  == Probe("intel")       \* xpu-smi
Detect       == DetectNVIDIA \/ DetectAMD \/ DetectIntel

(* setLatest; the first detection is not published. *)
SetLatest ==
  /\ pos = "set"
  /\ latest' = [vendor |-> snap, seq |-> polls] /\ missed' = steady
  /\ pos' = IF polls = 1 THEN "select" ELSE After.set
  /\ UNCHANGED <<Host, polls, snap, steady, calm, Ends>>

(* main.run: Start has returned, and the manager gets the vendor of the snapshot that is
   the latest by then.  The goroutine is running already and may have ticked. *)
NewManagerEarly ==                    \* mutated: Start returns before the first detection
  /\ vendor = "unset" /\ vendor' = latest.vendor
  /\ UNCHANGED <<Host, pos, polls, snap, latest, steady, missed, sub, got, seen, made, calm>>
NewManager ==
  /\ vendor = "unset" /\ latest.seq > 0 /\ vendor' = latest.vendor
  /\ UNCHANGED <<Host, pos, polls, snap, latest, steady, missed, sub, got, seen, made, calm>>

(* publish: a subscriber whose channel is full keeps what it has. *)
Publish ==
  /\ pos = "publish"
  /\ sub' = [u \in Users |-> IF u \in subs /\ sub[u] = <<>> THEN <<polls>> ELSE sub[u]]
  /\ pos' = After.publish
  /\ UNCHANGED <<Host, polls, snap, latest, steady, missed, vendor, got, seen, made, calm>>

(* The select of the goroutine: a tick, or the end of the context. *)
Tick ==
  /\ pos = "select" /\ polls < MaxPolls
  /\ polls' = polls + 1 /\ pos' = "nvidia" /\ snap' = "none"
  /\ steady' = IF cancelled THEN {} ELSE present
  /\ UNCHANGED <<Host, latest, missed, calm, Ends>>

Ignore ==                             \* mutated: ranges over the ticker alone
  pos = "select" /\ cancelled /\ UNCHANGED pVars
Stop ==
  /\ pos = "select" /\ cancelled /\ pos' = "stopped"
  /\ UNCHANGED <<Host, polls, snap, latest, steady, missed, calm, Ends>>

Poller == Detect \/ SetLatest \/ Publish
-----------------------------------------------------------------------------
(* Users *)

Subscribe(u) ==
  /\ vendor # "unset" /\ u \notin subs /\ subs' = subs \cup {u}
  /\ UNCHANGED <<present, cancelled, pos, polls, snap, latest, steady, missed, calm, Ends>>

Receive(u) ==
  /\ sub[u] # <<>>
  /\ got' = [got EXCEPT ![u] = Head(sub[u])] /\ sub' = [sub EXCEPT ![u] = <<>>]
  /\ UNCHANGED <<Host, pos, polls, snap, latest, steady, missed, vendor, seen, made, calm>>

(* GET /gpu/status and /metrics *)
Read(u) ==
  /\ vendor # "unset" /\ seen' = [seen EXCEPT ![u] = latest.seq]
  /\ UNCHANGED <<Host, pos, polls, snap, latest, steady, missed, sub, vendor, got, made, calm>>

(* POST /containers with "gpu": true, and the engine of a benchmark run. *)
InjectGPU(v) == made' = [injected |-> v, reported |-> latest.vendor]
Create ==
  /\ vendor # "unset" /\ InjectGPU(vendor)
  /\ UNCHANGED <<Host, pos, polls, snap, latest, steady, missed, sub, vendor, got, seen, calm>>
-----------------------------------------------------------------------------
(* The host: a GPU appears or disappears, a driver is loaded or fails. *)
HostChanges(v) ==
  /\ present' = IF v \in present THEN present \ {v} ELSE present \cup {v}
  /\ steady' = steady \ {v} /\ calm' = FALSE
  /\ UNCHANGED <<cancelled, subs, pos, polls, snap, latest, missed, Ends>>

(* The daemon is told to stop, which makes a tool that is running fail. *)
Cancel ==
  /\ ~cancelled /\ cancelled' = TRUE /\ steady' = {} /\ calm' = FALSE
  /\ UNCHANGED <<present, subs, pos, polls, snap, latest, missed, Ends>>

Next ==
  \/ Poller \/ Tick \/ Stop \/ NewManager \/ Create \/ Cancel
  \/ \E u \in Users : Subscribe(u) \/ Receive(u) \/ Read(u)
  \/ \E v \in Vendors : HostChanges(v)

Spec == Init /\ [][Next]_pVars

(* A tool is killed when the context ends, and returns; until then it may hang.  A select
   that finds both the tick and the end of the context ready takes either with equal
   chance: strong fairness. *)
FairSpec == Spec /\ WF_pVars(cancelled /\ Poller) /\ SF_pVars(Stop)
-----------------------------------------------------------------------------
(* Properties *)

(* Every variable has its type; a channel holds at most one snapshot. *)
TypeOK ==
  /\ present \subseteq Vendors /\ cancelled \in BOOLEAN
  /\ pos \in Vendors \cup {"set", "publish", "select", "stopped"}
  /\ polls \in 1 .. MaxPolls /\ snap \in Found
  /\ latest \in [vendor : Found, seq : 0 .. MaxPolls]
  /\ subs \subseteq Users /\ sub \in [Users -> {<<>>} \cup {<<i>> : i \in 1 .. MaxPolls}]
  /\ vendor \in Found \cup {"unset"}
  /\ got \in [Users -> 0 .. MaxPolls] /\ seen \in [Users -> 0 .. MaxPolls]
  /\ steady \subseteq Vendors /\ missed \subseteq Vendors
  /\ made \in [injected : Found, reported : Found] /\ calm \in BOOLEAN

(* A user that reads /gpu/status after it received a snapshot gets one at least as new,
   and never an older one than it has read before. *)
NeverAhead ==
  [][\A u \in Users : seen'[u] # seen[u] => seen'[u] >= got[u] /\ seen'[u] > seen[u]]_pVars

(* A GPU that is there, with its tool working, all through a detection is reported by
   it, unless one of a vendor that is asked earlier is: whatever the other tools do and
   however the host changes meanwhile. *)
SteadyIsReported == \A v \in missed : Rank(latest.vendor) <= Rank(v)

(* What a subscriber finds in its channel is newer than all it has received. *)
NewsIsNew == \A u \in Users : sub[u] # <<>> => got[u] < sub[u][1] /\ sub[u][1] <= latest.seq

(* The polling goroutine ends with the daemon's context, also in the middle of a
   detection and with the next tick waiting. *)
CancelStopsPoller == cancelled ~> pos = "stopped"

(* "If GPU=true, InjectGPU() modifies HostConfig based on detected vendor"
   (docs/architecture.md): as long as the host's GPUs and tools stay as they were at the
   start, a container gets the devices of the vendor the API reports.  After a change it
   may not: the manager keeps the vendor it got at the start. *)
CalmInjectsReported == calm => made.injected = made.reported
-----------------------------------------------------------------------------
(* Why these hold: how far a detection has come, and what it can have found. *)

First(vs) == IF "nvidia" \in vs THEN "nvidia" ELSE IF "amd" \in vs THEN "amd"
             ELSE IF "intel" \in vs THEN "intel" ELSE "none"

ProbedSofar ==
  /\ pos \in Vendors =>
       snap = "none" /\ \A v \in Vendors : Rank(v) < Rank(pos) =>
                           v \notin steady /\ (calm => v \notin present)
  /\ pos = "set" => /\ \A v \in steady : Rank(snap) <= Rank(v)
                    /\ calm => snap = First(present)
  /\ pos \in {"publish", "select", "stopped"} => latest.seq = polls
  /\ pos \in Vendors \cup {"set"} => latest.seq = polls - 1

CalmIsSteady ==
  calm => /\ ~cancelled
          /\ latest.seq > 0 => latest.vendor = First(present)
          /\ vendor # "unset" => vendor = First(present)

Booted == vendor # "unset" => latest.seq > 0

UpToDate ==
  \A u \in Users : got[u] <= latest.seq /\ seen[u] <= latest.seq
                  /\ (pos = "publish" => got[u] < polls /\ (sub[u] # <<>> => sub[u][1] < polls))

(* What every step preserves. *)
PollerInv ==
  /\ TypeOK /\ ProbedSofar /\ CalmIsSteady /\ Booted /\ UpToDate
  /\ NewsIsNew /\ SteadyIsReported /\ CalmInjectsReported
=============================================================================
