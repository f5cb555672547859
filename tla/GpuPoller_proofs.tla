--------------------------- MODULE GpuPoller_proofs ---------------------------
(***************************************************************************)
(* The invariant of detection and polling, for any number of users and     *)
(* detections.                                                             *)
(***************************************************************************)
EXTENDS GpuPoller, TLAPS

(* The ranks of the vendors are distinct numbers, in the order of Detect. *)
LEMMA Ranks ==
  /\ Rank("nvidia") = 1 /\ Rank("amd") = 2 /\ Rank("intel") = 3 /\ Rank("none") = 4
  BY DEF Rank

(* Detect asks the three tools in turn; the first with GPUs ends it. *)
LEMMA Afters ==
  /\ After["nvidia"] = "amd" /\ After["amd"] = "intel" /\ After["intel"] = "set"
  /\ After.found = "set" /\ After.set = "publish" /\ After.publish = "select"
  BY DEF After

LEMMA InitInv == PollerAssumption /\ Init => PollerInv
<1> SUFFICES ASSUME PollerAssumption, Init PROVE PollerInv
  OBVIOUS
<1>1. TypeOK
  <2>1. present \subseteq Vendors /\ steady \subseteq Vendors /\ missed \subseteq Vendors
    BY DEF Init
  <2>2. polls \in 1 .. MaxPolls /\ 0 \in 0 .. MaxPolls
    BY SMT DEF Init, PollerAssumption
  <2>3. latest \in [vendor : Found, seq : 0 .. MaxPolls] /\ made \in [injected : Found, reported : Found]
    BY <2>2, Zenon DEF Init, Found
  <2>4. /\ sub \in [Users -> {<<>>} \cup {<<i>> : i \in 1 .. MaxPolls}]
        /\ got \in [Users -> 0 .. MaxPolls] /\ seen \in [Users -> 0 .. MaxPolls]
    BY <2>2 DEF Init
  <2> QED
    BY <2>1, <2>2, <2>3, <2>4 DEF Init, TypeOK, Found, Vendors
<1>2. ProbedSofar
  <2>1. pos = "nvidia" /\ snap = "none" /\ latest.seq = 0 /\ polls = 1
    BY DEF Init
  <2>2. \A v \in Vendors : ~(Rank(v) < Rank(pos))
    BY <2>1, Ranks, SMT DEF Vendors
  <2> QED
    BY <2>1, <2>2, SMT DEF ProbedSofar
<1>3. CalmIsSteady /\ Booted
  BY SMT DEF Init, CalmIsSteady, Booted, Vendors
<1>4. UpToDate /\ NewsIsNew
  BY SMT DEF Init, UpToDate, NewsIsNew
<1>5. SteadyIsReported /\ CalmInjectsReported
  BY SMT DEF Init, SteadyIsReported, CalmInjectsReported
<1> QED
  BY <1>1, <1>2, <1>3, <1>4, <1>5 DEF PollerInv

(* A tool of vendor v ran, and what holds of the vendors asked before it. *)
LEMMA ProbeInv ==
  ASSUME PollerAssumption, PollerInv, NEW v \in Vendors, Probe(v)
  PROVE  PollerInv'
<1>0. TypeOK /\ ProbedSofar /\ CalmIsSteady /\ Booted /\ UpToDate /\ NewsIsNew
      /\ SteadyIsReported /\ CalmInjectsReported
  BY DEF PollerInv
<1>a. /\ pos = v
      /\ UNCHANGED <<subs, present, cancelled, polls, latest, missed, sub, vendor, got, seen, made>>
  BY DEF Probe, Host, Ends
<1>b. /\ snap = "none" /\ latest.seq = polls - 1
      /\ \A u \in Vendors : Rank(u) < Rank(v) => u \notin steady /\ (calm => u \notin present)
  BY <1>0, <1>a DEF ProbedSofar
<1>c. pos' \in {"amd", "intel", "set"} /\ (calm' => calm) /\ calm' \in BOOLEAN
      /\ steady' \subseteq steady /\ snap' \in {snap, v}
  <2>1. After[v] \in {"amd", "intel", "set"} /\ calm \in BOOLEAN
    BY <1>0, Afters DEF Vendors, TypeOK
  <2>2. \/ snap' = v /\ pos' = After.found /\ steady' = steady /\ calm' = calm
        \/ /\ pos' = After[v] /\ snap' = snap
           /\ steady' = steady \ {v} /\ calm' = (calm /\ v \notin present)
    BY DEF Probe
  <2>3. calm' \in BOOLEAN /\ (calm' => calm)
    <3>1. CASE calm' = calm
      BY <2>1, <3>1
    <3>2. CASE calm' = (calm /\ v \notin present)
      BY <3>2, Zenon
    <3> QED
      BY <2>2, <3>1, <3>2
  <2> QED
    BY <2>1, <2>2, <2>3, Afters
<1>1. TypeOK'
  BY <1>0, <1>a, <1>c, SMT DEF TypeOK, Vendors, Found
<1>2. ProbedSofar'
  <2>1. CASE snap' = v /\ pos' = "set" /\ UNCHANGED <<steady, calm>> /\ v \in present
    <3>1. \A u \in steady : Rank(v) <= Rank(u)
      <4>1. \A u \in Vendors : Rank(u) \in {1, 2, 3}
        BY Ranks DEF Vendors
      <4>2. \A u \in Vendors : Rank(v) <= Rank(u) \/ Rank(u) < Rank(v)
        BY <4>1, SMT
      <4> QED
        BY <1>0, <1>b, <4>2 DEF TypeOK
    <3>2. calm => v = First(present)
      BY <1>b, <2>1, Ranks, SMT DEF First, Vendors
    <3> QED
      BY <1>a, <1>b, <2>1, <3>1, <3>2 DEF ProbedSofar, Vendors
  <2>2. CASE /\ pos' = After[v] /\ UNCHANGED snap
             /\ steady' = steady \ {v} /\ calm' = (calm /\ v \notin present)
    <3>1. CASE v = "nvidia"
      <4>1. pos' = "amd" /\ \A u \in Vendors : Rank(u) < Rank("amd") => u = v
        BY <2>2, <3>1, Afters, Ranks, SMT DEF Vendors
      <4> QED
        BY <1>a, <1>b, <2>2, <4>1 DEF ProbedSofar, Vendors
    <3>2. CASE v = "amd"
      <4>1. pos' = "intel" /\ \A u \in Vendors : Rank(u) < Rank("intel") => u = v \/ Rank(u) < Rank(v)
        BY <2>2, <3>2, Afters, Ranks, SMT DEF Vendors
      <4> QED
        BY <1>a, <1>b, <2>2, <4>1 DEF ProbedSofar, Vendors
    <3>3. CASE v = "intel"
      <4>1. pos' = "set" /\ \A u \in Vendors : u = v \/ Rank(u) < Rank(v)
        BY <2>2, <3>3, Afters, Ranks, SMT DEF Vendors
      <4>2. \A u \in Vendors : u \notin steady' /\ (calm' => u \notin present')
        BY <1>a, <1>b, <2>2, <4>1
      <4>3. steady' = {}
        BY <1>1, <4>2 DEF TypeOK
      <4>4. calm' => First(present') = "none"
        BY <4>2 DEF First, Vendors
      <4> QED
        BY <1>a, <1>b, <2>2, <4>1, <4>3, <4>4 DEF ProbedSofar, Vendors
    <3> QED
      BY <3>1, <3>2, <3>3 DEF Vendors
  <2> QED
    BY <2>1, <2>2, Afters DEF Probe, Outcomes
<1>3. CalmIsSteady'
  BY <1>0, <1>a, <1>c DEF CalmIsSteady
<1>4. Booted'
  BY <1>0, <1>a, <1>c DEF Booted, Vendors
<1>5. UpToDate'
  BY <1>0, <1>a, <1>c DEF UpToDate
<1>6. NewsIsNew'
  BY <1>0, <1>a DEF NewsIsNew
<1>7. SteadyIsReported'
  BY <1>0, <1>a DEF SteadyIsReported
<1>8. CalmInjectsReported'
  BY <1>0, <1>a, <1>c DEF CalmInjectsReported
<1> QED
  BY <1>1, <1>2, <1>3, <1>4, <1>5, <1>6, <1>7, <1>8 DEF PollerInv

(* The three tools of a detection. *)
LEMMA ProbeInvs == ASSUME PollerAssumption, PollerInv, Detect PROVE PollerInv'
  BY ProbeInv DEF Detect, DetectNVIDIA, DetectAMD, DetectIntel, Vendors

(* setLatest: the new snapshot is what the detection found. *)
LEMMA SetLatestInv ==
  ASSUME PollerAssumption, PollerInv, SetLatest
  PROVE  PollerInv'
<1>0. TypeOK /\ ProbedSofar /\ CalmIsSteady /\ Booted /\ UpToDate /\ NewsIsNew
      /\ SteadyIsReported /\ CalmInjectsReported
  BY DEF PollerInv
<1>a. /\ pos = "set" /\ latest' = [vendor |-> snap, seq |-> polls] /\ missed' = steady
      /\ pos' = IF polls = 1 THEN "select" ELSE "publish"
      /\ UNCHANGED <<subs, present, cancelled, polls, snap, sub, vendor, got, seen, steady, made, calm>>
  BY Afters DEF SetLatest, Host, Ends
<1>1. TypeOK'
  BY <1>0, <1>a, SMT DEF TypeOK, Vendors, Found, PollerAssumption
<1>2. ProbedSofar'
  BY <1>0, <1>a, SMT DEF ProbedSofar, TypeOK, Vendors
<1>3. CalmIsSteady'
  BY <1>0, <1>a, SMT DEF CalmIsSteady, ProbedSofar
<1>4. Booted'
  BY <1>0, <1>a, SMT DEF Booted, Vendors, TypeOK, PollerAssumption
<1>5. UpToDate'
  BY <1>0, <1>a, SMT DEF UpToDate, ProbedSofar, TypeOK, Vendors, NewsIsNew
<1>6. NewsIsNew'
  BY <1>0, <1>a, SMT DEF NewsIsNew, ProbedSofar, TypeOK, Vendors
<1>7. SteadyIsReported'
  BY <1>0, <1>a, SMT DEF SteadyIsReported, ProbedSofar
<1>8. CalmInjectsReported'
  BY <1>0, <1>a, SMT DEF CalmInjectsReported
<1> QED
  BY <1>1, <1>2, <1>3, <1>4, <1>5, <1>6, <1>7, <1>8 DEF PollerInv

(* NewManager: the vendor is that of the latest snapshot. *)
LEMMA NewManagerInv ==
  ASSUME PollerAssumption, PollerInv, NewManager
  PROVE  PollerInv'
<1>0. TypeOK /\ ProbedSofar /\ CalmIsSteady /\ Booted /\ UpToDate /\ NewsIsNew
      /\ SteadyIsReported /\ CalmInjectsReported
  BY DEF PollerInv
<1>a. /\ latest.seq > 0 /\ vendor' = latest.vendor
      /\ UNCHANGED <<pos, subs, present, cancelled, polls, snap, latest, sub, got, seen, steady, missed, made, calm>>
  BY Afters DEF NewManager, Host, Ends
<1>1. TypeOK'
  BY <1>0, <1>a, SMT DEF TypeOK, Vendors, Found, PollerAssumption
<1>2. ProbedSofar'
  BY <1>0, <1>a, SMT DEF ProbedSofar, Vendors
<1>3. CalmIsSteady'
  BY <1>0, <1>a, SMT DEF CalmIsSteady, ProbedSofar, TypeOK
<1>4. Booted'
  BY <1>0, <1>a, SMT DEF Booted, Vendors, TypeOK, ProbedSofar, Found
<1>5. UpToDate'
  BY <1>0, <1>a, SMT DEF UpToDate
<1>6. NewsIsNew'
  BY <1>0, <1>a, SMT DEF NewsIsNew
<1>7. SteadyIsReported'
  BY <1>0, <1>a, SMT DEF SteadyIsReported
<1>8. CalmInjectsReported'
  BY <1>0, <1>a, SMT DEF CalmInjectsReported
<1> QED
  BY <1>1, <1>2, <1>3, <1>4, <1>5, <1>6, <1>7, <1>8 DEF PollerInv

(* publish: only empty channels get the snapshot. *)
LEMMA PublishInv ==
  ASSUME PollerAssumption, PollerInv, Publish
  PROVE  PollerInv'
<1>0. TypeOK /\ ProbedSofar /\ CalmIsSteady /\ Booted /\ UpToDate /\ NewsIsNew
      /\ SteadyIsReported /\ CalmInjectsReported
  BY DEF PollerInv
<1>a. /\ pos = "publish" /\ pos' = "select"
      /\ sub' = [u \in Users |-> IF u \in subs /\ sub[u] = <<>> THEN <<polls>> ELSE sub[u]]
      /\ UNCHANGED <<subs, present, cancelled, polls, snap, latest, vendor, got, seen, steady, missed, made, calm>>
  BY Afters DEF Publish, Host, Ends
<1>1. TypeOK'
  BY <1>0, <1>a, SMT DEF TypeOK, Vendors, Found, PollerAssumption
<1>2. ProbedSofar'
  BY <1>0, <1>a, SMT DEF ProbedSofar, Vendors
<1>3. CalmIsSteady'
  BY <1>0, <1>a, SMT DEF CalmIsSteady
<1>4. Booted'
  BY <1>0, <1>a, SMT DEF Booted, Vendors
<1>5. UpToDate'
  BY <1>0, <1>a, SMT DEF UpToDate
<1>6. NewsIsNew'
  BY <1>0, <1>a, SMT DEF NewsIsNew, UpToDate, ProbedSofar, TypeOK
<1>7. SteadyIsReported'
  BY <1>0, <1>a, SMT DEF SteadyIsReported
<1>8. CalmInjectsReported'
  BY <1>0, <1>a, SMT DEF CalmInjectsReported
<1> QED
  BY <1>1, <1>2, <1>3, <1>4, <1>5, <1>6, <1>7, <1>8 DEF PollerInv

(* A tick begins the next detection. *)
LEMMA TickInv ==
  ASSUME PollerAssumption, PollerInv, Tick
  PROVE  PollerInv'
<1>0. TypeOK /\ ProbedSofar /\ CalmIsSteady /\ Booted /\ UpToDate /\ NewsIsNew
      /\ SteadyIsReported /\ CalmInjectsReported
  BY DEF PollerInv
<1>a. /\ pos = "select" /\ polls < MaxPolls /\ polls' = polls + 1 /\ pos' = "nvidia"
      /\ snap' = "none" /\ steady' \subseteq Vendors
      /\ UNCHANGED <<subs, present, cancelled, latest, sub, vendor, got, seen, missed, made, calm>>
  BY <1>0 DEF Tick, Host, Ends, TypeOK
<1>1. TypeOK'
  BY <1>0, <1>a, SMT DEF TypeOK, Vendors, Found, PollerAssumption
<1>2. ProbedSofar'
  BY <1>0, <1>a, Ranks, SMT DEF ProbedSofar, Vendors, TypeOK, PollerAssumption
<1>3. CalmIsSteady'
  BY <1>0, <1>a, SMT DEF CalmIsSteady
<1>4. Booted'
  BY <1>0, <1>a, SMT DEF Booted, Vendors
<1>5. UpToDate'
  BY <1>0, <1>a, SMT DEF UpToDate
<1>6. NewsIsNew'
  BY <1>0, <1>a, SMT DEF NewsIsNew
<1>7. SteadyIsReported'
  BY <1>0, <1>a, SMT DEF SteadyIsReported
<1>8. CalmInjectsReported'
  BY <1>0, <1>a, SMT DEF CalmInjectsReported
<1> QED
  BY <1>1, <1>2, <1>3, <1>4, <1>5, <1>6, <1>7, <1>8 DEF PollerInv

(* The goroutine ends. *)
LEMMA StopInv ==
  ASSUME PollerAssumption, PollerInv, Stop
  PROVE  PollerInv'
<1>0. TypeOK /\ ProbedSofar /\ CalmIsSteady /\ Booted /\ UpToDate /\ NewsIsNew
      /\ SteadyIsReported /\ CalmInjectsReported
  BY DEF PollerInv
<1>a. /\ pos = "select" /\ pos' = "stopped"
      /\ UNCHANGED <<subs, present, cancelled, polls, snap, latest, sub, vendor, got, seen, steady, missed, made, calm>>
  BY Afters DEF Stop, Host, Ends
<1>1. TypeOK'
  BY <1>0, <1>a, SMT DEF TypeOK, Vendors, Found, PollerAssumption
<1>2. ProbedSofar'
  BY <1>0, <1>a, SMT DEF ProbedSofar, Vendors
<1>3. CalmIsSteady'
  BY <1>0, <1>a, SMT DEF CalmIsSteady
<1>4. Booted'
  BY <1>0, <1>a, SMT DEF Booted, Vendors
<1>5. UpToDate'
  BY <1>0, <1>a, SMT DEF UpToDate
<1>6. NewsIsNew'
  BY <1>0, <1>a, SMT DEF NewsIsNew
<1>7. SteadyIsReported'
  BY <1>0, <1>a, SMT DEF SteadyIsReported
<1>8. CalmInjectsReported'
  BY <1>0, <1>a, SMT DEF CalmInjectsReported
<1> QED
  BY <1>1, <1>2, <1>3, <1>4, <1>5, <1>6, <1>7, <1>8 DEF PollerInv

(* A subscriber takes what its channel holds. *)
LEMMA ReceiveInv ==
  ASSUME PollerAssumption, PollerInv, NEW u \in Users, Receive(u)
  PROVE  PollerInv'
<1>0. TypeOK /\ ProbedSofar /\ CalmIsSteady /\ Booted /\ UpToDate /\ NewsIsNew
      /\ SteadyIsReported /\ CalmInjectsReported
  BY DEF PollerInv
<1>a. /\ sub[u] # <<>> /\ got' = [got EXCEPT ![u] = Head(sub[u])]
      /\ sub' = [sub EXCEPT ![u] = <<>>]
      /\ UNCHANGED <<subs, present, cancelled, pos, polls, snap, latest, vendor, seen, steady, missed, made, calm>>
  BY Afters DEF Receive, Host, Ends
<1>1. TypeOK'
  BY <1>0, <1>a, SMT DEF TypeOK, Vendors, Found, PollerAssumption
<1>2. ProbedSofar'
  BY <1>0, <1>a, SMT DEF ProbedSofar
<1>3. CalmIsSteady'
  BY <1>0, <1>a, SMT DEF CalmIsSteady
<1>4. Booted'
  BY <1>0, <1>a, SMT DEF Booted, Vendors
<1>5. UpToDate'
  BY <1>0, <1>a, SMT DEF UpToDate, NewsIsNew, TypeOK
<1>6. NewsIsNew'
  BY <1>0, <1>a, SMT DEF NewsIsNew, TypeOK
<1>7. SteadyIsReported'
  BY <1>0, <1>a, SMT DEF SteadyIsReported
<1>8. CalmInjectsReported'
  BY <1>0, <1>a, SMT DEF CalmInjectsReported
<1> QED
  BY <1>1, <1>2, <1>3, <1>4, <1>5, <1>6, <1>7, <1>8 DEF PollerInv

(* A user reads the latest snapshot. *)
LEMMA ReadInv ==
  ASSUME PollerAssumption, PollerInv, NEW u \in Users, Read(u)
  PROVE  PollerInv'
<1>0. TypeOK /\ ProbedSofar /\ CalmIsSteady /\ Booted /\ UpToDate /\ NewsIsNew
      /\ SteadyIsReported /\ CalmInjectsReported
  BY DEF PollerInv
<1>a. /\ seen' = [seen EXCEPT ![u] = latest.seq]
      /\ UNCHANGED <<subs, present, cancelled, pos, polls, snap, latest, sub, vendor, got, steady, missed, made, calm>>
  BY Afters DEF Read, Host, Ends
<1>1. TypeOK'
  BY <1>0, <1>a, SMT DEF TypeOK, Vendors, Found, PollerAssumption
<1>2. ProbedSofar'
  BY <1>0, <1>a, SMT DEF ProbedSofar
<1>3. CalmIsSteady'
  BY <1>0, <1>a, SMT DEF CalmIsSteady
<1>4. Booted'
  BY <1>0, <1>a, SMT DEF Booted, Vendors
<1>5. UpToDate'
  BY <1>0, <1>a, SMT DEF UpToDate, TypeOK
<1>6. NewsIsNew'
  BY <1>0, <1>a, SMT DEF NewsIsNew
<1>7. SteadyIsReported'
  BY <1>0, <1>a, SMT DEF SteadyIsReported
<1>8. CalmInjectsReported'
  BY <1>0, <1>a, SMT DEF CalmInjectsReported
<1> QED
  BY <1>1, <1>2, <1>3, <1>4, <1>5, <1>6, <1>7, <1>8 DEF PollerInv

(* A subscription adds a channel, which is empty. *)
LEMMA SubscribeInv ==
  ASSUME PollerAssumption, PollerInv, NEW u \in Users, Subscribe(u)
  PROVE  PollerInv'
<1>0. TypeOK /\ ProbedSofar /\ CalmIsSteady /\ Booted /\ UpToDate /\ NewsIsNew
      /\ SteadyIsReported /\ CalmInjectsReported
  BY DEF PollerInv
<1>a. /\ vendor # "unset" /\ subs' = subs \cup {u}
      /\ UNCHANGED <<present, cancelled, pos, polls, snap, latest, sub, vendor, got, seen, steady, missed, made, calm>>
  BY DEF Subscribe, Ends
<1>1. TypeOK'
  BY <1>0, <1>a, SMT DEF TypeOK, Vendors, Found, PollerAssumption
<1>2. ProbedSofar'
  BY <1>0, <1>a, SMT DEF ProbedSofar
<1>3. CalmIsSteady'
  BY <1>0, <1>a, SMT DEF CalmIsSteady
<1>4. Booted'
  BY <1>0, <1>a, SMT DEF Booted, Vendors
<1>5. UpToDate'
  BY <1>0, <1>a, SMT DEF UpToDate
<1>6. NewsIsNew'
  BY <1>0, <1>a, SMT DEF NewsIsNew
<1>7. SteadyIsReported'
  BY <1>0, <1>a, SMT DEF SteadyIsReported
<1>8. CalmInjectsReported'
  BY <1>0, <1>a, SMT DEF CalmInjectsReported, CalmIsSteady, Booted
<1> QED
  BY <1>1, <1>2, <1>3, <1>4, <1>5, <1>6, <1>7, <1>8 DEF PollerInv

(* A container is created with the manager's vendor. *)
LEMMA CreateInv ==
  ASSUME PollerAssumption, PollerInv, Create
  PROVE  PollerInv'
<1>0. TypeOK /\ ProbedSofar /\ CalmIsSteady /\ Booted /\ UpToDate /\ NewsIsNew
      /\ SteadyIsReported /\ CalmInjectsReported
  BY DEF PollerInv
<1>a. /\ vendor # "unset" /\ made' = [injected |-> vendor, reported |-> latest.vendor]
      /\ UNCHANGED <<subs, present, cancelled, pos, polls, snap, latest, sub, vendor, got, seen, steady, missed, calm>>
  BY Afters DEF Create, InjectGPU, Host, Ends
<1>1. TypeOK'
  BY <1>0, <1>a, SMT DEF TypeOK, Vendors, Found, PollerAssumption
<1>2. ProbedSofar'
  BY <1>0, <1>a, SMT DEF ProbedSofar
<1>3. CalmIsSteady'
  BY <1>0, <1>a, SMT DEF CalmIsSteady
<1>4. Booted'
  BY <1>0, <1>a, SMT DEF Booted, Vendors
<1>5. UpToDate'
  BY <1>0, <1>a, SMT DEF UpToDate
<1>6. NewsIsNew'
  BY <1>0, <1>a, SMT DEF NewsIsNew
<1>7. SteadyIsReported'
  BY <1>0, <1>a, SMT DEF SteadyIsReported
<1>8. CalmInjectsReported'
  BY <1>0, <1>a, SMT DEF CalmInjectsReported, CalmIsSteady, Booted
<1> QED
  BY <1>1, <1>2, <1>3, <1>4, <1>5, <1>6, <1>7, <1>8 DEF PollerInv

(* The host changes: the vendor is not steady. *)
LEMMA HostInv ==
  ASSUME PollerAssumption, PollerInv, NEW v \in Vendors, HostChanges(v)
  PROVE  PollerInv'
<1>0. TypeOK /\ ProbedSofar /\ CalmIsSteady /\ Booted /\ UpToDate /\ NewsIsNew
      /\ SteadyIsReported /\ CalmInjectsReported
  BY DEF PollerInv
<1>a. /\ present' = (IF v \in present THEN present \ {v} ELSE present \cup {v})
      /\ steady' = steady \ {v} /\ calm' = FALSE
      /\ UNCHANGED <<subs, cancelled, pos, polls, snap, latest, sub, vendor, got, seen, missed, made>>
  BY Afters DEF HostChanges, Host, Ends
<1>1. TypeOK'
  BY <1>0, <1>a DEF TypeOK
<1>2. ProbedSofar'
  BY <1>0, <1>a, SMT DEF ProbedSofar
<1>3. CalmIsSteady'
  BY <1>0, <1>a, SMT DEF CalmIsSteady
<1>4. Booted'
  BY <1>0, <1>a, SMT DEF Booted, Vendors
<1>5. UpToDate'
  BY <1>0, <1>a, SMT DEF UpToDate
<1>6. NewsIsNew'
  BY <1>0, <1>a, SMT DEF NewsIsNew
<1>7. SteadyIsReported'
  BY <1>0, <1>a, SMT DEF SteadyIsReported
<1>8. CalmInjectsReported'
  BY <1>0, <1>a, SMT DEF CalmInjectsReported
<1> QED
  BY <1>1, <1>2, <1>3, <1>4, <1>5, <1>6, <1>7, <1>8 DEF PollerInv

(* The daemon is told to stop. *)
LEMMA CancelInv ==
  ASSUME PollerAssumption, PollerInv, Cancel
  PROVE  PollerInv'
<1>0. TypeOK /\ ProbedSofar /\ CalmIsSteady /\ Booted /\ UpToDate /\ NewsIsNew
      /\ SteadyIsReported /\ CalmInjectsReported
  BY DEF PollerInv
<1>a. /\ cancelled' = TRUE /\ steady' = {} /\ calm' = FALSE
      /\ UNCHANGED <<subs, present, pos, polls, snap, latest, sub, vendor, got, seen, missed, made>>
  BY Afters DEF Cancel, Host, Ends
<1>1. TypeOK'
  BY <1>0, <1>a DEF TypeOK
<1>2. ProbedSofar'
  BY <1>0, <1>a, SMT DEF ProbedSofar
<1>3. CalmIsSteady'
  BY <1>0, <1>a, SMT DEF CalmIsSteady
<1>4. Booted'
  BY <1>0, <1>a, SMT DEF Booted, Vendors
<1>5. UpToDate'
  BY <1>0, <1>a, SMT DEF UpToDate
<1>6. NewsIsNew'
  BY <1>0, <1>a, SMT DEF NewsIsNew
<1>7. SteadyIsReported'
  BY <1>0, <1>a, SMT DEF SteadyIsReported
<1>8. CalmInjectsReported'
  BY <1>0, <1>a, SMT DEF CalmInjectsReported
<1> QED
  BY <1>1, <1>2, <1>3, <1>4, <1>5, <1>6, <1>7, <1>8 DEF PollerInv

LEMMA NextInv == PollerAssumption /\ PollerInv /\ [Next]_pVars => PollerInv'
<1> SUFFICES ASSUME PollerAssumption, PollerInv, [Next]_pVars PROVE PollerInv'
  OBVIOUS
<1>1. CASE UNCHANGED pVars
  BY <1>1 DEF pVars, PollerInv, TypeOK, ProbedSofar, CalmIsSteady, Booted, UpToDate, NewsIsNew,
              SteadyIsReported, CalmInjectsReported
<1>2. CASE Next
  BY <1>2, ProbeInvs, SetLatestInv, NewManagerInv, PublishInv, TickInv, StopInv, SubscribeInv,
     ReceiveInv, ReadInv, CreateInv, HostInv, CancelInv DEF Next, Poller
<1> QED
  BY <1>1, <1>2

(* Types, and how far a detection has come and what it can have found. *)
THEOREM PollerInvariance == Spec => []PollerInv
  BY InitInv, NextInv, PollerAssumption, PTL DEF Spec

(* A GPU that is there all through a detection is reported by it, or one of a vendor
   that is asked earlier (detector.go, poller.go). *)
THEOREM SteadyReported == Spec => []SteadyIsReported
<1>1. PollerInv => SteadyIsReported
  BY DEF PollerInv
<1> QED
  BY <1>1, PollerInvariance, PTL

(* A channel holds nothing its subscriber has received before (Poller.publish). *)
THEOREM NewsNew == Spec => []NewsIsNew
<1>1. PollerInv => NewsIsNew
  BY DEF PollerInv
<1> QED
  BY <1>1, PollerInvariance, PTL

(* While nothing changed since the start, containers get the devices of the vendor that
   is reported (main.run, Manager.Create). *)
THEOREM CalmInjected == Spec => []CalmInjectsReported
<1>1. PollerInv => CalmInjectsReported
  BY DEF PollerInv
<1> QED
  BY <1>1, PollerInvariance, PTL

(* A user never reads a snapshot older than one it has received or read. *)
THEOREM ReadersForward == Spec => NeverAhead
<1>1. PollerInv /\ [Next]_pVars
        => [\A u \in Users : seen'[u] # seen[u] => seen'[u] >= got[u] /\ seen'[u] > seen[u]]_pVars
  <2> SUFFICES ASSUME PollerInv, Next, NEW u \in Users, seen'[u] # seen[u]
               PROVE  seen'[u] >= got[u] /\ seen'[u] > seen[u]
    BY DEF pVars
  <2>1. TypeOK /\ UpToDate
    BY DEF PollerInv
  <2>2. PICK w \in Users : Read(w)
    BY <2>1 DEF Next, Poller, Detect, DetectNVIDIA, DetectAMD, DetectIntel, Probe, SetLatest, NewManager, Publish, Tick, Stop, Create, Cancel, Subscribe,
                Receive, HostChanges, Ends
  <2>3. u = w /\ seen'[u] = latest.seq
    BY <2>1, <2>2 DEF Read, TypeOK
  <2>4. seen[u] \in Nat /\ latest.seq \in Nat /\ got[u] \in Nat
    BY <2>1, PollerAssumption, SMT DEF TypeOK, PollerAssumption
  <2>5. got[u] <= latest.seq /\ seen[u] <= latest.seq
    BY <2>1 DEF UpToDate
  <2> QED
    BY <2>3, <2>4, <2>5, SMT
<1> QED
  BY <1>1, PollerInvariance, PTL DEF Spec, NeverAhead
=============================================================================
