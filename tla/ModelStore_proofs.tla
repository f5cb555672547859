--------------------------- MODULE ModelStore_proofs ---------------------------
(***************************************************************************)
(* Proofs about ModelStore for every number of clients and models, in      *)
(* three layers.  What concerns flights, the lock and the index holds      *)
(* whatever destinations requests carry.  That memory agrees with the disk *)
(* needs that no request names the storage root (RootApart): a Delete of   *)
(* such an entry takes the index file with it.  What concerns the files of *)
(* listed models needs explicit destinations outside the root              *)
(* (DestsOutside): Delete removes the whole directory of its entry.        *)
(***************************************************************************)
EXTENDS ModelStore, TLAPS

RootApart    == Root \notin Dests
DestsOutside == Dests \subseteq Outside

(* None is neither a path nor a client. *)
LEMMA PathTypes == None \notin Paths /\ None \notin Clients
BY StoreAssumption DEF Paths

(* A model's own directory lies under the root. *)
LEMMA ModelPaths == \A m \in Models : m \in Paths /\ UnderRoot(m)
BY StoreAssumption DEF Paths, UnderRoot

LEMMA RootFacts ==
  ASSUME RootApart
  PROVE  Root \notin Paths
BY StoreAssumption DEF RootApart, Paths

(* Removing a path removes just that path, and only a model's own directory
   counts as being under the root. *)
LEMMA PathFacts ==
  ASSUME DestsOutside
  PROVE  /\ RootApart /\ Root \notin Paths
         /\ \A p \in Paths : Below(p) = {p}
         /\ \A p \in Paths : UnderRoot(p) <=> p \in Models
         /\ Models \cap Dests = {}
BY StoreAssumption DEF DestsOutside, RootApart, Paths, Below, UnderRoot

(* A fetch stages into the model's own directory or an explicit destination. *)
LEMMA PlaceFacts ==
  ASSUME TypeOK, NEW c \in Clients
  PROVE  Place(c) \in Paths /\ Place(c) \in {model[c]} \cup Dests
BY DEF TypeOK, Place, Paths

(* A fetch of another model never stages into model m's own directory. *)
LEMMA PlacesApart ==
  ASSUME DestsOutside, TypeOK, NEW m \in Models, NEW d \in Clients, model[d] # m
  PROVE  Place(d) # m
BY PlaceFacts, PathFacts

(* Cutting a tree leaves a state of the disk. *)
LEMMA CutType ==
  ASSUME TypeOK, NEW p \in Paths
  PROVE  Cut(p) \in [Paths -> [Models -> Levels]]
<1> SUFFICES ASSUME NEW q \in Paths, NEW m \in Models
             PROVE  (IF q \in Below(p) THEN "none" ELSE fs[q][m]) \in Levels
  BY DEF Cut
<1> QED BY DEF TypeOK, Levels

(* Cutting a tree disturbs nothing but that tree. *)
LEMMA CutFacts ==
  ASSUME DestsOutside, TypeOK, NEW p \in Paths
  PROVE  \A q \in Paths \ {p} : Cut(p)[q] = fs[q]
<1> SUFFICES ASSUME NEW q \in Paths \ {p}
             PROVE  Cut(p)[q] = fs[q]
  OBVIOUS
<1>1. Below(p) = {p}
  BY PathFacts
<1>2. fs[q] = [m \in Models |-> fs[q][m]]
  BY DEF TypeOK
<1>3. Cut(p)[q] = [m \in Models |-> fs[q][m]]
  BY <1>1 DEF Cut
<1> QED BY <1>2, <1>3

(* A Delete under way holds the lock, and its model is listed. *)
LEMMA DeleterFacts ==
  ASSUME CoreInv, NEW c \in Clients, pc[c] \in DeleteSteps
  PROVE  up /\ lock = c /\ model[c] \in Models /\ entries[model[c]] \in Paths
BY DEF CoreInv, TypeOK, StoppedIdle, LockIsHeld, Staged, DeleteSteps

(* Every step preserves what does not depend on the destinations. *)
LEMMA CoreStep ==
  ASSUME CoreInv, [Next]_vars
  PROVE  CoreInv'
<1> USE PathTypes DEF Staged, ReadLocked, WriteLocked, Goto, Reply, Save, SaveFails,
        DoFetch, LeaderOnly, LeaderSteps, FetchSteps, DeleteSteps, Replies, Levels
<1>0. TypeOK
  BY DEF CoreInv
<1>1. ASSUME NEW c \in Clients, Lookup(c)
      PROVE  CoreInv'
  <2>1. TypeOK'
    BY <1>1 DEF CoreInv, TypeOK, Lookup, Found
  <2>2. StoppedIdle'
    BY <1>1 DEF CoreInv, TypeOK, StoppedIdle, Lookup, Found
  <2>3. FlightIsLed'
    BY <1>1 DEF CoreInv, TypeOK, FlightIsLed, Lookup, Found
  <2>4. LeaderFlies'
    BY <1>1 DEF CoreInv, TypeOK, LeaderFlies, FlightIsLed, Lookup, Found
  <2>5. LockIsHeld'
    BY <1>1 DEF CoreInv, TypeOK, LockIsHeld, Lookup, Found
  <2>6. NoEntryDuringFetch'
    BY <1>1 DEF CoreInv, TypeOK, NoEntryDuringFetch, Lookup, Found
  <2>7. NothingComesBack'
    BY <1>1 DEF CoreInv, Lookup, NothingComesBack
  <2> QED BY <2>1, <2>2, <2>3, <2>4, <2>5, <2>6, <2>7 DEF CoreInv
<1>2. ASSUME NEW c \in Clients, Mark(c)
      PROVE  CoreInv'
  <2>1. TypeOK'
    BY <1>2 DEF CoreInv, TypeOK, Mark
  <2>2. StoppedIdle'
    BY <1>2 DEF CoreInv, TypeOK, StoppedIdle, Mark
  <2>3. FlightIsLed'
    BY <1>2 DEF CoreInv, TypeOK, FlightIsLed, Mark
  <2>4. LeaderFlies'
    BY <1>2 DEF CoreInv, TypeOK, LeaderFlies, FlightIsLed, Mark
  <2>5. LockIsHeld'
    BY <1>2 DEF CoreInv, TypeOK, LockIsHeld, Mark
  <2>6. NoEntryDuringFetch'
    BY <1>2 DEF CoreInv, TypeOK, NoEntryDuringFetch, Mark
  <2>7. NothingComesBack'
    BY <1>2 DEF CoreInv, TypeOK, NothingComesBack, Mark
  <2> QED BY <2>1, <2>2, <2>3, <2>4, <2>5, <2>6, <2>7 DEF CoreInv
<1>3. ASSUME NEW c \in Clients, Reread(c)
      PROVE  CoreInv'
  <2>1. TypeOK'
    BY <1>3 DEF CoreInv, TypeOK, Reread
  <2>2. StoppedIdle'
    BY <1>3 DEF CoreInv, TypeOK, StoppedIdle, Reread
  <2>3. FlightIsLed'
    BY <1>3 DEF CoreInv, TypeOK, FlightIsLed, Reread
  <2>4. LeaderFlies'
    BY <1>3 DEF CoreInv, TypeOK, LeaderFlies, FlightIsLed, Reread
  <2>5. LockIsHeld'
    BY <1>3 DEF CoreInv, TypeOK, LockIsHeld, Reread
  <2>6. NoEntryDuringFetch'
    BY <1>3 DEF CoreInv, TypeOK, NoEntryDuringFetch, Reread
  <2>7. NothingComesBack'
    BY <1>3 DEF CoreInv, Reread, NothingComesBack
  <2> QED BY <2>1, <2>2, <2>3, <2>4, <2>5, <2>6, <2>7 DEF CoreInv
<1>4. ASSUME NEW c \in Clients, Enter(c)
      PROVE  CoreInv'
  <2>1. TypeOK'
    BY <1>4 DEF CoreInv, TypeOK, Enter, Leads
  <2>2. StoppedIdle'
    BY <1>4 DEF CoreInv, TypeOK, StoppedIdle, Enter, Leads
  <2>3. FlightIsLed'
    BY <1>4 DEF CoreInv, TypeOK, FlightIsLed, Enter, Leads
  <2>4. LeaderFlies'
    BY <1>4 DEF CoreInv, TypeOK, LeaderFlies, FlightIsLed, Enter, Leads
  <2>5. LockIsHeld'
    BY <1>4 DEF CoreInv, TypeOK, LockIsHeld, Enter, Leads
  <2>6. NoEntryDuringFetch'
    BY <1>4 DEF CoreInv, TypeOK, NoEntryDuringFetch, Enter, Leads
  <2>7. NothingComesBack'
    BY <1>4 DEF CoreInv, Enter, NothingComesBack
  <2> QED BY <2>1, <2>2, <2>3, <2>4, <2>5, <2>6, <2>7 DEF CoreInv
<1>5. ASSUME NEW c \in Clients, Check(c)
      PROVE  CoreInv'
  <2>1. TypeOK'
    BY <1>5 DEF CoreInv, TypeOK, Check, Found
  <2>2. StoppedIdle'
    BY <1>5 DEF CoreInv, TypeOK, StoppedIdle, Check, Found
  <2>3. FlightIsLed'
    BY <1>5 DEF CoreInv, TypeOK, FlightIsLed, Check, Found
  <2>4. LeaderFlies'
    BY <1>5 DEF CoreInv, TypeOK, LeaderFlies, FlightIsLed, Check, Found
  <2>5. LockIsHeld'
    BY <1>5 DEF CoreInv, TypeOK, LockIsHeld, Check, Found
  <2>6. NoEntryDuringFetch'
    BY <1>5 DEF CoreInv, TypeOK, NoEntryDuringFetch, Check, Found
  <2>7. NothingComesBack'
    BY <1>5 DEF CoreInv, Check, NothingComesBack
  <2> QED BY <2>1, <2>2, <2>3, <2>4, <2>5, <2>6, <2>7 DEF CoreInv
<1>6. ASSUME NEW c \in Clients, Mkdir(c)
      PROVE  CoreInv'
  <2>1. Place(c) \in Paths /\ Place(c) \in {model[c]} \cup Dests
    BY <1>0, PlaceFacts
  <2>2. \/ /\ fs' = [fs EXCEPT ![Place(c)][model[c]] = "part"]
          /\ pc' = [pc EXCEPT ![c] = "download"]
       \/ /\ fs' = fs
          /\ pc' = [pc EXCEPT ![c] = IF flight[model[c]] = c THEN "land" ELSE "idle"]
    BY <1>6, Zenon DEF Mkdir, Goto, Reply
  <2>3. TypeOK'
    <3>1. fs' \in [Paths -> [Models -> Levels]]
      <4>1. CASE fs' = [fs EXCEPT ![Place(c)][model[c]] = "part"]
        BY <1>0, <2>1, <4>1 DEF TypeOK
      <4>2. CASE fs' = fs
        BY <1>0, <4>2 DEF TypeOK
      <4> QED BY <2>2, <4>1, <4>2
    <3>2. pc' \in [Clients -> FetchSteps \cup DeleteSteps \cup {"idle"}]
      BY <1>0, <1>6 DEF TypeOK, Mkdir
    <3>3. dir' \in BOOLEAN /\ out' \in [Clients -> Replies]
      BY <1>0, <1>6 DEF TypeOK, Mkdir, UnderRoot
    <3> QED BY <1>0, <1>6, <3>1, <3>2, <3>3 DEF TypeOK, Mkdir
  <2>4. StoppedIdle'
    BY <1>6, <2>1, <2>2 DEF CoreInv, TypeOK, StoppedIdle, Mkdir
  <2>5. FlightIsLed'
    BY <1>6, <2>1, <2>2 DEF CoreInv, TypeOK, FlightIsLed, Mkdir
  <2>6. LeaderFlies'
    BY <1>6, <2>1, <2>2 DEF CoreInv, TypeOK, LeaderFlies, FlightIsLed, Mkdir
  <2>7. LockIsHeld'
    BY <1>6, <2>1, <2>2 DEF CoreInv, TypeOK, LockIsHeld, Mkdir
  <2>8. NoEntryDuringFetch'
    BY <1>6, <2>1, <2>2 DEF CoreInv, TypeOK, NoEntryDuringFetch, Mkdir
  <2>9. NothingComesBack'
    BY <1>6 DEF CoreInv, Mkdir, NothingComesBack
  <2> QED BY <2>3, <2>4, <2>5, <2>6, <2>7, <2>8, <2>9 DEF CoreInv
<1>7. ASSUME NEW c \in Clients, DownloadOk(c)
      PROVE  CoreInv'
  <2>1. Place(c) \in Paths /\ Place(c) \in {model[c]} \cup Dests
    BY <1>0, PlaceFacts
  <2>2. TypeOK'
    BY <1>7, <2>1 DEF CoreInv, TypeOK, DownloadOk
  <2>3. StoppedIdle'
    BY <1>7, <2>1 DEF CoreInv, TypeOK, StoppedIdle, DownloadOk
  <2>4. FlightIsLed'
    BY <1>7, <2>1 DEF CoreInv, TypeOK, FlightIsLed, DownloadOk
  <2>5. LeaderFlies'
    BY <1>7, <2>1 DEF CoreInv, TypeOK, LeaderFlies, FlightIsLed, DownloadOk
  <2>6. LockIsHeld'
    BY <1>7, <2>1 DEF CoreInv, TypeOK, LockIsHeld, DownloadOk
  <2>7. NoEntryDuringFetch'
    BY <1>7, <2>1 DEF CoreInv, TypeOK, NoEntryDuringFetch, DownloadOk
  <2>8. NothingComesBack'
    BY <1>7 DEF CoreInv, DownloadOk, NothingComesBack
  <2> QED BY <2>2, <2>3, <2>4, <2>5, <2>6, <2>7, <2>8 DEF CoreInv
<1>8. ASSUME NEW c \in Clients, DownloadFails(c)
      PROVE  CoreInv'
  <2>1. Place(c) \in Paths /\ Place(c) \in {model[c]} \cup Dests
    BY <1>0, PlaceFacts
  <2>2. fs' \in [Paths -> [Models -> Levels]]
    BY <1>8, <2>1, <1>0, CutType DEF TypeOK, DownloadFails
  <2>3. TypeOK'
    BY <1>8, <2>1, <2>2 DEF CoreInv, TypeOK, DownloadFails
  <2>4. StoppedIdle'
    BY <1>8, <2>1, <2>2 DEF CoreInv, TypeOK, StoppedIdle, DownloadFails
  <2>5. FlightIsLed'
    BY <1>8, <2>1, <2>2 DEF CoreInv, TypeOK, FlightIsLed, DownloadFails
  <2>6. LeaderFlies'
    BY <1>8, <2>1, <2>2 DEF CoreInv, TypeOK, LeaderFlies, FlightIsLed, DownloadFails
  <2>7. LockIsHeld'
    BY <1>8, <2>1, <2>2 DEF CoreInv, TypeOK, LockIsHeld, DownloadFails
  <2>8. NoEntryDuringFetch'
    BY <1>8, <2>1, <2>2 DEF CoreInv, TypeOK, NoEntryDuringFetch, DownloadFails
  <2>9. NothingComesBack'
    BY <1>8 DEF CoreInv, DownloadFails, NothingComesBack
  <2> QED BY <2>3, <2>4, <2>5, <2>6, <2>7, <2>8, <2>9 DEF CoreInv
<1>9. ASSUME NEW c \in Clients, Measure(c)
      PROVE  CoreInv'
  <2>1. TypeOK'
    BY <1>9 DEF CoreInv, TypeOK, Measure
  <2>2. StoppedIdle'
    BY <1>9 DEF CoreInv, TypeOK, StoppedIdle, Measure
  <2>3. FlightIsLed'
    BY <1>9 DEF CoreInv, TypeOK, FlightIsLed, Measure
  <2>4. LeaderFlies'
    BY <1>9 DEF CoreInv, TypeOK, LeaderFlies, FlightIsLed, Measure
  <2>5. LockIsHeld'
    BY <1>9 DEF CoreInv, TypeOK, LockIsHeld, Measure
  <2>6. NoEntryDuringFetch'
    BY <1>9 DEF CoreInv, TypeOK, NoEntryDuringFetch, Measure
  <2>7. NothingComesBack'
    BY <1>9 DEF CoreInv, Measure, NothingComesBack
  <2> QED BY <2>1, <2>2, <2>3, <2>4, <2>5, <2>6, <2>7 DEF CoreInv
<1>10. ASSUME NEW c \in Clients, Commit(c)
      PROVE  CoreInv'
  <2>1. Place(c) \in Paths /\ Place(c) \in {model[c]} \cup Dests
    BY <1>0, PlaceFacts
  <2>2. TypeOK'
    <3>1. \/ /\ index' = [entries EXCEPT ![model[c]] = Place(c)]
             /\ entries' = [entries EXCEPT ![model[c]] = Place(c)]
          \/ /\ index' = index
             /\ entries' = [entries EXCEPT ![model[c]] = None]
      BY <1>10, Zenon DEF Commit, RolledBack, Save, SaveFails
    <3>2. entries' \in [Models -> Paths \cup {None}] /\ index' \in [Models -> Paths \cup {None}]
      <4>1. model[c] \in Models /\ entries \in [Models -> Paths \cup {None}]
        BY <1>0 DEF TypeOK
      <4>2. CASE entries' = [entries EXCEPT ![model[c]] = None] /\ index' = index
        BY <1>0, <4>1, <4>2 DEF TypeOK
      <4>3. CASE /\ entries' = [entries EXCEPT ![model[c]] = Place(c)]
                 /\ index' = [entries EXCEPT ![model[c]] = Place(c)]
        BY <2>1, <4>1, <4>3
      <4> QED BY <3>1, <4>2, <4>3
    <3> QED BY <1>0, <1>10, <3>2 DEF TypeOK, Commit
  <2>3. StoppedIdle'
    BY <1>10, <2>1 DEF CoreInv, TypeOK, StoppedIdle, Commit, RolledBack
  <2>4. FlightIsLed'
    BY <1>10, <2>1 DEF CoreInv, TypeOK, FlightIsLed, Commit, RolledBack
  <2>5. LeaderFlies'
    BY <1>10, <2>1 DEF CoreInv, TypeOK, LeaderFlies, FlightIsLed, Commit, RolledBack
  <2>6. LockIsHeld'
    BY <1>10, <2>1 DEF CoreInv, TypeOK, LockIsHeld, Commit, RolledBack
  <2>7. NoEntryDuringFetch'
    BY <1>10, <2>1 DEF CoreInv, TypeOK, NoEntryDuringFetch, LeaderFlies, Commit,
       RolledBack
  <2>8. NothingComesBack'
    BY <1>10, <2>1 DEF CoreInv, TypeOK, NothingComesBack, NoEntryDuringFetch, Commit,
       RolledBack
  <2> QED BY <2>2, <2>3, <2>4, <2>5, <2>6, <2>7, <2>8 DEF CoreInv
<1>11. ASSUME NEW c \in Clients, Land(c)
      PROVE  CoreInv'
  <2>1. TypeOK'
    BY <1>11 DEF CoreInv, TypeOK, Land, Followers
  <2>2. StoppedIdle'
    BY <1>11 DEF CoreInv, TypeOK, StoppedIdle, Land, Followers
  <2>3. FlightIsLed'
    BY <1>11 DEF CoreInv, TypeOK, FlightIsLed, LeaderFlies, Land, Followers
  <2>4. LeaderFlies'
    BY <1>11 DEF CoreInv, TypeOK, LeaderFlies, FlightIsLed, Land, Followers
  <2>5. LockIsHeld'
    BY <1>11 DEF CoreInv, TypeOK, LockIsHeld, Land, Followers
  <2>6. NoEntryDuringFetch'
    BY <1>11 DEF CoreInv, TypeOK, NoEntryDuringFetch, Land, Followers
  <2>7. NothingComesBack'
    BY <1>11 DEF CoreInv, Land, NothingComesBack
  <2> QED BY <2>1, <2>2, <2>3, <2>4, <2>5, <2>6, <2>7 DEF CoreInv
<1>12. ASSUME NEW c \in Clients, RemoveSome(c)
      PROVE  CoreInv'
  <2>1. up /\ lock = c /\ model[c] \in Models /\ entries[model[c]] \in Paths
    BY <1>12, DeleterFacts DEF RemoveSome
  <2>2. fs' \in [Paths -> [Models -> Levels]]
    <3>1. CASE fs' = fs
      BY <1>0, <3>1 DEF TypeOK
    <3>2. ASSUME NEW q \in Below(entries[model[c]]), NEW m \in Models,
                 fs' = [fs EXCEPT ![q][m] = "mixed"]
          PROVE  fs' \in [Paths -> [Models -> Levels]]
      BY <1>0, <2>1, <3>2 DEF TypeOK, Below
    <3> QED BY <1>12, <3>1, <3>2 DEF RemoveSome
  <2>3. index' \in [Models -> Paths \cup {None}] /\ (index' = index \/ index' = [m \in Models |-> None])
    BY <1>0, <1>12 DEF TypeOK, RemoveSome
  <2>4. TypeOK'
    BY <1>12, <2>1, <2>2, <2>3 DEF CoreInv, TypeOK, RemoveSome
  <2>5. StoppedIdle' /\ FlightIsLed' /\ LeaderFlies' /\ LockIsHeld' /\ NoEntryDuringFetch'
    BY <1>12 DEF CoreInv, RemoveSome, StoppedIdle, FlightIsLed, LeaderFlies,
       LockIsHeld, NoEntryDuringFetch
  <2>6. NothingComesBack'
    BY <1>12, <2>3 DEF CoreInv, RemoveSome, NothingComesBack
  <2> QED BY <2>4, <2>5, <2>6 DEF CoreInv
<1>13. ASSUME NEW c \in Clients, RemoveTree(c)
      PROVE  CoreInv'
  <2>1. up /\ lock = c /\ model[c] \in Models /\ entries[model[c]] \in Paths
    BY <1>13, DeleterFacts DEF RemoveTree
  <2>2. fs' \in [Paths -> [Models -> Levels]]
    BY <1>13, <2>1, <1>0, CutType DEF TypeOK, RemoveTree
  <2>3. TypeOK'
    BY <1>13, <2>1, <2>2 DEF CoreInv, TypeOK, RemoveTree
  <2>4. StoppedIdle'
    BY <1>13, <2>1, <2>2 DEF CoreInv, TypeOK, StoppedIdle, RemoveTree
  <2>5. FlightIsLed'
    BY <1>13, <2>1, <2>2 DEF CoreInv, TypeOK, FlightIsLed, RemoveTree
  <2>6. LeaderFlies'
    BY <1>13, <2>1, <2>2 DEF CoreInv, TypeOK, LeaderFlies, FlightIsLed, RemoveTree
  <2>7. LockIsHeld'
    BY <1>13, <2>1, <2>2 DEF CoreInv, TypeOK, LockIsHeld, RemoveTree
  <2>8. NoEntryDuringFetch'
    BY <1>13, <2>1, <2>2 DEF CoreInv, TypeOK, NoEntryDuringFetch, RemoveTree
  <2>9. NothingComesBack'
    BY <1>13, <2>1, <2>2 DEF CoreInv, TypeOK, NothingComesBack, RemoveTree
  <2> QED BY <2>3, <2>4, <2>5, <2>6, <2>7, <2>8, <2>9 DEF CoreInv
<1>14. ASSUME NEW c \in Clients, RemoveFails(c)
      PROVE  CoreInv'
  <2>1. up /\ lock = c /\ model[c] \in Models /\ entries[model[c]] \in Paths
    BY <1>14, DeleterFacts DEF RemoveFails
  <2>2. TypeOK'
    BY <1>14, <2>1 DEF CoreInv, TypeOK, RemoveFails
  <2>3. StoppedIdle'
    BY <1>14, <2>1 DEF CoreInv, TypeOK, StoppedIdle, RemoveFails
  <2>4. FlightIsLed'
    BY <1>14, <2>1 DEF CoreInv, TypeOK, FlightIsLed, RemoveFails
  <2>5. LeaderFlies'
    BY <1>14, <2>1 DEF CoreInv, TypeOK, LeaderFlies, FlightIsLed, RemoveFails
  <2>6. LockIsHeld'
    BY <1>14, <2>1 DEF CoreInv, TypeOK, LockIsHeld, RemoveFails
  <2>7. NoEntryDuringFetch'
    BY <1>14, <2>1 DEF CoreInv, TypeOK, NoEntryDuringFetch, RemoveFails
  <2>8. NothingComesBack'
    BY <1>14 DEF CoreInv, RemoveFails, NothingComesBack
  <2> QED BY <2>2, <2>3, <2>4, <2>5, <2>6, <2>7, <2>8 DEF CoreInv
<1>15. ASSUME NEW c \in Clients, Unindex(c)
      PROVE  CoreInv'
  <2>1. up /\ lock = c /\ model[c] \in Models /\ entries[model[c]] \in Paths
    BY <1>15, DeleterFacts DEF Unindex
  <2>2. TypeOK'
    BY <1>15, <2>1 DEF CoreInv, TypeOK, Unindex
  <2>3. StoppedIdle'
    BY <1>15, <2>1 DEF CoreInv, TypeOK, StoppedIdle, Unindex
  <2>4. FlightIsLed'
    BY <1>15, <2>1 DEF CoreInv, TypeOK, FlightIsLed, Unindex
  <2>5. LeaderFlies'
    BY <1>15, <2>1 DEF CoreInv, TypeOK, LeaderFlies, FlightIsLed, Unindex
  <2>6. LockIsHeld'
    BY <1>15, <2>1 DEF CoreInv, TypeOK, LockIsHeld, Unindex
  <2>7. NoEntryDuringFetch'
    BY <1>15, <2>1 DEF CoreInv, TypeOK, NoEntryDuringFetch, Unindex
  <2>8. NothingComesBack'
    BY <1>15, <2>1 DEF CoreInv, TypeOK, NothingComesBack, Unindex
  <2> QED BY <2>2, <2>3, <2>4, <2>5, <2>6, <2>7, <2>8 DEF CoreInv
<1>16. ASSUME NEW c \in Clients, NEW m \in Models, NEW d \in Dests \cup {Default},
             BeginFetch(c, m, d)
      PROVE  CoreInv'
  <2>1. TypeOK'
    BY <1>16 DEF CoreInv, TypeOK, BeginFetch
  <2>2. StoppedIdle'
    BY <1>16 DEF CoreInv, TypeOK, StoppedIdle, BeginFetch
  <2>3. FlightIsLed'
    BY <1>16 DEF CoreInv, TypeOK, FlightIsLed, BeginFetch
  <2>4. LeaderFlies'
    BY <1>16 DEF CoreInv, TypeOK, LeaderFlies, FlightIsLed, BeginFetch
  <2>5. LockIsHeld'
    BY <1>16 DEF CoreInv, TypeOK, LockIsHeld, BeginFetch
  <2>6. NoEntryDuringFetch'
    BY <1>16 DEF CoreInv, TypeOK, NoEntryDuringFetch, BeginFetch
  <2>7. NothingComesBack'
    BY <1>16 DEF CoreInv, BeginFetch, NothingComesBack
  <2> QED BY <2>1, <2>2, <2>3, <2>4, <2>5, <2>6, <2>7 DEF CoreInv
<1>17. ASSUME NEW c \in Clients, NEW m \in Models, BeginDelete(c, m)
      PROVE  CoreInv'
  <2>1. TypeOK'
    BY <1>17 DEF CoreInv, TypeOK, BeginDelete
  <2>2. StoppedIdle'
    BY <1>17 DEF CoreInv, TypeOK, StoppedIdle, BeginDelete
  <2>3. FlightIsLed'
    BY <1>17 DEF CoreInv, TypeOK, FlightIsLed, BeginDelete
  <2>4. LeaderFlies'
    BY <1>17 DEF CoreInv, TypeOK, LeaderFlies, FlightIsLed, BeginDelete
  <2>5. LockIsHeld'
    BY <1>17 DEF CoreInv, TypeOK, LockIsHeld, BeginDelete
  <2>6. NoEntryDuringFetch'
    BY <1>17 DEF CoreInv, TypeOK, NoEntryDuringFetch, BeginDelete
  <2>7. NothingComesBack'
    BY <1>17 DEF CoreInv, BeginDelete, NothingComesBack
  <2> QED BY <2>1, <2>2, <2>3, <2>4, <2>5, <2>6, <2>7 DEF CoreInv
<1>18. ASSUME NEW c \in Clients, NEW m \in Models, MarkUsed(c, m)
      PROVE  CoreInv'
  <2>1. TypeOK'
    BY <1>18 DEF CoreInv, TypeOK, MarkUsed
  <2>2. FlightIsLed'
    BY <1>18 DEF CoreInv, TypeOK, FlightIsLed, MarkUsed
  <2>3. LeaderFlies'
    BY <1>18 DEF CoreInv, TypeOK, LeaderFlies, FlightIsLed, MarkUsed
  <2>4. LockIsHeld'
    BY <1>18 DEF CoreInv, TypeOK, LockIsHeld, MarkUsed
  <2>5. NoEntryDuringFetch'
    BY <1>18 DEF CoreInv, TypeOK, NoEntryDuringFetch, MarkUsed
  <2>6. NothingComesBack'
    BY <1>18 DEF CoreInv, TypeOK, NothingComesBack, MarkUsed
  <2>7. StoppedIdle'
    BY <1>18 DEF CoreInv, MarkUsed, StoppedIdle
  <2> QED BY <2>1, <2>2, <2>3, <2>4, <2>5, <2>6, <2>7 DEF CoreInv
<1>19. ASSUME Crash
      PROVE  CoreInv'
  <2>1. TypeOK'
    BY <1>19 DEF CoreInv, TypeOK, Crash
  <2>2. StoppedIdle'
    BY <1>19 DEF CoreInv, TypeOK, StoppedIdle, Crash
  <2>3. FlightIsLed'
    BY <1>19 DEF CoreInv, TypeOK, FlightIsLed, Crash
  <2>4. LeaderFlies'
    BY <1>19 DEF CoreInv, TypeOK, LeaderFlies, FlightIsLed, Crash
  <2>5. LockIsHeld'
    BY <1>19 DEF CoreInv, TypeOK, LockIsHeld, Crash
  <2>6. NoEntryDuringFetch'
    BY <1>19 DEF CoreInv, TypeOK, NoEntryDuringFetch, Crash
  <2>7. NothingComesBack'
    BY <1>19 DEF CoreInv, TypeOK, NothingComesBack, Crash
  <2> QED BY <2>1, <2>2, <2>3, <2>4, <2>5, <2>6, <2>7 DEF CoreInv
<1>20. ASSUME NewStore
      PROVE  CoreInv'
  <2>1. TypeOK'
    BY <1>20 DEF CoreInv, TypeOK, NewStore
  <2>2. StoppedIdle'
    BY <1>20 DEF CoreInv, TypeOK, StoppedIdle, NewStore
  <2>3. LockIsHeld'
    BY <1>20 DEF CoreInv, TypeOK, LockIsHeld, StoppedIdle, NewStore
  <2>4. NoEntryDuringFetch'
    BY <1>20 DEF CoreInv, TypeOK, NoEntryDuringFetch, StoppedIdle, NewStore
  <2>5. NothingComesBack'
    BY <1>20 DEF CoreInv, TypeOK, NothingComesBack, NewStore
  <2>6. FlightIsLed' /\ LeaderFlies'
    BY <1>20 DEF CoreInv, NewStore, FlightIsLed, LeaderFlies
  <2> QED BY <2>1, <2>2, <2>3, <2>4, <2>5, <2>6 DEF CoreInv
<1>21. ASSUME NEW c \in Clients, Overwrite(c)
       PROVE  CoreInv'
  <2>1. fs' \in [Paths -> [Models -> Levels]]
    BY <1>0, <1>21, PlaceFacts DEF TypeOK, Overwrite
  <2>2. TypeOK'
    BY <1>0, <1>21, <2>1 DEF TypeOK, Overwrite
  <2>3. StoppedIdle' /\ FlightIsLed' /\ LeaderFlies' /\ LockIsHeld' /\ NoEntryDuringFetch'
        /\ NothingComesBack'
    BY <1>21 DEF CoreInv, Overwrite, StoppedIdle, FlightIsLed, LeaderFlies,
       LockIsHeld, NoEntryDuringFetch, NothingComesBack
  <2> QED BY <2>2, <2>3 DEF CoreInv
<1>22. CASE UNCHANGED vars
  BY <1>22 DEF CoreInv, vars, Place, TypeOK, StoppedIdle, FlightIsLed, LeaderFlies,
     LockIsHeld, NoEntryDuringFetch, NothingComesBack
<1> QED BY <1>1, <1>2, <1>3, <1>4, <1>5, <1>6, <1>7, <1>8, <1>9, <1>10, <1>11, <1>12,
          <1>13, <1>14, <1>15, <1>16, <1>17, <1>18, <1>19, <1>20, <1>21, <1>22
   DEF CoreInv, Next, Step, Gradual, Request

(* Every step preserves the agreement of memory and disk, and the root directory. *)
LEMMA IndexStep ==
  ASSUME RootApart, IndexInv, CoreInv', [Next]_vars
  PROVE  IndexInv'
<1> USE PathTypes DEF Staged, ReadLocked, WriteLocked, Goto, Reply, Save, SaveFails,
        DoFetch, LeaderOnly, LeaderSteps, FetchSteps, DeleteSteps, Replies, Levels
<1>0. CoreInv /\ TypeOK /\ Root \notin Paths
  BY RootFacts DEF IndexInv, CoreInv
<1>1. ASSUME NEW c \in Clients, Mark(c)
      PROVE  DirStays' /\ MemoryMatchesDisk'
  <2>1. MemoryMatchesDisk'
    BY <1>1 DEF IndexInv, CoreInv, TypeOK, MemoryMatchesDisk, Mark
  <2>2. DirStays'
    BY <1>1 DEF IndexInv, CoreInv, Mark, DirStays
  <2> QED BY <2>1, <2>2
<1>2. ASSUME NEW c \in Clients, Mkdir(c)
      PROVE  DirStays' /\ MemoryMatchesDisk'
  <2>1. DirStays'
    BY <1>2 DEF IndexInv, CoreInv, TypeOK, DirStays, Mkdir
  <2>2. MemoryMatchesDisk'
    BY <1>2 DEF IndexInv, CoreInv, Mkdir, MemoryMatchesDisk
  <2> QED BY <2>1, <2>2
<1>3. ASSUME NEW c \in Clients, Commit(c)
      PROVE  DirStays' /\ MemoryMatchesDisk'
  <2>1. MemoryMatchesDisk'
    BY <1>3 DEF IndexInv, CoreInv, TypeOK, MemoryMatchesDisk, NoEntryDuringFetch,
       Commit, RolledBack
  <2>2. DirStays'
    BY <1>3 DEF IndexInv, CoreInv, Commit, DirStays
  <2> QED BY <2>1, <2>2
<1>4. ASSUME NEW c \in Clients, RemoveTree(c)
      PROVE  DirStays' /\ MemoryMatchesDisk'
  <2>1. entries[model[c]] \in Paths /\ entries[model[c]] # Root
    BY <1>0, <1>4, DeleterFacts DEF RemoveTree, Paths
  <2>2. DirStays'
    BY <1>4, <2>1 DEF IndexInv, CoreInv, TypeOK, DirStays, RemoveTree
  <2>3. MemoryMatchesDisk'
    BY <1>4, <2>1 DEF IndexInv, CoreInv, TypeOK, MemoryMatchesDisk, RemoveTree
  <2> QED BY <2>2, <2>3
<1>5. ASSUME NEW c \in Clients, Unindex(c)
      PROVE  DirStays' /\ MemoryMatchesDisk'
  <2>1. MemoryMatchesDisk'
    BY <1>5 DEF IndexInv, CoreInv, TypeOK, MemoryMatchesDisk, Unindex
  <2>2. DirStays'
    BY <1>5 DEF IndexInv, CoreInv, Unindex, DirStays
  <2> QED BY <2>1, <2>2
<1>6. ASSUME NEW c \in Clients, NEW m \in Models, MarkUsed(c, m)
      PROVE  DirStays' /\ MemoryMatchesDisk'
  <2>1. MemoryMatchesDisk'
    BY <1>6 DEF IndexInv, CoreInv, TypeOK, MemoryMatchesDisk, MarkUsed
  <2>2. DirStays'
    BY <1>6 DEF IndexInv, CoreInv, MarkUsed, DirStays
  <2> QED BY <2>1, <2>2
<1>7. ASSUME Crash
      PROVE  DirStays' /\ MemoryMatchesDisk'
  <2>1. MemoryMatchesDisk'
    BY <1>7 DEF IndexInv, CoreInv, TypeOK, MemoryMatchesDisk, Crash
  <2>2. DirStays'
    BY <1>7 DEF IndexInv, CoreInv, Crash, DirStays
  <2> QED BY <2>1, <2>2
<1>8. ASSUME NewStore
      PROVE  DirStays' /\ MemoryMatchesDisk'
  <2>1. DirStays'
    BY <1>8 DEF IndexInv, CoreInv, TypeOK, DirStays, NewStore
  <2>2. MemoryMatchesDisk'
    BY <1>8 DEF IndexInv, CoreInv, TypeOK, MemoryMatchesDisk, NewStore
  <2> QED BY <2>1, <2>2
<1>9. ASSUME NEW c \in Clients, RemoveSome(c)
      PROVE  DirStays' /\ MemoryMatchesDisk'
  <2>1. entries[model[c]] \in Paths /\ entries[model[c]] # Root
    BY <1>0, <1>9, DeleterFacts DEF RemoveSome, Paths
  <2> QED BY <1>9, <2>1 DEF IndexInv, DirStays, MemoryMatchesDisk, RemoveSome
<1>10. CASE UNCHANGED <<up, dir, entries, index>>
  BY <1>10 DEF IndexInv, DirStays, MemoryMatchesDisk
<1> QED BY <1>1, <1>2, <1>3, <1>4, <1>5, <1>6, <1>7, <1>8, <1>9, <1>10
   DEF IndexInv, Next, Step, Gradual, Request, vars, Lookup, Reread, Enter, Check,
   DownloadOk, DownloadFails, Measure, Land, Overwrite, RemoveFails, BeginFetch, BeginDelete

(* The directory a Delete is about to remove is that of a listed model, its own
   if it lies under the root. *)
LEMMA VictimFacts ==
  ASSUME DestsOutside, IInv, NEW c \in Clients, pc[c] \in DeleteSteps
  PROVE  LET p == entries[model[c]] IN
           /\ up /\ lock = c /\ model[c] \in Models
           /\ p \in Paths /\ p = index[model[c]] /\ p # Root
           /\ UnderRoot(p) => p = model[c]
<1>1. up /\ lock = c /\ model[c] \in Models /\ entries[model[c]] \in Paths
  BY DeleterFacts DEF IInv, IndexInv
<1>2. entries = index
  BY <1>1 DEF IInv, IndexInv, MemoryMatchesDisk
<1>3. entries[model[c]] \in {None, model[c]} \cup Dests
  BY <1>1, <1>2 DEF IInv, PathIsOwn
<1> QED BY <1>1, <1>2, <1>3, PathFacts, PathTypes DEF Paths

FilesInv == PathIsOwn /\ DefaultIsOwn /\ TreeIsMine /\ IndexedFilesPresent

(* Overlaid in the next state, for a path and a model that do not change. *)
OverlaidNext(p, m) ==
  /\ p \in Dests /\ fs'[p][m] = "mixed"
  /\ \E n \in Models \ {m} : fs'[p][n] # "none"

(* When every tree stays as it is or is spoilt by a sharer, leaders' trees and the
   trees of listed models remain accounted for. *)
LEMMA TreesFollow ==
  ASSUME TypeOK, TreeIsMine, IndexedFilesPresent, UNCHANGED <<index, torn, model, dest, pc>>,
         \A q \in Paths, m \in Models :
           \/ fs'[q][m] = fs[q][m] /\ (Overlaid(q, m) => OverlaidNext(q, m))
           \/ OverlaidNext(q, m)
  PROVE  TreeIsMine' /\ IndexedFilesPresent'
<1>1. TreeIsMine'
  <2> SUFFICES ASSUME NEW d \in Clients, pc[d] \in {"download", "measure", "commit"}
               PROVE  \/ fs'[Place(d)][model[d]] = IF pc[d] = "download" THEN "part" ELSE "full"
                      \/ OverlaidNext(Place(d), model[d])
    BY DEF TreeIsMine, Overlaid, OverlaidNext, Place
  <2>1. PICK q \in Paths, m \in Models : q = Place(d) /\ m = model[d]
    BY PlaceFacts DEF TypeOK
  <2> QED BY <2>1 DEF TreeIsMine
<1>2. IndexedFilesPresent'
  <2> SUFFICES ASSUME NEW m \in Models, index[m] # None, m \notin torn
               PROVE  fs'[index[m]][m] = "full" \/ OverlaidNext(index[m], m)
    BY DEF IndexedFilesPresent, Overlaid, OverlaidNext
  <2>1. PICK q \in Paths : q = index[m]
    BY DEF TypeOK
  <2> QED BY <2>1 DEF IndexedFilesPresent
<1> QED BY <1>1, <1>2

(* A fetch that touches its own tree only: others' trees, and what is listed, stay. *)
LEMMA WriterKeeps ==
  ASSUME DestsOutside, IInv, TypeOK, NEW c \in Clients, pc[c] \in DoFetch,
         UNCHANGED <<index, torn, model, dest>>,
         \A q \in Paths, m \in Models :
           fs'[q][m] # fs[q][m] => q = Place(c) /\ m = model[c] /\ fs'[q][m] # "none",
         \A d \in Clients \ {c} : pc'[d] = pc[d],
         \/ pc'[c] \notin {"download", "measure", "commit"}
         \/ fs'[Place(c)][model[c]] = IF pc'[c] = "download" THEN "part" ELSE "full"
         \/ OverlaidNext(Place(c), model[c])
  PROVE  FilesInv'
<1>1. /\ Place(c) \in Paths /\ Place(c) \in {model[c]} \cup Dests
      /\ model[c] \in Models /\ Models \cap Dests = {}
  BY PlaceFacts, PathFacts DEF TypeOK
<1>2. PICK p \in Paths, M \in Models : p = Place(c) /\ M = model[c]
  BY <1>1
<1>3. index[M] = None /\ \A d \in Clients \ {c} : pc[d] \in DoFetch => model[d] # M
  BY <1>2 DEF IInv, IndexInv, CoreInv, LeaderFlies, LeaderOnly, StoppedIdle, MemoryMatchesDisk,
     NoEntryDuringFetch, Staged, DoFetch
<1>4. \A q \in Paths, m \in Models \ {M} :
        fs'[q][m] = fs[q][m] /\ (Overlaid(q, m) => OverlaidNext(q, m))
  <2> SUFFICES ASSUME NEW q \in Paths, NEW m \in Models \ {M}
               PROVE  fs'[q][m] = fs[q][m] /\ (Overlaid(q, m) => OverlaidNext(q, m))
    OBVIOUS
  <2>1. fs'[q][m] = fs[q][m]
    BY <1>2
  <2>2. \A n \in Models : fs[q][n] # "none" => fs'[q][n] # "none"
    OBVIOUS
  <2> QED BY <2>1, <2>2 DEF Overlaid, OverlaidNext
<1>5. PathIsOwn'
  BY DEF IInv, PathIsOwn
<1>6. DefaultIsOwn'
  BY <1>1, <1>2, ModelPaths DEF IInv, DefaultIsOwn
<1>7. TreeIsMine'
  <2> SUFFICES ASSUME NEW d \in Clients, pc'[d] \in {"download", "measure", "commit"}
               PROVE  \/ fs'[Place(d)][model[d]] = IF pc'[d] = "download" THEN "part" ELSE "full"
                      \/ OverlaidNext(Place(d), model[d])
    BY DEF TreeIsMine, Overlaid, OverlaidNext, Place
  <2>1. CASE d = c
    BY <2>1
  <2>2. CASE d # c
    <3>1. PICK q \in Paths, m \in Models \ {M} : q = Place(d) /\ m = model[d]
      BY <1>3, <2>2, PlaceFacts DEF TypeOK, DoFetch
    <3> QED BY <1>4, <2>2, <3>1 DEF IInv, TreeIsMine
  <2> QED BY <2>1, <2>2
<1>8. IndexedFilesPresent'
  <2> SUFFICES ASSUME NEW m \in Models, index[m] # None, m \notin torn
               PROVE  fs'[index[m]][m] = "full" \/ OverlaidNext(index[m], m)
    BY DEF IndexedFilesPresent, Overlaid, OverlaidNext
  <2>1. PICK q \in Paths : q = index[m]
    BY DEF TypeOK
  <2> QED BY <1>3, <1>4, <2>1 DEF IInv, IndexedFilesPresent
<1> QED BY <1>5, <1>6, <1>7, <1>8 DEF FilesInv

(* A removal that touches the own directory of its model only, which nobody fetches and
   which is not listed or is known to be torn. *)
LEMMA RemoverKeeps ==
  ASSUME DestsOutside, IInv, TypeOK, NEW c \in Clients, model[c] \in Models,
         UNCHANGED <<index, model, dest>>, torn \subseteq torn',
         \A d \in Clients \ {c} : pc'[d] = pc[d],
         pc'[c] \notin {"download", "measure", "commit"},
         \A d \in Clients \ {c} : pc[d] \in DoFetch => model[d] # model[c],
         \A q \in Paths : fs'[q] # fs[q] => q = model[c],
         fs'[model[c]] # fs[model[c]] =>
           /\ index[model[c]] = None \/ model[c] \in torn'
           /\ \A m \in Models \ {model[c]} : fs[model[c]][m] = "none" => fs'[model[c]][m] = "none"
  PROVE  FilesInv'
<1>1. Models \cap Dests = {}
  BY PathFacts
<1>2. PICK M \in Models : M = model[c]
  OBVIOUS
<1>3. \A q \in Paths \ {M}, m \in Models : fs'[q][m] = fs[q][m] /\ (Overlaid(q, m) => OverlaidNext(q, m))
  BY <1>2 DEF Overlaid, OverlaidNext
<1>4. PathIsOwn'
  BY DEF IInv, PathIsOwn
<1>5. DefaultIsOwn'
  BY <1>2, ModelPaths DEF IInv, DefaultIsOwn
<1>6. TreeIsMine'
  <2> SUFFICES ASSUME NEW d \in Clients, pc'[d] \in {"download", "measure", "commit"}
               PROVE  \/ fs'[Place(d)][model[d]] = IF pc'[d] = "download" THEN "part" ELSE "full"
                      \/ OverlaidNext(Place(d), model[d])
    BY DEF TreeIsMine, Overlaid, OverlaidNext, Place
  <2>1. d # c /\ pc'[d] = pc[d] /\ model[d] # M
    BY <1>2 DEF DoFetch
  <2>2. PICK q \in Paths \ {M}, m \in Models : q = Place(d) /\ m = model[d]
    BY <2>1, PlaceFacts, PlacesApart DEF TypeOK
  <2> QED BY <1>3, <2>1, <2>2 DEF IInv, TreeIsMine
<1>7. IndexedFilesPresent'
  <2> SUFFICES ASSUME NEW m \in Models, index[m] # None, m \notin torn'
               PROVE  fs'[index[m]][m] = "full" \/ OverlaidNext(index[m], m)
    BY DEF IndexedFilesPresent, Overlaid, OverlaidNext
  <2>1. PICK q \in Paths : q = index[m] /\ q \in {m} \cup Dests
    BY DEF TypeOK, IInv, PathIsOwn
  <2>2. CASE q = M
    <3>1. m = M
      BY <1>1, <2>1, <2>2
    <3>2. fs'[M] = fs[M] /\ m \notin torn
      BY <1>2, <2>1, <2>2, <3>1
    <3>3. fs[M][M] = "full"
      <4>1. fs[index[m]][m] = "full" \/ Overlaid(index[m], m)
        BY <3>2 DEF IInv, IndexedFilesPresent
      <4>2. index[m] \notin Dests
        BY <1>1, <2>1, <2>2
      <4> QED BY <2>1, <2>2, <3>1, <4>1, <4>2 DEF Overlaid
    <3> QED BY <2>1, <2>2, <3>1, <3>2, <3>3
  <2>3. CASE q # M
    BY <1>3, <2>1, <2>3 DEF IInv, IndexedFilesPresent
  <2> QED BY <2>2, <2>3
<1> QED BY <1>4, <1>5, <1>6, <1>7 DEF FilesInv

(* Every step preserves the agreement of the index and the files. *)
LEMMA FilesStep ==
  ASSUME DestsOutside, IInv, IndexInv', [Next]_vars
  PROVE  IInv'
<1> USE PathTypes, PathFacts DEF Staged, ReadLocked, WriteLocked, Goto, Reply, Save, SaveFails,
        DoFetch, LeaderOnly, LeaderSteps, FetchSteps, DeleteSteps, Replies, Levels
<1>0. TypeOK /\ TypeOK'
  BY DEF IInv, FilesInv, IndexInv, CoreInv
<1>1. ASSUME NEW c \in Clients, Lookup(c)
      PROVE  FilesInv'
  <2>1. TreeIsMine'
    BY <1>1 DEF IInv, FilesInv, IndexInv, CoreInv, TypeOK, TreeIsMine, Overlaid, Place, Lookup, Found
  <2>2. PathIsOwn' /\ DefaultIsOwn' /\ IndexedFilesPresent'
    BY <1>1 DEF IInv, FilesInv, IndexInv, CoreInv, Lookup, PathIsOwn, DefaultIsOwn,
       IndexedFilesPresent, Overlaid
  <2> QED BY <2>1, <2>2 DEF FilesInv
<1>2. ASSUME NEW c \in Clients, Mark(c)
      PROVE  FilesInv'
  <2>1. PathIsOwn' /\ DefaultIsOwn'
    BY <1>2 DEF IInv, FilesInv, IndexInv, CoreInv, TypeOK, PathIsOwn, DefaultIsOwn, MemoryMatchesDisk, Mark
  <2>2. TreeIsMine'
    BY <1>2 DEF IInv, FilesInv, IndexInv, CoreInv, TypeOK, TreeIsMine, Overlaid, Place, Mark
  <2>3. IndexedFilesPresent'
    BY <1>2 DEF IInv, FilesInv, IndexInv, CoreInv, TypeOK, IndexedFilesPresent, Overlaid, MemoryMatchesDisk,
       Mark
  <2> QED BY <2>1, <2>2, <2>3 DEF FilesInv
<1>3. ASSUME NEW c \in Clients, Reread(c)
      PROVE  FilesInv'
  <2>1. TreeIsMine'
    BY <1>3 DEF IInv, FilesInv, IndexInv, CoreInv, TypeOK, TreeIsMine, Overlaid, Place, Reread
  <2>2. PathIsOwn' /\ DefaultIsOwn' /\ IndexedFilesPresent'
    BY <1>3 DEF IInv, FilesInv, IndexInv, CoreInv, Reread, PathIsOwn, DefaultIsOwn,
       IndexedFilesPresent, Overlaid
  <2> QED BY <2>1, <2>2 DEF FilesInv
<1>4. ASSUME NEW c \in Clients, Enter(c)
      PROVE  FilesInv'
  <2>1. TreeIsMine'
    BY <1>4 DEF IInv, FilesInv, IndexInv, CoreInv, TypeOK, TreeIsMine, Overlaid, Place, Enter, Leads
  <2>2. PathIsOwn' /\ DefaultIsOwn' /\ IndexedFilesPresent'
    BY <1>4 DEF IInv, FilesInv, IndexInv, CoreInv, Enter, PathIsOwn, DefaultIsOwn,
       IndexedFilesPresent, Overlaid
  <2> QED BY <2>1, <2>2 DEF FilesInv
<1>5. ASSUME NEW c \in Clients, Check(c)
      PROVE  FilesInv'
  <2>1. TreeIsMine'
    BY <1>5 DEF IInv, FilesInv, IndexInv, CoreInv, TypeOK, TreeIsMine, Overlaid, Place, Check, Found
  <2>2. PathIsOwn' /\ DefaultIsOwn' /\ IndexedFilesPresent'
    BY <1>5 DEF IInv, FilesInv, IndexInv, CoreInv, Check, PathIsOwn, DefaultIsOwn,
       IndexedFilesPresent, Overlaid
  <2> QED BY <2>1, <2>2 DEF FilesInv
<1>6. ASSUME NEW c \in Clients, Mkdir(c)
      PROVE  FilesInv'
  <2>1. \/ fs' = [fs EXCEPT ![Place(c)][model[c]] = "part"] /\ pc' = [pc EXCEPT ![c] = "download"]
        \/ /\ fs' = fs
           /\ pc' = [pc EXCEPT ![c] = IF flight[model[c]] = c THEN "land" ELSE "idle"]
    BY <1>6, Zenon DEF Mkdir, Goto, Reply
  <2>2. pc[c] = "mkdir" /\ UNCHANGED <<index, torn, model, dest>>
    BY <1>6 DEF Mkdir
  <2>3. \A q \in Paths, m \in Models : fs'[q][m] # fs[q][m] =>
          q = Place(c) /\ m = model[c] /\ fs'[q][m] = "part" /\ pc'[c] = "download"
    BY <1>0, <2>1, PlaceFacts DEF TypeOK
  <2>4. pc'[c] \in {"download", "measure", "commit"} => fs'[Place(c)][model[c]] = "part"
                                                       /\ pc'[c] = "download"
    BY <1>0, <2>1, PlaceFacts DEF TypeOK
  <2>5. \A d \in Clients \ {c} : pc'[d] = pc[d]
    BY <1>0, <2>1 DEF TypeOK
  <2> QED BY <1>0, <2>2, <2>3, <2>4, <2>5, WriterKeeps DEF DoFetch
<1>7. ASSUME NEW c \in Clients, DownloadOk(c)
      PROVE  FilesInv'
  <2>1. /\ fs' = [fs EXCEPT ![Place(c)][model[c]] = IF @ = "part" THEN "full" ELSE "mixed"]
        /\ pc[c] = "download" /\ pc' = [pc EXCEPT ![c] = "measure"]
        /\ UNCHANGED <<index, torn, model, dest>>
    BY <1>7 DEF DownloadOk
  <2>2. Place(c) \in Paths /\ model[c] \in Models
    BY <1>0, PlaceFacts DEF TypeOK
  <2>3. fs[Place(c)][model[c]] = "part" \/ Overlaid(Place(c), model[c])
    BY <2>1 DEF IInv, TreeIsMine
  <2>4. \A q \in Paths, m \in Models : fs'[q][m] # fs[q][m] =>
          q = Place(c) /\ m = model[c] /\ fs'[q][m] # "none"
    BY <1>0, <2>1, <2>2 DEF TypeOK
  <2>5. pc'[c] = "measure" /\ \A d \in Clients \ {c} : pc'[d] = pc[d]
    BY <1>0, <2>1 DEF TypeOK
  <2>6. \/ fs'[Place(c)][model[c]] = "full"
        \/ /\ Place(c) \in Dests /\ fs'[Place(c)][model[c]] = "mixed"
           /\ \E n \in Models \ {model[c]} : fs'[Place(c)][n] # "none"
    BY <1>0, <2>1, <2>2, <2>3 DEF TypeOK, Overlaid
  <2> QED BY <1>0, <2>1, <2>4, <2>5, <2>6, WriterKeeps DEF DoFetch, OverlaidNext
<1>8. ASSUME NEW c \in Clients, DownloadFails(c)
      PROVE  FilesInv'
  <2>1. /\ pc[c] = "download" /\ pc'[c] \notin {"download", "measure", "commit"}
        /\ UNCHANGED <<index, torn, model, dest>>
        /\ \A d \in Clients \ {c} : pc'[d] = pc[d]
    BY <1>0, <1>8 DEF TypeOK, DownloadFails
  <2>2. \A q \in Paths : fs'[q] # fs[q] => q = model[c] /\ fs' = Cut(model[c])
    BY <1>8, <1>0, CutFacts, PlaceFacts DEF Place, DownloadFails
  <2>3. model[c] \in Models /\ index[model[c]] = None
    BY <1>0, <2>1 DEF IInv, IndexInv, CoreInv, TypeOK, StoppedIdle, MemoryMatchesDisk,
       NoEntryDuringFetch
  <2>4. \A d \in Clients \ {c} : pc[d] \in DoFetch => model[d] # model[c]
    BY <2>1 DEF IInv, IndexInv, CoreInv, LeaderFlies
  <2>5. fs'[model[c]] # fs[model[c]] => \A m \in Models : fs'[model[c]][m] = "none"
    BY <2>2, <2>3, ModelPaths DEF Cut
  <2>6. torn \subseteq torn' /\ \A q \in Paths : fs'[q] # fs[q] => q = model[c]
    BY <2>1, <2>2
  <2> QED BY <1>0, <2>1, <2>3, <2>4, <2>5, <2>6, RemoverKeeps
<1>9. ASSUME NEW c \in Clients, Measure(c)
      PROVE  FilesInv'
  <2>1. TreeIsMine'
    BY <1>9 DEF IInv, FilesInv, IndexInv, CoreInv, TypeOK, TreeIsMine, Overlaid, Place, Measure
  <2>2. PathIsOwn' /\ DefaultIsOwn' /\ IndexedFilesPresent'
    BY <1>9 DEF IInv, FilesInv, IndexInv, CoreInv, Measure, PathIsOwn, DefaultIsOwn,
       IndexedFilesPresent, Overlaid
  <2> QED BY <2>1, <2>2 DEF FilesInv
<1>10. ASSUME NEW c \in Clients, Commit(c)
      PROVE  FilesInv'
  <2>1. Place(c) \in Paths /\ Place(c) \in {model[c]} \cup Dests
    BY <1>0, PlaceFacts
  <2>2. PathIsOwn'
    BY <1>10, <2>1 DEF IInv, IndexInv, CoreInv, TypeOK, PathIsOwn, MemoryMatchesDisk,
       Commit, RolledBack
  <2>3. TreeIsMine' /\ DefaultIsOwn'
    BY <1>10, <2>1 DEF IInv, IndexInv, CoreInv, TypeOK, TreeIsMine, DefaultIsOwn, Overlaid,
       Place, Commit, RolledBack
  <2>4. IndexedFilesPresent'
    <3>1. pc[c] = "commit" /\ fs' = fs /\ torn' = torn /\ entries = index
      BY <1>10 DEF IInv, IndexInv, MemoryMatchesDisk, Commit
    <3>2. fs[Place(c)][model[c]] = "full" \/ Overlaid(Place(c), model[c])
      BY <3>1 DEF IInv, TreeIsMine
    <3>3. index' = [index EXCEPT ![model[c]] = Place(c)] \/ index' = index
      BY <1>10, <3>1 DEF Commit
    <3> QED BY <1>0, <3>1, <3>2, <3>3 DEF IInv, TypeOK, IndexedFilesPresent, Overlaid
  <2> QED BY <2>2, <2>3, <2>4 DEF FilesInv
<1>11. ASSUME NEW c \in Clients, Land(c)
      PROVE  FilesInv'
  <2>1. TreeIsMine'
    BY <1>11 DEF IInv, FilesInv, IndexInv, CoreInv, TypeOK, TreeIsMine, Overlaid, Place, Land, Followers
  <2>2. PathIsOwn' /\ DefaultIsOwn' /\ IndexedFilesPresent'
    BY <1>11 DEF IInv, FilesInv, IndexInv, CoreInv, Land, PathIsOwn, DefaultIsOwn,
       IndexedFilesPresent, Overlaid
  <2> QED BY <2>1, <2>2 DEF FilesInv
<1>12. ASSUME NEW c \in Clients, RemoveSome(c)
      PROVE  FilesInv'
  <2>1. LET p == entries[model[c]] IN
          /\ up /\ lock = c /\ model[c] \in Models
          /\ p \in Paths /\ p = index[model[c]] /\ p # Root
          /\ UnderRoot(p) => p = model[c]
    BY <1>12, VictimFacts DEF RemoveSome
  <2>2. /\ pc[c] = "rm" /\ entries[model[c]] = model[c]
        /\ UNCHANGED <<index, model, dest, pc>> /\ torn' = torn \cup {model[c]}
    BY <1>12, <2>1 DEF RemoveSome
  <2>3. PICK m \in Models : /\ fs[model[c]][m] # "none"
                            /\ fs' = [fs EXCEPT ![model[c]][m] = "mixed"]
    <3>1. Below(entries[model[c]]) = {model[c]}
      BY <2>1, <2>2, PathFacts
    <3> QED BY <1>12, <2>1, <3>1 DEF RemoveSome
  <2>4. m = model[c]
    BY <2>1, <2>3 DEF IInv, DefaultIsOwn
  <2>5. \A q \in Paths : fs'[q] # fs[q] => q = model[c]
    BY <1>0, <2>3 DEF TypeOK
  <2>6. \A n \in Models \ {model[c]} : fs'[model[c]][n] = fs[model[c]][n]
    BY <1>0, <2>1, <2>3, <2>4 DEF TypeOK, Paths
  <2>7. \A d \in Clients : pc[d] \in DoFetch => model[d] # model[c]
    BY <2>1 DEF IInv, IndexInv, CoreInv, NoEntryDuringFetch
  <2> QED BY <1>0, <2>1, <2>2, <2>5, <2>6, <2>7, RemoverKeeps DEF DoFetch
<1>13. ASSUME NEW c \in Clients, RemoveTree(c)
      PROVE  FilesInv'
  <2>1. LET p == entries[model[c]] IN
          /\ up /\ lock = c /\ model[c] \in Models
          /\ p \in Paths /\ p = index[model[c]] /\ p # Root
          /\ UnderRoot(p) => p = model[c]
    BY <1>13, VictimFacts DEF RemoveTree
  <2>2. /\ pc[c] = "rm" /\ pc' = [pc EXCEPT ![c] = "unindex"]
        /\ UNCHANGED <<index, model, dest>>
        /\ \/ /\ entries[model[c]] = model[c] /\ fs' = Cut(model[c])
              /\ torn' = torn \cup {model[c]}
           \/ fs' = fs /\ torn' = torn
    BY <1>13, <2>1 DEF RemoveTree
  <2>3. \A q \in Paths : fs'[q] # fs[q] => q = model[c] /\ fs' = Cut(model[c]) /\ model[c] \in torn'
    BY <1>0, <2>1, <2>2, CutFacts
  <2>4. \A d \in Clients : pc[d] \in DoFetch => model[d] # model[c]
    BY <2>1 DEF IInv, IndexInv, CoreInv, NoEntryDuringFetch
  <2>5. pc'[c] = "unindex" /\ \A d \in Clients \ {c} : pc'[d] = pc[d]
    BY <1>0, <2>2 DEF TypeOK
  <2>6. torn \subseteq torn'
    BY <2>2
  <2>7. fs'[model[c]] # fs[model[c]] =>
          model[c] \in torn' /\ \A m \in Models : fs'[model[c]][m] = "none"
    BY <2>1, <2>3, ModelPaths DEF Cut
  <2>8. \A q \in Paths : fs'[q] # fs[q] => q = model[c]
    BY <2>3
  <2> QED BY <1>0, <2>1, <2>2, <2>4, <2>5, <2>6, <2>7, <2>8, RemoverKeeps
<1>14. ASSUME NEW c \in Clients, RemoveFails(c)
      PROVE  FilesInv'
  <2>1. TreeIsMine'
    BY <1>14 DEF IInv, FilesInv, IndexInv, CoreInv, TypeOK, TreeIsMine, Overlaid, Place, RemoveFails
  <2>2. PathIsOwn' /\ DefaultIsOwn' /\ IndexedFilesPresent'
    BY <1>14 DEF IInv, FilesInv, IndexInv, CoreInv, RemoveFails, PathIsOwn, DefaultIsOwn,
       IndexedFilesPresent, Overlaid
  <2> QED BY <2>1, <2>2 DEF FilesInv
<1>15. ASSUME NEW c \in Clients, Unindex(c)
      PROVE  FilesInv'
  <2>1. PathIsOwn' /\ DefaultIsOwn'
    BY <1>15 DEF IInv, FilesInv, IndexInv, CoreInv, TypeOK, PathIsOwn, DefaultIsOwn, MemoryMatchesDisk, Unindex
  <2>2. TreeIsMine'
    BY <1>15 DEF IInv, FilesInv, IndexInv, CoreInv, TypeOK, TreeIsMine, Overlaid, Place, Unindex
  <2>3. IndexedFilesPresent'
    BY <1>15 DEF IInv, FilesInv, IndexInv, CoreInv, TypeOK, IndexedFilesPresent, Overlaid,
       MemoryMatchesDisk, Unindex
  <2> QED BY <2>1, <2>2, <2>3 DEF FilesInv
<1>16. ASSUME NEW c \in Clients, NEW m \in Models, NEW d \in Dests \cup {Default},
             BeginFetch(c, m, d)
      PROVE  FilesInv'
  <2>1. TreeIsMine'
    BY <1>16 DEF IInv, FilesInv, IndexInv, CoreInv, TypeOK, TreeIsMine, Overlaid, Place, BeginFetch
  <2>2. PathIsOwn' /\ DefaultIsOwn' /\ IndexedFilesPresent'
    BY <1>16 DEF IInv, FilesInv, IndexInv, CoreInv, BeginFetch, PathIsOwn, DefaultIsOwn,
       IndexedFilesPresent, Overlaid
  <2> QED BY <2>1, <2>2 DEF FilesInv
<1>17. ASSUME NEW c \in Clients, NEW m \in Models, BeginDelete(c, m)
      PROVE  FilesInv'
  <2>1. TreeIsMine'
    BY <1>17 DEF IInv, FilesInv, IndexInv, CoreInv, TypeOK, TreeIsMine, Overlaid, Place, BeginDelete
  <2>2. PathIsOwn' /\ DefaultIsOwn' /\ IndexedFilesPresent'
    BY <1>17 DEF IInv, FilesInv, IndexInv, CoreInv, BeginDelete, PathIsOwn, DefaultIsOwn,
       IndexedFilesPresent, Overlaid
  <2> QED BY <2>1, <2>2 DEF FilesInv
<1>18. ASSUME NEW c \in Clients, NEW m \in Models, MarkUsed(c, m)
      PROVE  FilesInv'
  <2>1. PathIsOwn' /\ DefaultIsOwn'
    BY <1>18 DEF IInv, FilesInv, IndexInv, CoreInv, TypeOK, PathIsOwn, DefaultIsOwn, MemoryMatchesDisk, MarkUsed
  <2>2. TreeIsMine'
    BY <1>18 DEF IInv, FilesInv, IndexInv, CoreInv, TypeOK, TreeIsMine, Overlaid, Place, MarkUsed
  <2>3. IndexedFilesPresent'
    BY <1>18 DEF IInv, FilesInv, IndexInv, CoreInv, TypeOK, IndexedFilesPresent, Overlaid,
       MemoryMatchesDisk, MarkUsed
  <2> QED BY <2>1, <2>2, <2>3 DEF FilesInv
<1>19. ASSUME Crash
      PROVE  FilesInv'
  <2>1. TreeIsMine'
    BY <1>19 DEF IInv, FilesInv, IndexInv, CoreInv, TypeOK, TreeIsMine, Overlaid, Place, Crash
  <2>2. PathIsOwn' /\ DefaultIsOwn' /\ IndexedFilesPresent'
    BY <1>19 DEF IInv, FilesInv, IndexInv, CoreInv, Crash, PathIsOwn, DefaultIsOwn,
       IndexedFilesPresent, Overlaid
  <2> QED BY <2>1, <2>2 DEF FilesInv
<1>20. ASSUME NewStore
      PROVE  FilesInv'
  BY <1>20 DEF IInv, FilesInv, NewStore, Place, PathIsOwn, DefaultIsOwn, TreeIsMine,
     IndexedFilesPresent, Overlaid
<1>21. ASSUME NEW c \in Clients, Overwrite(c)
       PROVE  FilesInv'
  <2>1. pc[c] = "download" /\ UNCHANGED <<index, torn, model, dest, pc>>
    BY <1>21 DEF Overwrite
  <2>2. Place(c) \in Paths /\ Place(c) \in {model[c]} \cup Dests /\ model[c] \in Models
    BY <1>0, PlaceFacts DEF TypeOK
  <2>3. PICK n \in Models \ {model[c]} : /\ fs[Place(c)][n] \in {"part", "full"}
                                         /\ fs' = [fs EXCEPT ![Place(c)][n] = "mixed"]
    BY <1>21 DEF Overwrite
  <2>4. Place(c) \in Dests
    BY <2>2, <2>3 DEF IInv, DefaultIsOwn
  <2>5. fs[Place(c)][model[c]] # "none"
    BY <2>1 DEF IInv, TreeIsMine, Overlaid
  <2>6. PICK p \in Dests : p = Place(c)
    BY <2>4
  <2>7. /\ \A q \in Paths, m \in Models : fs'[q][m] # fs[q][m] => q = p /\ m = n
        /\ fs'[p][n] = "mixed" /\ fs'[p][model[c]] # "none"
    BY <1>0, <2>2, <2>3, <2>5, <2>6 DEF TypeOK
  <2>8. \A q \in Paths, m \in Models :
          \/ fs'[q][m] = fs[q][m] /\ (Overlaid(q, m) => OverlaidNext(q, m))
          \/ OverlaidNext(q, m)
    BY <2>2, <2>6, <2>7 DEF Overlaid, OverlaidNext
  <2>9. \A q \in Models, m \in Models : fs'[q][m] = fs[q][m]
    BY <2>6, <2>7 DEF Paths
  <2>10. DefaultIsOwn' /\ PathIsOwn'
    BY <2>1, <2>9 DEF IInv, DefaultIsOwn, PathIsOwn
  <2> QED BY <1>0, <2>1, <2>8, <2>10, TreesFollow DEF IInv, FilesInv
<1>22. CASE UNCHANGED vars
  BY <1>22 DEF IInv, FilesInv, vars, Place, PathIsOwn, DefaultIsOwn, TreeIsMine,
     IndexedFilesPresent, Overlaid
<1> QED BY <1>1, <1>2, <1>3, <1>4, <1>5, <1>6, <1>7, <1>8, <1>9, <1>10, <1>11, <1>12,
          <1>13, <1>14, <1>15, <1>16, <1>17, <1>18, <1>19, <1>20, <1>21, <1>22
   DEF IInv, FilesInv, Next, Step, Gradual, Request

LEMMA CoreInit ==
  ASSUME Init
  PROVE  CoreInv
<1> USE PathTypes DEF Init, FetchSteps, LeaderOnly, DoFetch, DeleteSteps, Replies, Levels
<1>1. TypeOK
  BY DEF TypeOK
<1>2. StoppedIdle /\ FlightIsLed /\ LeaderFlies /\ LockIsHeld
  BY DEF StoppedIdle, FlightIsLed, LeaderFlies, LockIsHeld
<1>3. NoEntryDuringFetch /\ NothingComesBack
  BY DEF NoEntryDuringFetch, NothingComesBack
<1> QED BY <1>1, <1>2, <1>3 DEF CoreInv

(* Whatever destinations requests carry, the storage root included: flights are led,
   the lock is a Delete's, a model being fetched is not
   listed, and the index file lists nothing the store has forgotten. *)
THEOREM CoreInvariance == Spec => []CoreInv
<1>1. Init => CoreInv
  BY CoreInit
<1>2. CoreInv /\ [Next]_vars => CoreInv'
  BY CoreStep
<1> QED BY <1>1, <1>2, PTL DEF Spec

(* When no request names the storage root, memory and index file agree as well. *)
THEOREM IndexInvariance ==
  ASSUME RootApart
  PROVE  Spec => []IndexInv
<1>1. Init => IndexInv
  BY CoreInit DEF Init, IndexInv, DirStays, MemoryMatchesDisk
<1>2. IndexInv /\ CoreInv' /\ [Next]_vars => IndexInv'
  BY IndexStep
<1> QED BY <1>1, <1>2, CoreInvariance, PTL DEF Spec

(* When explicit destinations lie outside the root, the whole inductive invariant
   holds in every reachable state of the store. *)
THEOREM Invariance ==
  ASSUME DestsOutside
  PROVE  Spec => []IInv
<1>0. RootApart
  BY PathFacts
<1>1. Init => IInv
  <2> SUFFICES ASSUME Init PROVE IInv
    OBVIOUS
  <2>1. IndexInv
    BY CoreInit DEF Init, IndexInv, DirStays, MemoryMatchesDisk
  <2>2. PathIsOwn /\ DefaultIsOwn /\ TreeIsMine /\ IndexedFilesPresent
    BY ModelPaths DEF Init, PathIsOwn, DefaultIsOwn, TreeIsMine, IndexedFilesPresent
  <2> QED BY <2>1, <2>2 DEF IInv
<1>2. IInv /\ IndexInv' /\ [Next]_vars => IInv'
  BY FilesStep
<1> QED BY <1>0, <1>1, <1>2, IndexInvariance, PTL DEF Spec

(* Every variable of the store keeps its type; an entry always has a path. *)
THEOREM TypeCorrect == Spec => []TypeOK
<1>1. CoreInv => TypeOK
  BY DEF CoreInv
<1> QED BY <1>1, CoreInvariance, PTL

(* doFetch's precondition holds throughout doFetch (store.go:249), whatever the
   destinations. *)
THEOREM FetchUndisturbed == Spec => []NoEntryDuringFetch
<1>1. CoreInv => NoEntryDuringFetch
  BY DEF CoreInv
<1> QED BY <1>1, CoreInvariance, PTL

(* For any number of concurrent callers a model is downloaded by one of them. *)
THEOREM Deduplication == Spec => []OneDownload
<1>1. CoreInv => OneDownload
  BY DEF CoreInv, LeaderFlies, LeaderOnly, OneDownload
<1> QED BY <1>1, CoreInvariance, PTL

(* A restart lists nothing the running store has forgotten, even after a Delete has
   taken the storage root with it. *)
THEOREM NoResurrection == Spec => []NothingComesBack
<1>1. CoreInv => NothingComesBack
  BY DEF CoreInv
<1> QED BY <1>1, CoreInvariance, PTL

(* A running store answers from exactly the index a restart would load, whatever
   saves have failed (store.go:299, 355). *)
THEOREM MemoryCorrect ==
  ASSUME RootApart
  PROVE  Spec => []MemoryMatchesDisk
<1>1. IndexInv => MemoryMatchesDisk
  BY DEF IndexInv
<1> QED BY <1>1, IndexInvariance, PTL

(* What index.json lists is on disk, through failed fetches, failed saves and crashes,
   unless a Delete has begun to remove it or another model was fetched into the same
   explicit destination (store.go:347, fetchers.go:32, 125). *)
THEOREM FilesPresent ==
  ASSUME DestsOutside
  PROVE  Spec => []IndexedFilesPresent
<1>1. IInv => IndexedFilesPresent
  BY DEF IInv
<1> QED BY <1>1, Invariance, PTL

(* Who takes files away: a fetch of an unlisted model its own, a fetch under way those
   of a model in the same destination, a Delete those of its own model's directory. *)
LEMMA StepFiles ==
  ASSUME DestsOutside, IInv, NEW c \in Clients, Step(c) \/ Gradual(c),
         NEW q \in Paths, NEW m \in Models, fs[q][m] = "full", fs'[q][m] # "full"
  PROVE  \/ q = Place(c) /\ pc[c] \in DoFetch /\ (m = model[c] \/ q = model[c])
         \/ q = Place(c) /\ pc[c] = "download" /\ m # model[c]
         \/ lock = c /\ pc[c] = "rm" /\ q = model[c]
<1>0. TypeOK
  BY DEF IInv, IndexInv, CoreInv
<1>1. Place(c) \in Paths /\ Place(c) \in {model[c]} \cup Dests
  BY <1>0, PlaceFacts
<1>2. CASE Mkdir(c)
  <2>1. fs' = [fs EXCEPT ![Place(c)][model[c]] = "part"]
    BY <1>2 DEF Mkdir
  <2>2. pc[c] = "mkdir"
    BY <1>2 DEF Mkdir
  <2> QED BY <1>0, <1>1, <2>1, <2>2 DEF TypeOK, DoFetch
<1>3. CASE DownloadOk(c)
  BY <1>0, <1>1, <1>3 DEF TypeOK, DownloadOk, DoFetch
<1>4. CASE DownloadFails(c)
  BY <1>0, <1>1, <1>4, CutFacts DEF DownloadFails, Place, DoFetch
<1>5. CASE RemoveSome(c) \/ RemoveTree(c)
  <2>1. pc[c] = "rm"
    BY <1>5 DEF RemoveSome, RemoveTree
  <2>2. LET p == entries[model[c]] IN
          p \in Paths /\ p # Root /\ lock = c /\ (UnderRoot(p) => p = model[c])
    BY <2>1, VictimFacts DEF DeleteSteps
  <2>3. CASE RemoveTree(c)
    BY <1>0, <2>1, <2>2, <2>3, CutFacts DEF RemoveTree
  <2>4. CASE RemoveSome(c)
    <3>1. Below(entries[model[c]]) = {model[c]}
      BY <2>2, <2>4, PathFacts DEF RemoveSome
    <3>2. PICK n \in Models : fs' = [fs EXCEPT ![model[c]][n] = "mixed"]
      BY <2>2, <2>4, <3>1 DEF RemoveSome
    <3> QED BY <1>0, <2>1, <2>2, <3>2 DEF TypeOK
  <2> QED BY <1>5, <2>3, <2>4
<1>6. CASE Overwrite(c)
  BY <1>0, <1>1, <1>6 DEF TypeOK, Overwrite
<1>7. CASE fs' = fs
  BY <1>7
<1> QED
  BY <1>2, <1>3, <1>4, <1>5, <1>6, <1>7 DEF Step, Gradual, Lookup, Mark, Reread, Enter,
     Check, Measure, Commit, Land, RemoveFails, Unindex

(* For any number of callers, the files of a listed model go only while a Delete of that
   model holds the lock, or while another model is being fetched into the explicit
   destination it lies in: nobody touches a model in its default directory. *)
THEOREM FilesSafe ==
  ASSUME DestsOutside
  PROVE  Spec => FilesGoByDeleteOrSharer
<1> DEFINE A == \A m \in Models :
       index[m] # None /\ fs[index[m]][m] = "full" /\ fs'[index[m]][m] # "full"
         => \/ lock # None /\ model[lock] = m /\ pc[lock] = "rm"
            \/ index[m] \in Dests /\ \E c \in Clients :
                 pc[c] = "download" /\ model[c] # m /\ Place(c) = index[m]
<1>1. ASSUME IInv, [Next]_vars PROVE [A]_vars
  <2> SUFFICES ASSUME NEW m \in Models, index[m] # None,
                      fs[index[m]][m] = "full", fs'[index[m]][m] # "full"
               PROVE  \/ lock # None /\ model[lock] = m /\ pc[lock] = "rm"
                      \/ index[m] \in Dests /\ \E c \in Clients :
                           pc[c] = "download" /\ model[c] # m /\ Place(c) = index[m]
    OBVIOUS
  <2>1. TypeOK /\ index[m] \in Paths /\ index[m] \in {m} \cup Dests
    BY <1>1 DEF IInv, IndexInv, CoreInv, TypeOK, PathIsOwn
  <2>2. PICK c \in Clients : Step(c) \/ Gradual(c)
    BY <1>1 DEF Next, vars, Crash, NewStore, Request, BeginFetch, BeginDelete, MarkUsed
  <2>3. model[c] \in Models /\ Models \cap Dests = {} /\ None \notin Clients
    BY <2>1, PathFacts, PathTypes DEF TypeOK
  <2>4. CASE pc[c] \in DoFetch /\ (m = model[c] \/ index[m] = model[c])
    <3>1. m = model[c]
      BY <2>1, <2>3, <2>4
    <3>2. up /\ entries = index /\ entries[model[c]] = None
      BY <1>1, <2>4 DEF IInv, IndexInv, CoreInv, StoppedIdle, MemoryMatchesDisk, NoEntryDuringFetch, Staged, DoFetch
    <3> QED BY <3>1, <3>2
  <2>5. CASE lock = c /\ pc[c] = "rm" /\ index[m] = model[c]
    BY <2>1, <2>3, <2>5
  <2>6. CASE index[m] = Place(c) /\ pc[c] = "download" /\ m # model[c]
    <3>1. Place(c) # m
      BY <2>1, <2>6, PlacesApart
    <3> QED BY <2>1, <2>6, <3>1
  <2> QED BY <1>1, <2>1, <2>2, <2>4, <2>5, <2>6, StepFiles
<1> QED BY <1>1, Invariance, PTL DEF Spec, FilesGoByDeleteOrSharer

(* For any number of callers, what was staged outside the root is never removed: a Delete
   skips it (store.go:345), and a failed fetch cleans up only a directory of its own. *)
THEOREM OutsideSafe == Spec => OutsideIsLeftAlone
<1> DEFINE A == \A p \in Outside, m \in Models : fs[p][m] # "none" => fs'[p][m] # "none"
<1>1. ASSUME CoreInv, [Next]_vars PROVE [A]_vars
  <2> SUFFICES ASSUME NEW p \in Outside, NEW m \in Models, fs[p][m] # "none"
               PROVE  fs'[p][m] # "none"
    OBVIOUS
  <2>0. TypeOK /\ p \in Paths /\ p \notin Models /\ p # Root
    BY <1>1, StoreAssumption DEF CoreInv, Paths
  <2>1. ASSUME NEW q \in Paths, UnderRoot(q), fs' = Cut(q)
        PROVE  fs'[p][m] # "none"
    <3>1. p \notin Below(q)
      BY <2>0, <2>1 DEF Below, UnderRoot
    <3> QED BY <2>0, <2>1, <3>1 DEF Cut
  <2>2. CASE fs' = fs
    BY <2>2
  <2>3. ASSUME fs' # fs
        PROVE  \E c \in Clients : \/ Mkdir(c) \/ DownloadOk(c) \/ DownloadFails(c)
                                  \/ RemoveSome(c) \/ RemoveTree(c) \/ Overwrite(c)
    BY <1>1, <2>3 DEF Next, Gradual, vars, Crash, NewStore, Request, BeginFetch, BeginDelete, MarkUsed,
       Step, Lookup, Mark, Reread, Enter, Check, Measure, Commit, Land, RemoveFails, Unindex
  <2>4. ASSUME NEW c \in Clients, Mkdir(c) \/ DownloadOk(c)
        PROVE  fs'[p][m] # "none"
    BY <2>0, <2>4, PlaceFacts DEF Mkdir, DownloadOk, TypeOK
  <2>5. ASSUME NEW c \in Clients, DownloadFails(c), fs' # fs
        PROVE  fs'[p][m] # "none"
    <3>1. Place(c) = model[c] /\ model[c] \in Models /\ fs' = Cut(Place(c))
      BY <2>0, <2>5 DEF DownloadFails, Place, TypeOK
    <3>2. model[c] \in Paths /\ UnderRoot(model[c])
      BY <3>1, ModelPaths
    <3> QED BY <2>1, <3>1, <3>2
  <2>6. ASSUME NEW c \in Clients, RemoveTree(c), fs' # fs
        PROVE  fs'[p][m] # "none"
    <3>1. entries[model[c]] \in Paths
      BY <1>1, <2>6, DeleterFacts DEF RemoveTree, DeleteSteps
    <3>2. UnderRoot(entries[model[c]]) /\ fs' = Cut(entries[model[c]])
      BY <2>6 DEF RemoveTree
    <3> QED BY <2>1, <3>1, <3>2
  <2>7. ASSUME NEW c \in Clients, RemoveSome(c) \/ Overwrite(c), fs' # fs
        PROVE  fs'[p][m] # "none"
    <3>1. PICK q, n : fs' = [fs EXCEPT ![q][n] = "mixed"]
      BY <2>7 DEF RemoveSome, Overwrite
    <3> QED BY <2>0, <3>1 DEF TypeOK
  <2> QED BY <2>2, <2>3, <2>4, <2>5, <2>6, <2>7
<1> QED BY <1>1, CoreInvariance, PTL DEF Spec, OutsideIsLeftAlone

(* For any number of callers, a listed model keeps its path: only a commit adds one,
   and it finds its model not listed. *)
THEOREM PathStable == Spec => PathIsStable
<1> DEFINE A == \A m \in Models : index[m] # None /\ index'[m] # None => index'[m] = index[m]
<1>1. ASSUME CoreInv, [Next]_vars PROVE [A]_vars
  <2> SUFFICES ASSUME NEW m \in Models, index[m] # None, index'[m] # None
               PROVE  index'[m] = index[m]
    OBVIOUS
  <2>0. TypeOK /\ (up => entries[m] = index[m])
    BY <1>1 DEF CoreInv, NothingComesBack
  <2>1. CASE index' = index
    BY <2>1
  <2>2. CASE index' = entries /\ up
    BY <2>0, <2>2
  <2>3. ASSUME index' # index, ~(index' = entries /\ up)
        PROVE  \E c \in Clients : Commit(c) \/ RemoveTree(c) \/ RemoveSome(c) \/ Unindex(c)
    BY <1>1, <2>3 DEF Next, Gradual, vars, Crash, NewStore, Request, BeginFetch, BeginDelete, MarkUsed,
       Step, Lookup, Mark, Reread, Enter, Check, Mkdir, DownloadOk, DownloadFails, Measure,
       Land, Overwrite, RemoveFails, Save, SaveFails, WriteLocked
  <2>4. ASSUME NEW c \in Clients, Commit(c), index' # index
        PROVE  index'[m] = index[m]
    <3>1. up /\ index' = [entries EXCEPT ![model[c]] = Place(c)] /\ pc[c] = "commit"
      BY <2>4 DEF Commit, Save, SaveFails, WriteLocked
    <3>2. entries[model[c]] = None
      BY <1>1, <3>1 DEF CoreInv, NoEntryDuringFetch, Staged, DoFetch
    <3> QED BY <2>0, <3>1, <3>2 DEF TypeOK
  <2>5. ASSUME NEW c \in Clients, RemoveTree(c) \/ RemoveSome(c), index' # index
        PROVE  index'[m] = index[m]
    BY <2>5 DEF RemoveTree, RemoveSome
  <2>6. ASSUME NEW c \in Clients, Unindex(c), index' # index
        PROVE  index'[m] = index[m]
    <3>1. up /\ index' = [entries EXCEPT ![model[c]] = None]
      BY <2>6 DEF Unindex, Save, SaveFails
    <3> QED BY <2>0, <3>1 DEF TypeOK
  <2> QED BY <2>1, <2>2, <2>3, <2>4, <2>5, <2>6
<1> QED BY <1>1, CoreInvariance, PTL DEF Spec, PathIsStable

Listed == {m \in Models : index[m] # None}

(* A model is being loaded exactly when some caller is in doFetch for it, then it
   is not listed, and the caller is the only one. *)
LoadingIsFetching ==
  /\ \A m \in Models : m \in Loading <=> \E c \in Clients : model[c] = m /\ pc[c] \in DoFetch
  /\ \A c, d \in Clients :
       pc[c] \in DoFetch /\ pc[d] \in DoFetch /\ model[c] = model[d] => c = d
  /\ \A m \in Loading : index[m] = None

LEMMA LoadingFacts ==
  ASSUME RootApart
  PROVE  IndexInv => LoadingIsFetching
<1> SUFFICES ASSUME IndexInv PROVE LoadingIsFetching
  OBVIOUS
<1>1. ASSUME NEW c \in Clients, pc[c] \in DoFetch
      PROVE  flight[model[c]] = c /\ model[c] \in Models /\ up /\ index[model[c]] = None
  BY <1>1 DEF IndexInv, CoreInv, TypeOK, LeaderFlies, LeaderOnly, StoppedIdle, MemoryMatchesDisk,
     NoEntryDuringFetch, Staged, DoFetch
<1>2. \A m \in Models : flight[m] # None => flight[m] \in Clients /\ model[flight[m]] = m
  BY DEF IndexInv, CoreInv, TypeOK, FlightIsLed
<1> QED BY <1>1, <1>2, PathTypes DEF Loading, LoadingIsFetching

(* If one caller moves, Loading gains or loses its model accordingly. *)
LEMMA LoadingStep ==
  ASSUME TypeOK, LoadingIsFetching, LoadingIsFetching', NEW c \in Clients, model' = model,
         \A d \in Clients \ {c} : pc'[d] \in DoFetch <=> pc[d] \in DoFetch
  PROVE  /\ pc[c] \in DoFetch /\ pc'[c] \notin DoFetch =>
              model[c] \in Loading /\ Loading' = Loading \ {model[c]}
         /\ pc[c] \notin DoFetch /\ pc'[c] \in DoFetch =>
              model[c] \notin Loading /\ Loading' = Loading \cup {model[c]}
         /\ (pc[c] \in DoFetch <=> pc'[c] \in DoFetch) => Loading' = Loading
<1>1. model[c] \in Models /\ Loading \subseteq Models /\ Loading' \subseteq Models
  BY DEF TypeOK, Loading
<1>2. \A m \in Models : m \in Loading <=> \E d \in Clients : model[d] = m /\ pc[d] \in DoFetch
  BY DEF LoadingIsFetching
<1>3. \A m \in Models : m \in Loading' <=> \E d \in Clients : model[d] = m /\ pc'[d] \in DoFetch
  BY DEF LoadingIsFetching
<1>4. \A d, e \in Clients :
        /\ pc[d] \in DoFetch /\ pc[e] \in DoFetch /\ model[d] = model[e] => d = e
        /\ pc'[d] \in DoFetch /\ pc'[e] \in DoFetch /\ model[d] = model[e] => d = e
  BY DEF LoadingIsFetching
<1>5. CASE pc[c] \in DoFetch /\ pc'[c] \notin DoFetch
  BY <1>1, <1>2, <1>3, <1>4, <1>5
<1>6. CASE pc[c] \notin DoFetch /\ pc'[c] \in DoFetch
  BY <1>1, <1>2, <1>3, <1>4, <1>6
<1>7. CASE pc[c] \in DoFetch <=> pc'[c] \in DoFetch
  BY <1>1, <1>2, <1>3, <1>7
<1> QED BY <1>5, <1>6, <1>7

(* The steps of one caller, seen by the abstract cache. *)
LEMMA StepRefines ==
  ASSUME RootApart, IndexInv, IndexInv', LoadingIsFetching, LoadingIsFetching',
         NEW c \in Clients, Step(c)
  PROVE  \/ Listed' = Listed /\ Loading' = Loading
         \/ \E m \in Models : \/ Cache!BeginLoad(m) \/ Cache!FinishLoad(m)
                              \/ Cache!AbortLoad(m) \/ Cache!Evict(m)
<1> USE DEF Staged, Goto, Reply, Save, SaveFails, DoFetch, DeleteSteps
<1>m. PICK M \in Models : M = model[c]
  BY DEF IndexInv, CoreInv, TypeOK
<1>0. /\ TypeOK /\ up /\ entries = index
      /\ pc[c] \in DoFetch => index[model[c]] = None
      /\ None \notin Paths
  BY PathTypes DEF IndexInv, CoreInv, TypeOK, Step, Lookup, Mark, Reread, Enter, Check, Mkdir, DownloadOk,
     DownloadFails, Measure, Commit, Land, RemoveTree, RemoveFails, Unindex,
     ReadLocked, WriteLocked, MemoryMatchesDisk, NoEntryDuringFetch
<1>1. CASE /\ index' = index /\ model' = model
           /\ \A d \in Clients : pc'[d] \in DoFetch <=> pc[d] \in DoFetch
  <2>1. Loading' = Loading
    BY <1>0, <1>m, <1>1, LoadingStep
  <2> QED BY <1>1, <2>1 DEF Listed
<1>2. ASSUME Lookup(c) \/ Mark(c) \/ Reread(c) \/ Enter(c) \/ DownloadOk(c) \/ RemoveFails(c)
      PROVE  /\ index' = index /\ model' = model
             /\ \A d \in Clients : pc'[d] \in DoFetch <=> pc[d] \in DoFetch
  BY <1>0, <1>2 DEF TypeOK, Lookup, Mark, Reread, Enter, DownloadOk, RemoveFails, Found
<1>3. ASSUME Land(c)
      PROVE  /\ index' = index /\ model' = model
             /\ \A d \in Clients : pc'[d] \in DoFetch <=> pc[d] \in DoFetch
  BY <1>0, <1>3 DEF TypeOK, Land, Followers
<1>4. ASSUME RemoveTree(c)
      PROVE  /\ index' = index /\ model' = model
             /\ \A d \in Clients : pc'[d] \in DoFetch <=> pc[d] \in DoFetch
  <2>1. pc[c] = "rm" /\ entries[M] # Root
    BY <1>m, <1>4, DeleterFacts, RootFacts DEF IndexInv, RemoveTree
  <2> QED BY <1>0, <1>m, <1>4, <2>1 DEF TypeOK, RemoveTree
<1>5. CASE Check(c) \/ Mkdir(c) \/ DownloadFails(c) \/ Measure(c)
  <2>1. index' = index /\ model' = model /\ \A d \in Clients \ {c} : pc'[d] = pc[d]
    BY <1>0, <1>m, <1>5 DEF TypeOK, Check, Mkdir, DownloadFails, Measure
  <2>2. pc[c] \in DoFetch \/ (pc[c] = "check" /\ (pc'[c] \in DoFetch => index[M] = None))
    BY <1>0, <1>m, <1>5 DEF TypeOK, Check, Mkdir, DownloadFails, Measure, Found
  <2>3. CASE pc[c] \in DoFetch /\ pc'[c] \notin DoFetch
    <3>1. M \in Loading /\ Loading' = Loading \ {M}
      BY <1>0, <1>m, <2>1, <2>3, LoadingStep
    <3>2. Cache!AbortLoad(M)
      BY <2>1, <3>1 DEF Cache!AbortLoad
    <3> QED BY <3>2
  <2>4. CASE pc[c] \notin DoFetch /\ pc'[c] \in DoFetch
    <3>1. M \notin Loading /\ Loading' = Loading \cup {M}
      BY <1>0, <1>m, <2>1, <2>4, LoadingStep
    <3>2. Cache!BeginLoad(M)
      BY <2>1, <2>2, <2>4, <3>1 DEF Cache!BeginLoad
    <3> QED BY <3>2
  <2>5. CASE pc[c] \in DoFetch <=> pc'[c] \in DoFetch
    BY <1>1, <2>1, <2>5
  <2> QED BY <2>3, <2>4, <2>5
<1>6. CASE Commit(c)
  <2>1. /\ model' = model /\ \A d \in Clients \ {c} : pc'[d] = pc[d]
        /\ pc[c] \in DoFetch /\ pc'[c] \notin DoFetch
    BY <1>0, <1>m, <1>6 DEF TypeOK, Commit
  <2>2. M \in Loading /\ Loading' = Loading \ {M}
    BY <1>0, <1>m, <2>1, LoadingStep
  <2>3. Place(c) \in Paths
    BY <1>0, <1>m, PlaceFacts
  <2>4. CASE index' = [entries EXCEPT ![M] = Place(c)]
    <3>1. Listed' = Listed \cup {M}
      BY <1>0, <1>m, <2>3, <2>4 DEF TypeOK, Listed
    <3>2. Cache!FinishLoad(M)
      BY <2>2, <3>1 DEF Cache!FinishLoad, Listed
    <3> QED BY <3>2
  <2>5. CASE index' = index
    <3>1. Cache!AbortLoad(M)
      BY <2>2, <2>5 DEF Cache!AbortLoad
    <3> QED BY <3>1
  <2>6. index' = [entries EXCEPT ![M] = Place(c)] \/ index' = index
    BY <1>6, <1>m, Zenon DEF Commit
  <2> QED BY <2>4, <2>5, <2>6
<1>7. CASE Unindex(c)
  <2>1. /\ model' = model /\ \A d \in Clients : pc'[d] \in DoFetch <=> pc[d] \in DoFetch
        /\ pc[c] \in DeleteSteps
    BY <1>0, <1>m, <1>7 DEF TypeOK, Unindex
  <2>2. Loading' = Loading
    BY <1>0, <1>m, <2>1, LoadingStep
  <2>3. CASE index' = [entries EXCEPT ![M] = None]
    <3>1. entries[M] \in Paths
      BY <1>m, <2>1, DeleterFacts DEF IndexInv
    <3>2. M \in Listed /\ Listed' = Listed \ {M}
      BY <1>0, <1>m, <2>3, <3>1 DEF TypeOK, Listed
    <3>3. Cache!Evict(M)
      BY <2>2, <3>2 DEF Cache!Evict, Listed
    <3> QED BY <3>3
  <2>4. CASE index' = index
    BY <1>1, <2>1, <2>4
  <2>5. index' = [entries EXCEPT ![M] = None] \/ index' = index
    BY <1>7, <1>m, Zenon DEF Unindex
  <2> QED BY <2>3, <2>4, <2>5
<1> QED BY <1>1, <1>2, <1>3, <1>4, <1>5, <1>6, <1>7 DEF Step

(* The store implements the abstract cache: one load of a model at a time and only
   while it is not listed, listed exactly when its fetch commits, kept across
   restarts, gone only by a Delete. *)
THEOREM Refinement ==
  ASSUME RootApart
  PROVE  Spec => ImplementsCache
<1>1. ASSUME Init
      PROVE  Cache!CacheInit
  <2>1. Listed = {} /\ Loading = {}
    BY <1>1 DEF Init, Listed, Loading
  <2> QED BY <2>1 DEF Cache!CacheInit, Listed
<1>2. ASSUME IndexInv, IndexInv', LoadingIsFetching, LoadingIsFetching', [Next]_vars
      PROVE  [Cache!CacheNext]_(Cache!cacheVars)
  <2> SUFFICES (Listed' = Listed /\ Loading' = Loading) \/ Cache!CacheNext
    BY DEF Cache!cacheVars, Listed
  <2>1. CASE UNCHANGED vars
    BY <2>1 DEF vars, Listed, Loading
  <2>2. CASE Crash
    <3>1. Loading' = {} /\ Listed' = Listed
      BY <2>2 DEF Crash, Loading, Listed
    <3> QED BY <3>1 DEF Cache!CacheNext, Cache!Restart, Listed
  <2>3. CASE NewStore
    BY <2>3 DEF NewStore, Loading, Listed
  <2>4. ASSUME NEW c \in Clients, Request(c)
        PROVE  Listed' = Listed /\ Loading' = Loading
    <3>1. /\ up /\ entries = index /\ pc[c] \notin DoFetch
          /\ index' = index /\ flight' = flight
          /\ \A d \in Clients : pc'[d] \in DoFetch <=> pc[d] \in DoFetch
      BY <1>2, <2>4 DEF IndexInv, CoreInv, TypeOK, MemoryMatchesDisk, Request, BeginFetch, BeginDelete,
         MarkUsed, Goto, Save, SaveFails, WriteLocked, DoFetch
    <3>2. \A m \in Models : flight[m] # None => flight[m] \in Clients
      BY <1>2 DEF IndexInv, CoreInv, TypeOK
    <3> QED BY <3>1, <3>2 DEF Listed, Loading
  <2>5. ASSUME NEW c \in Clients, Step(c)
        PROVE  (Listed' = Listed /\ Loading' = Loading) \/ Cache!CacheNext
    BY <1>2, <2>5, StepRefines DEF Cache!CacheNext
  <2>6. ASSUME NEW c \in Clients, Gradual(c)
        PROVE  Listed' = Listed /\ Loading' = Loading
    <3>1. UNCHANGED <<flight, pc>>
      BY <2>6 DEF Gradual, Overwrite, RemoveSome
    <3>2. index' = index
      <4>1. CASE Overwrite(c)
        BY <4>1 DEF Overwrite
      <4>2. CASE RemoveSome(c)
        <5>1. entries[model[c]] # Root
          BY <1>2, <4>2, DeleterFacts, RootFacts DEF IndexInv, RemoveSome, DeleteSteps
        <5> QED BY <4>2, <5>1 DEF RemoveSome
      <4> QED BY <2>6, <4>1, <4>2 DEF Gradual
    <3> QED BY <3>1, <3>2 DEF Listed, Loading
  <2> QED BY <1>2, <2>1, <2>2, <2>3, <2>4, <2>5, <2>6 DEF Next
<1> QED BY <1>1, <1>2, IndexInvariance, LoadingFacts, PTL DEF Spec, ImplementsCache, Cache!CacheSpec
=============================================================================
