------------------------------ MODULE ModelStore ------------------------------
(***************************************************************************)
(* The on-disk cache of staged models, internal/storage/store.go.          *)
(*                                                                         *)
(* Clients are the request goroutines that call Store.Fetch, Store.Delete  *)
(* and Store.MarkUsed on one Store.  They share the index map (entries,    *)
(* under the RWMutex), the singleflight group (flight) and the storage     *)
(* directory: the index file (index) and the artifact trees (fs).  A       *)
(* critical section that makes at most one durable change is one action;   *)
(* Delete makes several (RemoveAll, then the index) and holds lock across  *)
(* its steps.  The process may stop at any point and be started again.     *)
(*                                                                         *)
(* Abstractions: a model stands for a (source, model_id) pair, its key and *)
(* its entryID at once (the hash is taken as injective), so that the maps  *)
(* entries and byKey, always updated together, are one map from a model to *)
(* the path of its entry.  Sizes, file lists and timestamps are left out.  *)
(***************************************************************************)

CONSTANTS
  Clients,   \* goroutines serving requests
  Models,    \* (source, model_id) pairs; a model also names its default directory
  Dests,     \* the explicit "dest" paths a request may carry
  Outside,   \* those of them that do not lie under the storage root
  Root,      \* the storage root itself, as a path (a request may name it)
  Default,   \* the empty "dest" of a request
  None       \* no path, no client

ASSUME StoreAssumption ==
  /\ Outside \subseteq Dests \ (Models \cup {Root})
  /\ Root \notin Models
  /\ Default \notin Dests
  /\ None \notin Clients \cup Models \cup Dests \cup {Root}

VARIABLES
  up,        \* the process is running and NewStore has succeeded
  dir,       \* the storage root directory exists
  entries,   \* in-memory index: model -> path of its entry, or None
  index,     \* what index.json holds
  fs,        \* fs[p][m]: the state of model m's artifacts in directory p (see Levels)
  torn,      \* history: models whose entry outlived a Delete that began removing files
  lock,      \* the client holding s.mu for writing across several steps (Delete)
  flight,    \* singleflight group: the client leading the fetch of a model
  pc, model, dest, out   \* per client: position, request, and last reply

vars == <<up, dir, entries, index, fs, torn, lock, flight, pc, model, dest, out>>

Paths  == Models \cup Dests

(* A tree of artifacts is absent, being filled or given up by a fetch, whole, or mixed:
   files of it have been removed, or overwritten by another model's in the same place. *)
Levels == {"none", "part", "full", "mixed"}

DoFetch     == {"mkdir", "download", "measure", "commit"}
LeaderOnly  == DoFetch \cup {"check", "land"}
FetchSteps  == LeaderOnly \cup {"lookup", "mark", "reread", "enter", "wait"}
LeaderSteps == LeaderOnly \cup {"mark", "reread"}
DeleteSteps == {"rm", "unindex"}
Replies     == {"none", "ok", "empty", "missing", "failed"}

(* The directory a fetch stages into: req.Dest, or <root>/<id>. *)
Place(c) == IF dest[c] = Default THEN model[c] ELSE dest[c]

(* underRoot(s.dir, p): the root itself counts as being under the root. *)
UnderRootAlways(p) == TRUE                       \* mutated: Delete trusts any path
UnderRoot(p) == p \notin Outside

(* What os.RemoveAll(p) reaches, and the disk it leaves. *)
Below(p) == IF p = Root THEN {q \in Paths : UnderRoot(q)} ELSE {p}

Cut(p) ==
  [q \in Paths |-> [m \in Models |-> IF q \in Below(p) THEN "none" ELSE fs[q][m]]]

Staged(m)     == entries[m] # None
ReadLocked    == up /\ lock = None      \* s.mu.RLock can be granted
WriteLocked   == up /\ lock = None      \* s.mu.Lock can be granted
-----------------------------------------------------------------------------
Init ==
  /\ up = TRUE /\ dir = TRUE
  /\ entries = [m \in Models |-> None]
  /\ index = [m \in Models |-> None]
  /\ fs = [p \in Paths |-> [m \in Models |-> "none"]]
  /\ torn = {}
  /\ lock = None
  /\ flight = [m \in Models |-> None]
  /\ pc = [c \in Clients |-> "idle"]
  /\ model \in [Clients -> Models]
  /\ dest = [c \in Clients |-> Default]
  /\ out = [c \in Clients |-> "none"]

Goto(c, l) == pc' = [pc EXCEPT ![c] = l]

(* A call ends: the leader of a flight still has to land it, others return. *)
Reply(c, r) ==
  /\ out' = [out EXCEPT ![c] = r]
  /\ Goto(c, IF flight[model[c]] = c THEN "land" ELSE "idle")

(* saveIndexLocked: tempfile and rename, so the file changes as a whole or not at all. *)
Save(e)    == dir /\ index' = e
SaveFails  == UNCHANGED index
-----------------------------------------------------------------------------
(* Store.Fetch *)

BeginFetch(c, m, d) ==
  /\ up /\ pc[c] = "idle"
  /\ model' = [model EXCEPT ![c] = m]
  /\ dest' = [dest EXCEPT ![c] = d]
  /\ out' = [out EXCEPT ![c] = "none"]
  /\ Goto(c, "lookup")
  /\ UNCHANGED <<up, dir, entries, index, fs, torn, lock, flight>>

(* Where a look at the index sends a caller: to the entry it found, or on. *)
NeverFound(c, next) == next                      \* mutated: the entry found is ignored
Found(c, next) == IF Staged(model[c]) THEN "mark" ELSE next

(* Fast path: lookupByKey under the read lock. *)
Lookup(c) ==
  /\ pc[c] = "lookup" /\ ReadLocked
  /\ Goto(c, Found(c, "enter"))
  /\ UNCHANGED <<up, dir, entries, index, fs, torn, lock, flight, model, dest, out>>

(* markUsed on an entry found before the lock was dropped: it may be gone by now. *)
Mark(c) ==
  /\ pc[c] = "mark" /\ WriteLocked
  /\ \/ ~Staged(model[c]) /\ Reply(c, "missing") /\ UNCHANGED index
     \/ Staged(model[c]) /\ Save(entries) /\ Goto(c, "reread") /\ UNCHANGED out
     \/ Staged(model[c]) /\ SaveFails /\ Reply(c, "failed")
  /\ UNCHANGED <<up, dir, entries, fs, torn, lock, flight, model, dest>>

(* e := s.entries[id] without the ok check: a missing entry is the zero Entry. *)
Reread(c) ==
  /\ pc[c] = "reread" /\ ReadLocked
  /\ Reply(c, IF Staged(model[c]) THEN "ok" ELSE "empty")
  /\ UNCHANGED <<up, dir, entries, index, fs, torn, lock, flight, model, dest>>

(* inflight.Do: the first caller leads, later ones wait for its outcome. *)
EveryoneLeads(c) == TRUE                         \* mutated: no deduplication
Leads(c) == flight[model[c]] = None

Enter(c) ==
  /\ pc[c] = "enter" /\ up
  /\ \/ /\ Leads(c)
        /\ flight' = [flight EXCEPT ![model[c]] = c]
        /\ Goto(c, "check")
     \/ /\ ~Leads(c)
        /\ Goto(c, "wait")
        /\ UNCHANGED flight
  /\ UNCHANGED <<up, dir, entries, index, fs, torn, lock, model, dest, out>>

(* Double-check after taking the lead. *)
Check(c) ==
  /\ pc[c] = "check" /\ ReadLocked
  /\ Goto(c, Found(c, "mkdir"))
  /\ UNCHANGED <<up, dir, entries, index, fs, torn, lock, flight, model, dest, out>>

(* doFetch: MkdirAll(dest), after which the fetcher starts to fill it. *)
Mkdir(c) ==
  /\ pc[c] = "mkdir" /\ up
  /\ \/ /\ fs' = [fs EXCEPT ![Place(c)][model[c]] = "part"]
        /\ dir' = (dir \/ UnderRoot(Place(c)))
        /\ Goto(c, "download")
        /\ UNCHANGED out
     \/ Reply(c, "failed") /\ UNCHANGED <<fs, dir>>
  /\ UNCHANGED <<up, entries, index, torn, lock, flight, model, dest>>

(* The fetcher writes a file over one of the same name that another model has in the
   same directory: huggingface-cli --local-dir replaces it, copyFile truncates it. *)
Overwrite(c) ==
  /\ pc[c] = "download" /\ up
  /\ \E m \in Models \ {model[c]} :
       /\ fs[Place(c)][m] \in {"part", "full"}
       /\ fs' = [fs EXCEPT ![Place(c)][m] = "mixed"]
  /\ UNCHANGED <<up, dir, entries, index, torn, lock, flight, pc, model, dest, out>>

(* fetcher.Fetch succeeds; a tree that lost files meanwhile is not made whole again. *)
DownloadOk(c) ==
  /\ pc[c] = "download" /\ up
  /\ fs' = [fs EXCEPT ![Place(c)][model[c]] = IF @ = "part" THEN "full" ELSE "mixed"]
  /\ Goto(c, "measure")
  /\ UNCHANGED <<up, dir, entries, index, torn, lock, flight, model, dest, out>>

(* fetcher.Fetch fails (upstream error, the leader's context cancelled): only a
   directory of our own is cleaned up, and an error doing so is ignored. *)
DownloadErrorLost(c) ==                          \* mutated: a failed fetch is committed
  /\ pc[c] = "download" /\ up
  /\ Goto(c, "measure")
  /\ UNCHANGED <<up, dir, entries, index, fs, torn, lock, flight, model, dest, out>>
DownloadFails(c) ==
  /\ pc[c] = "download" /\ up
  /\ \/ dest[c] = Default /\ fs' = Cut(Place(c))
     \/ UNCHANGED fs
  /\ Reply(c, "failed")
  /\ UNCHANGED <<up, dir, entries, index, torn, lock, flight, model, dest>>

(* measureTree: an error returns without any clean-up. *)
Measure(c) ==
  /\ pc[c] = "measure" /\ up
  /\ \/ Goto(c, "commit") /\ UNCHANGED out
     \/ Reply(c, "failed")
  /\ UNCHANGED <<up, dir, entries, index, fs, torn, lock, flight, model, dest>>

(* The entry is inserted and saved; a failed save rolls the insertion back. *)
InsertionKept(c) == [entries EXCEPT ![model[c]] = Place(c)]   \* mutated: no roll-back
RolledBack(c) == [entries EXCEPT ![model[c]] = None]

Commit(c) ==
  LET added == [entries EXCEPT ![model[c]] = Place(c)] IN
  /\ pc[c] = "commit" /\ WriteLocked
  /\ \/ Save(added) /\ entries' = added /\ Reply(c, "ok")
     \/ SaveFails /\ entries' = RolledBack(c) /\ Reply(c, "failed")
  /\ UNCHANGED <<up, dir, fs, torn, lock, flight, model, dest>>

(* The flight ends: the key is forgotten and every waiting caller gets the outcome. *)
Followers(c) == {w \in Clients : pc[w] = "wait" /\ model[w] = model[c]}

Land(c) ==
  LET landed == {c} \cup Followers(c) IN
  /\ pc[c] = "land" /\ up
  /\ flight' = [flight EXCEPT ![model[c]] = None]
  /\ pc' = [w \in Clients |-> IF w \in landed THEN "idle" ELSE pc[w]]
  /\ out' = [w \in Clients |-> IF w \in landed THEN out[c] ELSE out[w]]
  /\ UNCHANGED <<up, dir, entries, index, fs, torn, lock, model, dest>>
-----------------------------------------------------------------------------
(* Store.Delete and Store.MarkUsed *)

BeginDelete(c, m) ==
  /\ pc[c] = "idle" /\ WriteLocked
  /\ model' = [model EXCEPT ![c] = m]
  /\ dest' = [dest EXCEPT ![c] = Default]
  /\ \/ ~Staged(m) /\ out' = [out EXCEPT ![c] = "missing"] /\ UNCHANGED <<lock, pc>>
     \/ Staged(m) /\ lock' = c /\ Goto(c, "rm") /\ out' = [out EXCEPT ![c] = "none"]
  /\ UNCHANGED <<up, dir, entries, index, fs, torn, flight>>

(* os.RemoveAll under way: files of a tree are gone, or with the root index.json. *)
RemoveSome(c) ==
  LET p == entries[model[c]] IN
  /\ pc[c] = "rm" /\ up /\ UnderRoot(p)
  /\ \/ /\ \E q \in Below(p), m \in Models :
             fs[q][m] \in {"part", "full"} /\ fs' = [fs EXCEPT ![q][m] = "mixed"]
        /\ UNCHANGED index
     \/ p = Root /\ index' = [m \in Models |-> None] /\ UNCHANGED fs
  /\ torn' = torn \cup {model[c]}
  /\ UNCHANGED <<up, dir, entries, lock, flight, pc, model, dest, out>>

(* Removal done, or skipped for a path outside the root.  Removing the root
   itself takes index.json and the directory with it. *)
RemoveTree(c) ==
  LET p == entries[model[c]] IN
  /\ pc[c] = "rm" /\ up
  /\ \/ /\ UnderRoot(p)
        /\ fs' = Cut(p)
        /\ torn' = torn \cup {model[c]}
        /\ IF p = Root THEN dir' = FALSE /\ index' = [m \in Models |-> None]
                       ELSE UNCHANGED <<dir, index>>
     \/ ~UnderRoot(p) /\ UNCHANGED <<fs, torn, dir, index>>
  /\ Goto(c, "unindex")
  /\ UNCHANGED <<up, entries, lock, flight, model, dest, out>>

(* RemoveAll returns an error: the entry is kept, whatever is left of its files. *)
RemoveFailsLocked(c) ==                          \* mutated: returns with the lock held
  /\ pc[c] = "rm" /\ up /\ UnderRoot(entries[model[c]])
  /\ Reply(c, "failed")
  /\ UNCHANGED <<up, dir, entries, index, fs, torn, lock, flight, model, dest>>
RemoveFails(c) ==
  /\ pc[c] = "rm" /\ up /\ UnderRoot(entries[model[c]])
  /\ lock' = None /\ Reply(c, "failed")
  /\ UNCHANGED <<up, dir, entries, index, fs, torn, flight, model, dest>>

(* The entry is dropped and the index saved; it is re-inserted if the save fails. *)
UnindexForgets(c) ==                             \* mutated: not re-inserted
  /\ pc[c] = "unindex" /\ up
  /\ entries' = [entries EXCEPT ![model[c]] = None]
  /\ Save(entries') \/ SaveFails
  /\ lock' = None /\ Reply(c, "ok")
  /\ UNCHANGED <<up, dir, fs, torn, flight, model, dest>>
Unindex(c) ==
  LET dropped == [entries EXCEPT ![model[c]] = None] IN
  /\ pc[c] = "unindex" /\ up
  /\ \/ Save(dropped) /\ entries' = dropped /\ torn' = torn \ {model[c]} /\ Reply(c, "ok")
     \/ SaveFails /\ Reply(c, "failed") /\ UNCHANGED <<entries, torn>>
  /\ lock' = None
  /\ UNCHANGED <<up, dir, fs, flight, model, dest>>

MarkUsed(c, m) ==
  /\ pc[c] = "idle" /\ WriteLocked
  /\ model' = [model EXCEPT ![c] = m]
  /\ dest' = [dest EXCEPT ![c] = Default]
  /\ \/ ~Staged(m) /\ out' = [out EXCEPT ![c] = "missing"] /\ UNCHANGED index
     \/ Staged(m) /\ Save(entries) /\ out' = [out EXCEPT ![c] = "ok"]
     \/ Staged(m) /\ SaveFails /\ out' = [out EXCEPT ![c] = "failed"]
  /\ UNCHANGED <<up, dir, entries, fs, torn, lock, flight, pc>>
-----------------------------------------------------------------------------
(* The process stops at any point; what it kept in memory is lost. *)
Crash ==
  /\ up /\ up' = FALSE
  /\ entries' = [m \in Models |-> None]
  /\ lock' = None
  /\ flight' = [m \in Models |-> None]
  /\ pc' = [c \in Clients |-> "idle"]
  /\ out' = [c \in Clients |-> "none"]
  /\ UNCHANGED <<dir, index, fs, torn, model, dest>>

(* NewStore: MkdirAll(dir) and loadIndex. *)
NewStore ==
  /\ ~up /\ up' = TRUE
  /\ dir' = TRUE
  /\ entries' = index
  /\ UNCHANGED <<index, fs, torn, lock, flight, pc, model, dest, out>>

(* What a goroutine does by itself once a request has been accepted. *)
Step(c) ==
  \/ Lookup(c) \/ Mark(c) \/ Reread(c) \/ Enter(c) \/ Check(c)
  \/ Mkdir(c) \/ DownloadOk(c) \/ DownloadFails(c) \/ Measure(c) \/ Commit(c) \/ Land(c)
  \/ RemoveTree(c) \/ RemoveFails(c) \/ Unindex(c)

(* Effects of a fetch or a removal that is not over yet. *)
Gradual(c) == Overwrite(c) \/ RemoveSome(c)

Request(c) ==
  \E m \in Models :
    \/ \E d \in Dests \cup {Default} : BeginFetch(c, m, d)
    \/ BeginDelete(c, m)
    \/ MarkUsed(c, m)

Next == Crash \/ NewStore \/ \E c \in Clients : Step(c) \/ Gradual(c) \/ Request(c)

Spec == Init /\ [][Next]_vars

(* The scheduler runs every goroutine, sync.RWMutex starves no waiter, and the
   fetchers return. *)
Fairness == \A c \in Clients : SF_vars(Step(c))

FairSpec == Spec /\ Fairness
-----------------------------------------------------------------------------
(* Properties *)

(* Every variable has its type; in particular an entry always has a path. *)
TypeOK ==
  /\ up \in BOOLEAN /\ dir \in BOOLEAN
  /\ entries \in [Models -> Paths \cup {None}]
  /\ index \in [Models -> Paths \cup {None}]
  /\ fs \in [Paths -> [Models -> Levels]]
  /\ torn \subseteq Models
  /\ lock \in Clients \cup {None}
  /\ flight \in [Models -> Clients \cup {None}]
  /\ pc \in [Clients -> FetchSteps \cup DeleteSteps \cup {"idle"}]
  /\ model \in [Clients -> Models]
  /\ dest \in [Clients -> Dests \cup {Default}]
  /\ out \in [Clients -> Replies]

(* Whatever saves failed and in whatever order calls ran, a running store answers
   from an index equal to the one a restart would load (store.go:299, 355). *)
MemoryMatchesDisk == up => entries = index

(* doFetch's own precondition (store.go:249): from the moment a leader has checked
   until it commits, nobody stages its model behind its back, so that a model is
   never fetched over an entry in use. *)
NoEntryDuringFetch ==
  \A c \in Clients : pc[c] \in DoFetch => ~Staged(model[c])

(* At most one download of a model is under way, for any number of callers. *)
OneDownload ==
  \A c, d \in Clients :
    pc[c] \in DoFetch /\ pc[d] \in DoFetch /\ model[c] = model[d] => c = d

(* Another model's files lie in the same explicit destination and have spoilt m's. *)
Overlaid(p, m) ==
  /\ p \in Dests /\ fs[p][m] = "mixed"
  /\ \E n \in Models \ {m} : fs[p][n] # "none"

(* What the index lists is completely on disk, through failed fetches, failed saves
   and crashes, except for a model a Delete has started to remove, and for one whose
   explicit destination another model was fetched into (fetchers.go:32, 125): in its
   default directory a model is whole. *)
IndexedFilesPresent ==
  \A m \in Models : index[m] # None /\ m \notin torn =>
    fs[index[m]][m] = "full" \/ Overlaid(index[m], m)

(* The files of a listed model are taken only by a Delete of that very model, or by a
   fetch of another model into the same explicit destination while it is writing: no
   other fetch, no clean-up, no other Delete and no restart touches them. *)
FilesGoByDeleteOrSharer ==
  [][\A m \in Models :
       index[m] # None /\ fs[index[m]][m] = "full" /\ fs'[index[m]][m] # "full"
         => \/ lock # None /\ model[lock] = m /\ pc[lock] = "rm"
            \/ index[m] \in Dests /\ \E c \in Clients :
                 pc[c] = "download" /\ model[c] # m /\ Place(c) = index[m]]_vars

(* Files in an explicit destination outside the storage root are never taken
   away: not by Delete (store.go:345), not by the clean-up of a failed fetch. *)
OutsideIsLeftAlone ==
  [][\A p \in Outside, m \in Models :
       fs[p][m] # "none" => fs'[p][m] # "none"]_vars

(* A listed model stays where it is: only after it has been deleted can another
   fetch, with another destination, stage it somewhere else. *)
PathIsStable ==
  [][\A m \in Models : index[m] # None /\ index'[m] # None => index'[m] = index[m]]_vars

(* A Fetch that succeeds answers with the entry of the model (store.go:194-195,
   "return the existing entry"), never with the zero Entry of a missing key. *)
NoEmptySuccess == \A c \in Clients : out[c] # "empty"

(* A Fetch that succeeds answers with a model that is on disk
   (handlers/models.go:35, "stages a model on disk and returns the resulting entry"). *)
FetchedIsOnDisk ==
  [][\A c \in Clients :
       pc[c] \in {"reread", "commit"} /\ out'[c] = "ok"
         => fs[entries'[model[c]]][model[c]] = "full"]_vars

(* A restart brings nothing back: what the index file lists, a running store lists
   under the same path, even when a Delete has taken the storage root with it and
   later saves fail or write into a new root (store.go:299, 353-357, 376). *)
NothingComesBack ==
  up => \A m \in Models : index[m] # None => entries[m] = index[m]

(* Every call returns: no caller waits for a flight nobody leads or for a lock
   nobody will release (Fetch blocks "until the first completes", store.go:196). *)
EveryCallReturns == \A c \in Clients : pc[c] # "idle" ~> pc[c] = "idle"
-----------------------------------------------------------------------------
(* The inductive invariant, in three layers. *)

(* The root directory is there; a stopped store has nothing under way. *)
DirStays     == dir
StoppedIdle  == ~up => lock = None /\ \A c \in Clients : pc[c] = "idle"

(* A flight belongs to a caller that is fetching that model, and conversely. *)
FlightIsLed  == \A m \in Models : flight[m] # None =>
                  model[flight[m]] = m /\ pc[flight[m]] \in LeaderSteps
LeaderFlies  == \A c \in Clients : pc[c] \in LeaderOnly => flight[model[c]] = c

(* The write lock is held exactly by a Delete under way, of a listed model. *)
LockIsHeld   == \A c \in Clients :
                  /\ lock = c <=> pc[c] \in DeleteSteps
                  /\ lock = c => Staged(model[c])

(* A model lies in its own directory or in an explicit destination. *)
PathIsOwn    == \A m \in Models : index[m] \in {None, m} \cup Dests

(* A default directory holds its own model only. *)
DefaultIsOwn == \A p, m \in Models : p # m => fs[p][m] = "none"

(* Nobody disturbs the directory a leader is filling, unless another model comes into
   the same explicit destination. *)
TreeIsMine   == \A c \in Clients :
                  \/ pc[c] \notin {"download", "measure", "commit"}
                  \/ fs[Place(c)][model[c]] = IF pc[c] = "download" THEN "part" ELSE "full"
                  \/ Overlaid(Place(c), model[c])

(* What every step preserves whatever destinations requests carry: who leads a
   flight, who holds the lock, and what a restart would load. *)
CoreInv ==
  /\ TypeOK /\ StoppedIdle /\ FlightIsLed /\ LeaderFlies /\ LockIsHeld
  /\ NoEntryDuringFetch /\ NothingComesBack

(* What holds besides when no request names the storage root itself. *)
IndexInv == CoreInv /\ DirStays /\ MemoryMatchesDisk

(* What holds besides when explicit destinations lie outside the root: whose
   directory is being filled, and that the files of listed models are there. *)
IInv == IndexInv /\ PathIsOwn /\ DefaultIsOwn /\ TreeIsMine /\ IndexedFilesPresent
-----------------------------------------------------------------------------
(* What the store promises: staged is what index.json lists, a load is a leader
   between its double-check and its commit. *)
Loading == {m \in Models : flight[m] # None /\ pc[flight[m]] \in DoFetch}

Cache == INSTANCE ModelCache WITH
           staged  <- {m \in Models : index[m] # None},
           loading <- Loading

(* The store behaves as the abstract cache: a model is loaded once at a time and
   never while listed, is listed exactly when its fetch commits, survives restarts
   and goes only by a Delete (README: "Fetch is idempotent", "deduplicated"). *)
ImplementsCache == Cache!CacheSpec
=============================================================================
