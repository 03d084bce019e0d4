------------------------------ MODULE Watcher ------------------------------
(***************************************************************************)
(* The daemon's watcher and its announcements.  One goroutine runs the     *)
(* select loop of watch.Run: it handles file-system events, flushes the    *)
(* repositories that have been quiet long enough, and on the rescan ticker *)
(* visits every repository and announces every mapping again.  The kernel  *)
(* reports only what happens in a directory that is watched, to a queue    *)
(* that may overflow; the watcher learns of a directory by an event or a   *)
(* listing and asks for it to be watched.  A second goroutine announces    *)
(* everything once when the node is found to be publicly reachable.        *)
(*                                                                         *)
(* A visit (tryIngest) is one step here; SharedCache has its inside, and   *)
(* takes from here that every repository is visited again and again.       *)
(***************************************************************************)
EXTENDS Naturals, Sequences

CONSTANTS
    Repos,        \* repository directories of the hub cache
    Files,        \* the files of a revision
    MaxVersions,  \* bound on the revisions of a repository
    MaxQueue,     \* events the kernel keeps
    Rescans,      \* RescanInterval > 0
    MaxFaults     \* bound on removed repositories, failed watches, listings
                  \* and announcements, expired records and lost peers,
                  \* together

ASSUME WatcherAssumption ==
    /\ "hub" \notin Repos  \* the name of the directory above them
    /\ MaxVersions \in Nat /\ MaxFaults \in Nat
    /\ MaxQueue \in Nat \ {0} /\ Rescans \in BOOLEAN

(* The directories addRepoWatches attaches to: the repository's own, and   *)
(* its refs/ and snapshots/, in this order.                                *)
Subs     == <<"own", "refs", "snapshots">>
SubSet   == {"own", "refs", "snapshots"}
Versions == 1 .. MaxVersions

VARIABLES
    dirs,      \* directories that exist: repository and sub-directory
    version,   \* the last revision of each repository that was begun
    head,      \* refs/main of each repository, 0 when there is none
    snap,      \* snapshots/<commit>: the files linked so far
    queue,     \* events the watcher has not taken: <<repository, kind>>
    watched,   \* directories the kernel watches
    known,     \* directories the watcher believes to be watched
    pending,   \* repositories with events: "no", "fresh" or "due"
    pc,        \* where the watcher is
    todo,      \* repositories its current loop has left
    repo,      \* the repository whose directories it is attaching to
    sub,       \* and the place in Subs it has come to
    entry,     \* the mapping bucket: the manifest of each revision
    record,    \* provider records in the DHT
    joined,    \* the routing table holds a peer
    public,    \* the first public verdict has come
    faults,
    remade,    \* repositories removed after they were watched (history)
    missed,    \* directories that could not be attached to (history)
    dropped    \* an event was lost (history)

hubVars   == <<dirs, version, head, snap>>
eventVars == <<queue, watched, dropped, remade, missed>>
loopVars  == <<pc, todo, repo, sub, known, pending>>
dhtVars   == <<record, joined, public, faults>>
vars      == <<hubVars, eventVars, loopVars, dhtVars, entry>>

Dir(r, s) == <<r, s>>
Hub       == <<"hub", "own">>
Present   == {r \in Repos : Dir(r, "own") \in dirs}

(* SnapshotComplete: the directory has an entry, and every entry resolves. *)
SnapshotComplete(r, v) == snap[r][v] # {}

Entries == {e \in Repos \X Versions : entry[e[1]][e[2]] # {}}

Blank == [r \in Repos |-> [v \in Versions |-> {}]]

Fault == faults < MaxFaults /\ faults' = faults + 1

(* A daemon that comes up, over a hub cache and a store of any past.       *)
Init ==
    /\ dirs \in {{}, {Dir(r, s) : r \in Repos, s \in SubSet}}
    /\ version = [r \in Repos |-> IF dirs = {} THEN 0 ELSE 1]
    /\ head = version
    /\ snap \in {Blank, [r \in Repos |-> [v \in Versions |->
                            IF v = version[r] THEN Files ELSE {}]]}
    /\ entry \in {Blank, [r \in Repos |-> [v \in Versions |->
                             IF v = 1 THEN Files ELSE {}]]}
    /\ queue = <<>> /\ watched = {} /\ known = {}
    /\ pending = [r \in Repos |-> "no"]
    /\ pc = "boot" /\ todo = {} /\ repo \in Repos /\ sub = 1
    /\ record = {} /\ joined = FALSE
    /\ public = FALSE /\ faults = 0 /\ remade = {} /\ missed = {} /\ dropped = FALSE

-----------------------------------------------------------------------------
(* The hub cache, changed by the hf CLI and the user                       *)

(* The kernel queues an event when the directory it happens in is watched; *)
(* a full queue drops it (fsnotify reports an overflow, which is logged).  *)
Emit(e, seen) ==
    /\ queue' = IF seen /\ Len(queue) < MaxQueue THEN Append(queue, e) ELSE queue
    /\ dropped' = (dropped \/ (seen /\ Len(queue) >= MaxQueue))

MakeRepo(r) ==
    /\ Dir(r, "own") \notin dirs /\ version[r] < MaxVersions
    /\ dirs' = dirs \cup {Dir(r, "own")}
    /\ Emit(<<r, "made">>, Hub \in watched)
    /\ UNCHANGED <<version, head, snap, watched, remade, missed, loopVars, dhtVars,
                   entry>>

MakeSub(r, s) ==
    /\ Dir(r, "own") \in dirs /\ s # "own" /\ Dir(r, s) \notin dirs
    /\ dirs' = dirs \cup {Dir(r, s)}
    /\ Emit(<<r, "inside">>, Dir(r, "own") \in watched)
    /\ UNCHANGED <<version, head, snap, watched, remade, missed, loopVars, dhtVars,
                   entry>>

(* A download begins: refs/main names its commit.                          *)
MoveRef(r) ==
    /\ Dir(r, "refs") \in dirs /\ version[r] < MaxVersions
    /\ version' = [version EXCEPT ![r] = @ + 1]
    /\ head' = [head EXCEPT ![r] = version[r] + 1]
    /\ Emit(<<r, "inside">>, Dir(r, "refs") \in watched)
    /\ UNCHANGED <<dirs, snap, watched, remade, missed, loopVars, dhtVars, entry>>

(* A file is complete and its link is made.  The first link makes the      *)
(* commit's directory in snapshots/, which is seen; the links inside that  *)
(* directory are not, for nobody watches it.                               *)
AddLink(r, f) ==
    /\ Dir(r, "snapshots") \in dirs /\ head[r] # 0 /\ f \notin snap[r][head[r]]
    /\ snap' = [snap EXCEPT ![r][head[r]] = @ \cup {f}]
    /\ Emit(<<r, "inside">>, Dir(r, "snapshots") \in watched /\ snap[r][head[r]] = {})
    /\ UNCHANGED <<dirs, version, head, watched, remade, missed, loopVars,
                   dhtVars, entry>>

(* rm -rf.  The kernel drops its watches together with the directories;    *)
(* what it reports of refs/ and snapshots/ counts as inside, what it       *)
(* reports of the repository's own directory is not an event to handle.    *)
RemoveRepo(r) ==
    /\ Dir(r, "own") \in dirs /\ Fault
    /\ dirs' = dirs \ {Dir(r, s) : s \in SubSet}
    /\ head' = [head EXCEPT ![r] = 0]
    /\ snap' = [snap EXCEPT ![r] = [v \in Versions |-> {}]]
    /\ Emit(<<r, "inside">>, \E s \in SubSet \ {"own"} :
                Dir(r, s) \in dirs /\ {Dir(r, "own"), Dir(r, s)} \cap watched # {})
    /\ watched' = watched \ {Dir(r, s) : s \in SubSet}
    /\ missed' = missed \ {Dir(r, s) : s \in SubSet}
    /\ remade' = IF \E s \in SubSet : Dir(r, s) \in known
                   THEN remade \cup {r} ELSE remade
    /\ UNCHANGED <<version, record, joined, public, loopVars, entry>>

User == \E r \in Repos : \/ MakeRepo(r) \/ MoveRef(r) \/ RemoveRepo(r)
                         \/ \E s \in SubSet : MakeSub(r, s)
                         \/ \E f \in Files : AddLink(r, f)

-----------------------------------------------------------------------------
(* Announcements                                                           *)

(* ProvideCommit: a failure is logged and left to the next rescan.         *)
Provide(e) == \/ joined /\ record' = record \cup {e} /\ UNCHANGED faults
              \/ joined /\ UNCHANGED record /\ Fault
              \/ ~joined /\ UNCHANGED <<record, faults>>

(* ReprovideAll: nothing while the routing table is empty; else every      *)
(* entry, and one that fails does not keep the others from being tried.    *)
ReprovideAll == \/ joined /\ record' = record \cup Entries /\ UNCHANGED faults
                \/ /\ joined /\ Fault
                   /\ \E e \in Entries : record' = record \cup (Entries \ {e})
                \/ ~joined /\ UNCHANGED <<record, faults>>

(* trackReachability: the first public verdict.                            *)
BecomePublic ==
    /\ ~public /\ public' = TRUE /\ ReprovideAll
    /\ UNCHANGED <<joined, hubVars, eventVars, loopVars, entry>>

(* A peer enters an empty routing table; the last one leaves it.           *)
Join  == /\ ~joined /\ joined' = TRUE
         /\ UNCHANGED <<record, public, faults, hubVars, eventVars, loopVars,
                        entry>>
Leave == /\ joined /\ joined' = FALSE /\ Fault
         /\ UNCHANGED <<record, public, hubVars, eventVars, loopVars, entry>>

(* A provider record expires at the peers that hold it.                    *)
Expire == /\ \E e \in record : record' = record \ {e}
          /\ Fault
          /\ UNCHANGED <<joined, public, hubVars, eventVars, loopVars, entry>>

-----------------------------------------------------------------------------
(* The watcher                                                             *)

Go(l) == pc' = l

(* cmdDaemon announces what is stored, then starts the watcher.            *)
Boot == /\ pc = "boot" /\ ReprovideAll /\ Go("off")
        /\ UNCHANGED <<todo, repo, sub, known, pending, joined, public, hubVars, eventVars,
                       entry>>

(* The hub directory is watched before it is listed.  (A watcher that      *)
(* cannot watch it ends, and the daemon with it.)                          *)
WatchHub == /\ pc = "off" /\ watched' = watched \cup {Hub} /\ Go("list")
            /\ UNCHANGED <<todo, repo, sub, known, pending, queue, dropped, remade, missed,
                           dhtVars, hubVars, entry>>

(* trackExistingRepos: when the listing fails, it just returns.            *)
ListHub ==
    /\ pc = "list" /\ Go("track")
    /\ \/ todo' = Present /\ UNCHANGED <<missed, faults>>
       \/ /\ Fault /\ todo' = {}
          /\ missed' = missed \cup {Dir(r, "own") : r \in Present}
    /\ UNCHANGED <<repo, sub, known, pending, record, joined, public, hubVars,
                   queue, watched, dropped, remade, entry>>

TrackNext == /\ pc = "track" /\ \E r \in todo : repo' = r /\ todo' = todo \ {r}
             /\ sub' = 1 /\ Go("attach")
             /\ UNCHANGED <<known, pending, dhtVars, hubVars, eventVars, entry>>

(* addRepoWatches, one directory: a known one is passed over.  When fw.Add *)
(* fails (the limit on watches is reached) the directory stays unknown,    *)
(* and is tried again only at the next event of its repository.            *)
Attach(d) ==
    \/ /\ d \notin known /\ d \in dirs
       /\ watched' = watched \cup {d} /\ known' = known \cup {d}
       /\ missed' = missed \ {d} /\ UNCHANGED faults
    \/ /\ d \notin known /\ d \in dirs
       /\ Fault /\ missed' = missed \cup {d} /\ UNCHANGED <<watched, known>>
    \/ /\ d \in known \/ d \notin dirs
       /\ UNCHANGED <<watched, known, missed, faults>>

AttachNext(from, to) ==
    /\ pc = from
    /\ Attach(Dir(repo, Subs[sub]))
    /\ IF sub < Len(Subs) THEN sub' = sub + 1 /\ Go(from) ELSE sub' = 1 /\ Go(to)
    /\ UNCHANGED <<todo, repo, pending, queue, dropped, remade, record, joined,
                   public, hubVars, entry>>

(* Scan: every repository there is, then the orphans; nothing at all when  *)
(* ListRepos fails.                                                        *)
BeginScan(to, over) ==
    /\ \/ todo' = Present /\ Go(to) /\ UNCHANGED faults
       \/ Fault /\ Go(over) /\ UNCHANGED todo
    /\ UNCHANGED <<repo, sub, known, pending, record, joined, public, hubVars,
                   eventVars, entry>>

(* evict.Commit and pruneOrphans, as far as the mapping is concerned.      *)
Pruned(R) == [r \in Repos |-> [v \in Versions |->
                 IF r \in R /\ ~SnapshotComplete(r, v) THEN {} ELSE entry[r][v]]]

(* tryIngest: no ref, prune; mapped, prune if its bytes are gone; else     *)
(* ingest what the snapshot holds, when it is complete, and announce it.   *)
TryIngest(r) ==
    LET v == head[r] IN
    CASE v = 0 -> entry' = Pruned({r}) /\ UNCHANGED <<record, faults>>
      [] v # 0 /\ entry[r][v] # {} ->
            /\ entry' = IF SnapshotComplete(r, v) THEN entry
                                                  ELSE [entry EXCEPT ![r][v] = {}]
            /\ UNCHANGED <<record, faults>>
      [] v # 0 /\ entry[r][v] = {} /\ ~SnapshotComplete(r, v) ->
            UNCHANGED <<entry, record, faults>>
      [] OTHER ->
            /\ entry' = [entry EXCEPT ![r][v] = snap[r][v]]
            /\ Provide(<<r, v>>)

Visit(r, from) ==
    /\ pc = from /\ r \in todo /\ todo' = todo \ {r}
    /\ TryIngest(r)
    /\ UNCHANGED <<pc, repo, sub, known, pending, joined, public, hubVars,
                   eventVars>>

EndScan(from, to) ==
           /\ pc = from /\ todo = {}
           /\ entry' = Pruned(Repos) /\ Go(to)
           /\ UNCHANGED <<todo, repo, sub, known, pending, dhtVars, hubVars, eventVars>>

(* A mutant: the rescan leaves it to the first public verdict.             *)
ReprovideOnce ==
    /\ pc = "reprovide" /\ Go("idle")
    /\ IF public THEN UNCHANGED <<record, faults>> ELSE ReprovideAll
    /\ UNCHANGED <<todo, repo, sub, known, pending, joined, public, hubVars,
                   eventVars, entry>>

Reprovide == /\ pc = "reprovide" /\ ReprovideAll /\ Go("idle")
             /\ UNCHANGED <<todo, repo, sub, known, pending, joined, public, hubVars,
                            eventVars, entry>>

(* Mutants of handle: watches attached only when the repository appears;   *)
(* and events ignored when the repository is no longer there.              *)
TakeEventSingleAdd ==
    /\ pc = "idle" /\ queue # <<>>
    /\ queue' = Tail(queue) /\ repo' = Head(queue)[1] /\ sub' = 1
    /\ LET r == Head(queue)[1] IN
       IF Head(queue)[2] = "inside"
         THEN pending' = [pending EXCEPT ![r] = "fresh"] /\ Go("idle")
         ELSE pending' = pending /\ Go(IF r \in Present THEN "handle" ELSE "idle")
    /\ UNCHANGED <<todo, known, watched, dropped, remade, missed, dhtVars, hubVars,
                   entry>>

TakeEventIfThere ==
    /\ pc = "idle" /\ queue # <<>>
    /\ queue' = Tail(queue) /\ repo' = Head(queue)[1] /\ sub' = 1
    /\ LET r == Head(queue)[1] IN
       IF Head(queue)[2] = "inside" /\ r \in Present
         THEN pending' = [pending EXCEPT ![r] = "fresh"] /\ Go("handle")
         ELSE pending' = pending /\ Go(IF r \in Present THEN "handle" ELSE "idle")
    /\ UNCHANGED <<todo, known, watched, dropped, remade, missed, dhtVars, hubVars,
                   entry>>

(* handle.  An event for the repository's own directory only attaches, if  *)
(* the directory is still there; one inside it also makes it pending.      *)
TakeEvent ==
    /\ pc = "idle" /\ queue # <<>>
    /\ queue' = Tail(queue) /\ repo' = Head(queue)[1] /\ sub' = 1
    /\ LET r == Head(queue)[1] IN
       IF Head(queue)[2] = "inside"
         THEN pending' = [pending EXCEPT ![r] = "fresh"] /\ Go("handle")
         ELSE pending' = pending /\ Go(IF r \in Present THEN "handle" ELSE "idle")
    /\ UNCHANGED <<todo, known, watched, dropped, remade, missed, dhtVars, hubVars,
                   entry>>

(* DebounceWindow has passed since the last event of r.                    *)
GrowDue(r) == /\ pending[r] = "fresh" /\ pending' = [pending EXCEPT ![r] = "due"]
              /\ UNCHANGED <<pc, todo, repo, sub, known, dhtVars, hubVars, eventVars, entry>>

Flush == /\ pc = "idle" /\ \E r \in Repos : pending[r] = "due"
         /\ todo' = {r \in Repos : pending[r] = "due"}
         /\ pending' = [r \in Repos |-> IF pending[r] = "due" THEN "no" ELSE pending[r]]
         /\ Go("flush")
         /\ UNCHANGED <<repo, sub, known, dhtVars, hubVars, eventVars, entry>>

EndFlush == /\ pc = "flush" /\ todo = {} /\ Go("idle")
            /\ UNCHANGED <<todo, repo, sub, known, pending, dhtVars, hubVars, eventVars,
                           entry>>

(* A mutant: the ticker only announces.                                    *)
RescanOnlyAnnounces ==
    /\ pc = "idle" /\ Rescans /\ Go("reprovide")
    /\ UNCHANGED <<todo, repo, sub, known, pending, dhtVars, hubVars, eventVars, entry>>

FirstScan == pc = "track" /\ todo = {} /\ BeginScan("firstscan", "idle")

Rescan == pc = "idle" /\ Rescans /\ BeginScan("scan", "reprovide")

(* The select loop takes one of its ready cases; the rest is a sequence.   *)
Select == TakeEvent \/ Flush \/ Rescan

Work == \/ Boot \/ WatchHub \/ ListHub \/ TrackNext
        \/ AttachNext("attach", "track") \/ AttachNext("handle", "idle")
        \/ FirstScan \/ EndScan("firstscan", "idle") \/ EndScan("scan", "reprovide")
        \/ \E r \in Repos, l \in {"firstscan", "scan", "flush"} : Visit(r, l)
        \/ Reprovide \/ EndFlush

Next == \/ User \/ Work \/ Select
        \/ \E r \in Repos : GrowDue(r)
        \/ BecomePublic
        \/ Join \/ Leave \/ Expire

(* The goroutines run and time passes; a select that is reached again and  *)
(* again takes each case that is ready again and again (Go chooses among   *)
(* the ready cases at random); a node without peers finds one.             *)
Fairness == /\ WF_vars(Work) /\ WF_vars(Join)
            /\ SF_vars(TakeEvent) /\ SF_vars(Flush) /\ SF_vars(Rescan)
            /\ \A r \in Repos : WF_vars(GrowDue(r))

Spec == Init /\ [][Next]_vars /\ Fairness

-----------------------------------------------------------------------------
(* watch.go: "a single add at creation time would leave the subdirs        *)
(* unwatched forever (and deletions inside them invisible)".  While the    *)
(* watcher runs, a directory of a repository is watched, or an event of    *)
(* the repository is on its way, or the watcher is on its way there:       *)
(* whatever the order in which the directories are made.  Excepted are a   *)
(* repository that was removed while it was watched, an overflow, and a    *)
(* directory for which fw.Add failed (or the first listing) and has not    *)
(* been repeated since, with what is made below it; the repository's other *)
(* directories, and every directory attached to later, are not.            *)
NoBlindSpot ==
    pc \in {"firstscan", "idle", "handle", "flush", "scan", "reprovide"} /\ ~dropped =>
        \A r \in Repos \ remade, i \in 1 .. Len(Subs) :
            Dir(r, Subs[i]) \in dirs =>
                \/ Dir(r, Subs[i]) \in watched
                \/ \E j \in 1 .. Len(queue) : queue[j][1] = r
                \/ pc = "handle" /\ repo = r /\ sub <= i
                \/ {Dir(r, "own"), Dir(r, Subs[i])} \cap missed # {}

(* Every event inside a repository leads to a visit of the repository,     *)
(* also one that comes while it is pending or while a scan is under way,   *)
(* and without the help of the rescan.                                     *)
EventLeadsToVisit ==
    \A r \in Repos : (\E j \in 1 .. Len(queue) : queue[j] = <<r, "inside">>)
                        ~> (pc = "flush" /\ r \in todo)

(* README.md: "a periodic --rescan is the correctness path if fsnotify     *)
(* misses anything".  With it, whatever was lost to removed watches and    *)
(* full queues, the mapping and the hub cache come to agree on which       *)
(* revisions there are.  (Not on their files: tryIngest passes over a      *)
(* revision that is mapped, and what is linked into it later stays out.)   *)
RescanConverges ==
    <>[](Rescans => \A r \in Repos :
            /\ head[r] # 0 /\ SnapshotComplete(r, head[r]) => entry[r][head[r]] # {}
            /\ \A v \in Versions : entry[r][v] # {} => SnapshotComplete(r, v))

(* "announcements that still had nowhere to go are retried on each rescan":*)
(* in the end there is a provider record for everything that is mapped.    *)
AllAnnounced == <>[](Rescans => Entries \subseteq record)

=============================================================================
