------------------------------- MODULE Daemon -------------------------------
(***************************************************************************)
(* The processes that share one repo directory: `sf daemon` and the other  *)
(* `sf` commands.  They meet in three places:                              *)
(*   - the flock on the repo, and bbolt's own lock behind it;              *)
(*   - the control socket <repo>/api.sock, a file that outlives a daemon   *)
(*     that is killed;                                                     *)
(*   - the requests sent over it, each handled by a goroutine of the       *)
(*     daemon that dies with it.                                           *)
(* What a command does to the store is left to SharedCache: here it        *)
(* either completes or fails.                                              *)
(***************************************************************************)
EXTENDS Naturals, FiniteSets

CONSTANTS
    Daemons,    \* processes that run `sf daemon`, forked or by hand
    Pullers,    \* `sf pull`: forks a daemon when none listens
    Workers,    \* `sf ingest`, `evict`, `list`: an own node when none listens
    Stoppers,   \* `sf shutdown`
    None,       \* no process
    Patient,    \* TRUE: no daemon is slow enough for forkDaemon's deadline
    MaxKills    \* bound on processes killed

Clients == Pullers \cup Workers \cup Stoppers
Procs   == Daemons \cup Clients

ASSUME ProcAssumption ==
    /\ Daemons \cap Clients = {} /\ Stoppers \cap (Pullers \cup Workers) = {}
    /\ Pullers \cap Workers = {}
    /\ None \notin Procs
    /\ Patient \in BOOLEAN /\ MaxKills \in Nat

VARIABLES
    pc,        \* where each process is
    lock,      \* holder of the flock
    db,        \* processes that have the bbolt file open
    sock,      \* whose listener api.sock was bound by; None: no such file
    ears,      \* daemons whose listener is open
    child,     \* the daemon a puller forked
    conn,      \* the daemon a client's request went to
    hand,      \* the handler of each client's request
    reply,     \* the last event of the request, if one was written
    shut,      \* daemons whose Shutdown channel is closed
    finished,  \* clients whose operation completed (history)
    killed     \* processes that were killed (history)

repo   == <<lock, db>>
socket == <<sock, ears>>
calls  == <<conn, hand, reply>>
past   == <<finished, killed>>
vars   == <<pc, lock, db, sock, ears, child, conn, hand, reply, shut,
            finished, killed>>

DaemonPCs == {"unborn", "new", "open", "join", "serve", "listen", "serving",
              "remove", "close", "unlock", "leave", "gone"}
ClientPCs == {"probe", "fork", "wait", "recheck", "dial", "await",
              "new", "open", "work", "close", "unlock",
              "ok", "failed", "lost", "locked", "gone"}
Final     == {"ok", "failed", "lost", "locked", "gone"}

Go(p, l) == pc' = [pc EXCEPT ![p] = l]
At(p, l) == pc[p] = l

(* controls.Alive                                                          *)
Alive == sock \in ears

-----------------------------------------------------------------------------
(* node.New and Node.Close, in every process                               *)

(* AcquireLock does not wait.  A daemon that fails exits, a command        *)
(* reports that another process holds the lock.                            *)
AcquireLock(p) ==
    /\ At(p, "new")
    /\ \/ /\ lock = None
          /\ lock' = p
          /\ Go(p, "open")
       \/ /\ lock # None
          /\ Go(p, IF p \in Daemons THEN "gone" ELSE "locked")
          /\ UNCHANGED lock
    /\ UNCHANGED <<db, socket, child, calls, shut, past>>

(* store.Open waits for bbolt's own lock for as long as it takes.  What    *)
(* follows in New may fail (ports, keys): the store and the lock go again. *)
(* A static relay that does not parse ends the process with both in hand,  *)
(* and the kernel takes them back.                                         *)
Open(p) ==
    /\ At(p, "open") /\ db = {}
    /\ \/ /\ db' = {p} /\ UNCHANGED lock
          /\ \/ Go(p, IF p \in Daemons THEN "join" ELSE "work")
             \/ Go(p, "close")
       \/ /\ lock' = None /\ UNCHANGED db
          /\ Go(p, IF p \in Daemons THEN "gone" ELSE "failed")
    /\ UNCHANGED <<socket, child, calls, shut, past>>

(* Mutant: Close lets the lock go before the store.                        *)
CloseStoreLate(p) ==
    /\ At(p, "close")
    /\ lock' = None
    /\ Go(p, "unlock")
    /\ UNCHANGED <<db, socket, child, calls, shut, past>>

CloseStore(p) ==
    /\ At(p, "close")
    /\ db' = db \ {p}
    /\ Go(p, "unlock")
    /\ UNCHANGED <<lock, socket, child, calls, shut, past>>

Unlock(p) ==
    /\ At(p, "unlock")
    /\ lock' = None
    /\ Go(p, IF p \in Daemons THEN "leave"
             ELSE IF p \in finished THEN "ok" ELSE "failed")
    /\ UNCHANGED <<db, socket, child, calls, shut, past>>

-----------------------------------------------------------------------------
(* cmdDaemon                                                               *)

(* Started by hand.                                                        *)
Start(d) ==
    /\ At(d, "unborn")
    /\ Go(d, "new")
    /\ UNCHANGED <<repo, socket, child, calls, shut, past>>

(* DialPeers, WaitForRoutingTable, ReprovideAll: up to 15 s and more.      *)
Join(d) ==
    /\ At(d, "join")
    /\ Go(d, "serve")
    /\ UNCHANGED <<repo, socket, child, calls, shut, past>>

(* Serve removes a socket nobody answers on, then listens; a file still in *)
(* the way is an error.                                                    *)
ServeClear(d) ==
    /\ At(d, "serve")
    /\ sock' = IF Alive THEN sock ELSE None
    /\ Go(d, "listen")
    /\ UNCHANGED <<repo, ears, child, calls, shut, past>>

ServeListen(d) ==
    /\ At(d, "listen")
    /\ sock' = IF sock = None THEN d ELSE sock
    /\ ears' = IF sock = None THEN ears \cup {d} ELSE ears
    /\ Go(d, IF sock = None THEN "serving" ELSE "close")
    /\ UNCHANGED <<repo, child, calls, shut, past>>

(* Mutant: the node is closed before the control server.                   *)
StopNodeFirst(d) ==
    /\ At(d, "serving")
    /\ db' = db \ {d}
    /\ lock' = None
    /\ ears' = ears \ {d}
    /\ sock' = None
    /\ Go(d, "remove")
    /\ UNCHANGED <<child, calls, shut, past>>

(* A closed Shutdown, a signal or a watcher error ends main's select.      *)
(* srv.Close: closing the listener unlinks the socket file ...             *)
Stop(d) ==
    /\ At(d, "serving")
    /\ ears' = ears \ {d}
    /\ sock' = None
    /\ Go(d, "remove")
    /\ UNCHANGED <<repo, child, calls, shut, past>>

(* ... and os.Remove takes whatever is at its path by then.                *)
RemoveSocket(d) ==
    /\ At(d, "remove")
    /\ sock' = None
    /\ Go(d, "close")
    /\ UNCHANGED <<repo, ears, child, calls, shut, past>>

(* The handlers a process takes with it.                                   *)
HandlersLost(d) ==
    hand' = [c \in Clients |-> IF conn[c] = d THEN "none" ELSE hand[c]]

(* main returns; handlers still running are cut off.                       *)
Leave(d) ==
    /\ At(d, "leave")
    /\ Go(d, "gone")
    /\ HandlersLost(d)
    /\ UNCHANGED <<repo, socket, child, conn, reply, shut, past>>

(* The kernel takes back what a process held; the socket file stays.       *)
Vanish(p) ==
    /\ Go(p, "gone")
    /\ lock' = IF lock = p THEN None ELSE lock
    /\ db' = db \ {p}
    /\ ears' = ears \ {p}
    /\ HandlersLost(p)

-----------------------------------------------------------------------------
(* The commands                                                            *)

(* Alive, and what to do if not: pull forks a daemon, shutdown gives up,   *)
(* the others build their own node.                                        *)
Probe(c) ==
    /\ At(c, "probe")
    /\ Go(c, IF Alive THEN "dial"
             ELSE IF c \in Pullers THEN "fork"
             ELSE IF c \in Workers THEN "new" ELSE "failed")
    /\ UNCHANGED <<repo, socket, child, calls, shut, past>>

ForkDaemon(c, d) ==
    /\ At(c, "fork") /\ At(d, "unborn")
    /\ pc' = [pc EXCEPT ![c] = "wait", ![d] = "new"]
    /\ child' = [child EXCEPT ![c] = d]
    /\ UNCHANGED <<repo, socket, calls, shut, past>>

(* forkDaemon fails before there is a child: no log file, no process.      *)
ForkFails(c) ==
    /\ At(c, "fork")
    /\ Go(c, "recheck")
    /\ UNCHANGED <<repo, socket, child, calls, shut, past>>

(* Mutant: only the socket is watched.                                     *)
WaitForSocket(c) ==
    /\ At(c, "wait") /\ Alive
    /\ Go(c, "recheck")
    /\ UNCHANGED <<repo, socket, child, calls, shut, past>>

(* forkDaemon's loop ends when a socket answers, when the child has exited *)
(* or at the deadline.                                                     *)
Wait(c) ==
    /\ At(c, "wait")
    /\ Alive \/ At(child[c], "gone") \/ ~Patient
    /\ Go(c, "recheck")
    /\ UNCHANGED <<repo, socket, child, calls, shut, past>>

Recheck(c) ==
    /\ At(c, "recheck")
    /\ Go(c, IF Alive THEN "dial" ELSE "new")
    /\ UNCHANGED <<repo, socket, child, calls, shut, past>>

(* Mutant: whatever the probe saw is taken to be still there.              *)
DialUnchecked(c) ==
    /\ At(c, "dial")
    /\ conn' = [conn EXCEPT ![c] = sock]
    /\ hand' = [hand EXCEPT ![c] = "run"]
    /\ Go(c, "await")
    /\ UNCHANGED <<repo, socket, child, reply, shut, past>>

(* controls.Call: the daemon that answered the probe may be gone by now.   *)
Dial(c) ==
    /\ At(c, "dial")
    /\ \/ /\ Alive
          /\ conn' = [conn EXCEPT ![c] = sock]
          /\ hand' = [hand EXCEPT ![c] = "run"]
          /\ Go(c, "await")
       \/ /\ ~Alive
          /\ Go(c, "failed")
          /\ UNCHANGED <<conn, hand>>
    /\ UNCHANGED <<repo, socket, child, reply, shut, past>>

(* Mutant: a connection that closes is taken for the end of the command.   *)
AwaitEof(c) ==
    /\ At(c, "await")
    /\ \/ /\ reply[c] = "error"
          /\ Go(c, "failed")
       \/ /\ reply[c] = "done" \/ (reply[c] = "none" /\ hand[c] = "none")
          /\ Go(c, "ok")
    /\ UNCHANGED <<repo, socket, child, calls, shut, past>>

(* done, error, or the connection closed without either.                   *)
Await(c) ==
    /\ At(c, "await")
    /\ \/ reply[c] = "done"  /\ Go(c, "ok")
       \/ reply[c] = "error" /\ Go(c, "failed")
       \/ reply[c] = "none"  /\ hand[c] = "none" /\ Go(c, "lost")
    /\ UNCHANGED <<repo, socket, child, calls, shut, past>>

(* The command on its own node, which completes or fails.                  *)
Work(c) ==
    /\ At(c, "work")
    /\ finished' \in {finished, finished \cup {c}}
    /\ Go(c, "close")
    /\ UNCHANGED <<repo, socket, child, calls, shut, killed>>

-----------------------------------------------------------------------------
(* controls.handle, one goroutine for each request                         *)

Answer(c, r, h) ==
    /\ reply' = [reply EXCEPT ![c] = r]
    /\ hand' = [hand EXCEPT ![c] = h]
    /\ UNCHANGED <<pc, repo, socket, child, conn, shut, killed>>

(* pull.Run, ingest.Run or evict returns: done, or error.  Nothing can     *)
(* complete on a store that has been closed.                               *)
Handle(c) ==
    /\ hand[c] = "run" /\ c \notin Stoppers
    /\ \/ conn[c] \in db /\ Answer(c, "done", "none")
                         /\ finished' = finished \cup {c}
       \/ Answer(c, "error", "none") /\ UNCHANGED finished

(* shutdown answers first.                                                 *)
HandleShutdown(c) ==
    /\ hand[c] = "run" /\ c \in Stoppers
    /\ Answer(c, "done", "check")
    /\ UNCHANGED finished

(* select { case <-s.Shutdown: default: close(s.Shutdown) }                *)
CheckShutdown(c) ==
    /\ hand[c] = "check"
    /\ hand' = [hand EXCEPT ![c] = IF conn[c] \in shut THEN "none" ELSE "close"]
    /\ UNCHANGED <<pc, repo, socket, child, conn, reply, shut, past>>

(* Mutant: the stop request is acknowledged and forgotten.                 *)
CloseNothing(c) ==
    /\ hand[c] = "close"
    /\ hand' = [hand EXCEPT ![c] = "none"]
    /\ UNCHANGED <<pc, repo, socket, child, conn, reply, shut, past>>

(* A channel that is closed twice panics, and the process with it.         *)
CloseShutdown(c) ==
    /\ hand[c] = "close"
    /\ \/ /\ conn[c] \notin shut
          /\ shut' = shut \cup {conn[c]}
          /\ hand' = [hand EXCEPT ![c] = "none"]
          /\ UNCHANGED <<pc, repo, ears>>
       \/ /\ conn[c] \in shut
          /\ Vanish(conn[c])
          /\ UNCHANGED shut
    /\ UNCHANGED <<sock, child, conn, reply, finished, killed>>

-----------------------------------------------------------------------------
(* kill -9, Ctrl-C on a client, power loss for one process.                *)
Kill(p) ==
    /\ ~At(p, "unborn") /\ pc[p] \notin Final
    /\ Cardinality(killed) < MaxKills
    /\ Vanish(p)
    /\ killed' = killed \cup {p}
    /\ UNCHANGED <<sock, child, conn, reply, shut, finished>>

-----------------------------------------------------------------------------
Init ==
    /\ pc = [p \in Procs |-> IF p \in Daemons THEN "unborn" ELSE "probe"]
    /\ lock = None
    /\ db = {}
    /\ sock = None
    /\ ears = {}
    /\ child = [c \in Pullers |-> None]
    /\ conn = [c \in Clients |-> None]
    /\ hand = [c \in Clients |-> "none"]
    /\ reply = [c \in Clients |-> "none"]
    /\ shut = {}
    /\ finished = {}
    /\ killed = {}

NodeStep(p) == AcquireLock(p) \/ Open(p) \/ CloseStore(p) \/ Unlock(p)

DaemonStep(d) ==
    \/ Join(d) \/ ServeClear(d) \/ ServeListen(d)
    \/ RemoveSocket(d) \/ Leave(d)

ClientStep(c) ==
    \/ Probe(c) \/ Recheck(c) \/ Dial(c) \/ Await(c) \/ Work(c)
    \/ c \in Pullers /\ (Wait(c) \/ ForkFails(c) \/ \E d \in Daemons : ForkDaemon(c, d))

HandlerStep(c) ==
    \/ Handle(c) \/ HandleShutdown(c) \/ CheckShutdown(c) \/ CloseShutdown(c)

Next ==
    \/ \E p \in Procs : NodeStep(p) \/ Kill(p)
    \/ \E d \in Daemons : Start(d) \/ DaemonStep(d) \/ Stop(d)
    \/ \E c \in Clients : ClientStep(c) \/ HandlerStep(c)

Spec == Init /\ [][Next]_vars

(* Every process and every handler goes on: the waits of start-up and of   *)
(* forkDaemon are bounded, and an operation is taken to return (Handle).   *)
(* A daemon must stop only once Shutdown is closed; that it is started or  *)
(* killed nobody promises.                                                 *)
Fairness ==
    /\ \A p \in Procs : WF_vars(NodeStep(p))
    /\ \A d \in Daemons : /\ WF_vars(DaemonStep(d))
                          /\ WF_vars(d \in shut /\ Stop(d))
    /\ \A c \in Clients : WF_vars(ClientStep(c)) /\ WF_vars(HandlerStep(c))

LiveSpec == Spec /\ Fairness

-----------------------------------------------------------------------------
(* Properties                                                              *)

TypeOK ==
    /\ pc \in [Procs -> DaemonPCs \cup ClientPCs]
    /\ lock \in Procs \cup {None}
    /\ db \subseteq Procs
    /\ sock \in Daemons \cup {None}
    /\ ears \subseteq Daemons
    /\ child \in [Pullers -> Daemons \cup {None}]
    /\ conn \in [Clients -> Daemons \cup {None}]
    /\ hand \in [Clients -> {"none", "run", "check", "close"}]
    /\ \A c \in Clients : hand[c] # "none" => conn[c] \in Daemons
    /\ reply \in [Clients -> {"none", "done", "error"}]
    /\ shut \subseteq Daemons
    /\ finished \subseteq Clients
    /\ killed \subseteq Procs

(* Whoever has the flock finds bbolt's lock free.  store.Open is called    *)
(* with no timeout: were it ever to find the file taken, the process would *)
(* hang with the flock in hand and lock every other command out.           *)
StoreFreeForLockHolder == \A p \in Procs : At(p, "open") => db = {}

(* A daemon that serves can be reached: the socket file is its own.  No    *)
(* daemon on its way up or down, no command and no crash takes it away,    *)
(* though both Serve and Close remove the file by path.                    *)
ServingIsReachable == \A d \in Daemons : At(d, "serving") => sock = d /\ Alive

(* controls_test.go: an EOF without done or error "must not be reported as *)
(* success": a command that reports success has been carried out.          *)
SuccessMeansDone ==
    \A c \in Clients \ Stoppers : At(c, "ok") => c \in finished

(* Every command comes to an end, whatever happens to the daemons it       *)
(* starts, waits for or calls, given that the operation it asks for does:  *)
(* the client sets no deadline of its own, and the daemon's only cuts off  *)
(* writes.  (Of a pull, Transfer shows that it ends, and where it hangs.)  *)
EveryCommandEnds == \A c \in Clients : <>(pc[c] \in Final)

(* README.md: "`shutdown`: Stop a running daemon".  A daemon whose client  *)
(* was told "shutting down" goes away.                                     *)
ShutdownStops ==
    \A c \in Stoppers, d \in Daemons :
        (At(c, "ok") /\ conn[c] = d) ~> At(d, "gone")

=============================================================================
