---------------------------- MODULE DaemonProofs ----------------------------
(***************************************************************************)
(* Proofs about Daemon, for any number of daemons and commands and any     *)
(* number of kills.                                                        *)
(*                                                                         *)
(*   DaemonTypes       Spec => []TypeOK                                    *)
(*   StoreSafe         Spec => []StoreFreeForLockHolder                    *)
(*   SocketSafe        Spec => []ServingIsReachable                        *)
(*   NoFalseSuccess    Spec => []SuccessMeansDone                          *)
(*                                                                         *)
(* The argument is that the flock brackets everything else: a process has  *)
(* the store open, or a listener, only between its AcquireLock and its     *)
(* Unlock (Owned, Opened), so whoever touches the socket file or opens     *)
(* the store is alone with it.                                             *)
(***************************************************************************)
EXTENDS Daemon, TLAPS

(* Where a process has the flock, and where it has the store as well.      *)
Locked == {"open", "join", "serve", "listen", "serving", "remove", "close",
           "unlock", "work"}
Using  == Locked \ {"open", "unlock"}

Owned     == \A p \in Procs : pc[p] \in Locked => lock = p
Opened    == \A p \in db : pc[p] \in Using
Listening == \A d \in Daemons : /\ d \in ears => At(d, "serving")
                                /\ At(d, "serving") => d \in ears /\ sock = d
Answered  == \A c \in Clients \ Stoppers : /\ reply[c] = "done" => c \in finished
                                           /\ At(c, "ok") => c \in finished

IndInv == TypeOK /\ Owned /\ Opened /\ Listening /\ Answered

(* At first nobody runs and nothing is held.                               *)
LEMMA InitInv == Init => IndInv
  BY ProcAssumption
  DEF Init, IndInv, TypeOK, Owned, Opened, Listening, Answered, Locked, Using,
      Procs, Clients, DaemonPCs, ClientPCs, At

(* A process ends and the kernel takes back what it held.                  *)
LEMMA VanishInv ==
  ASSUME IndInv, NEW p \in Procs, Vanish(p),
         UNCHANGED <<sock, child, conn, reply, finished>>,
         shut' \subseteq Daemons, killed' \subseteq Procs
  PROVE  IndInv'
<1>1. TypeOK'
  BY ProcAssumption DEF IndInv, TypeOK, Vanish, HandlersLost, Go, DaemonPCs,
     ClientPCs, Procs, Clients
<1>2. Owned' /\ Opened'
  BY DEF IndInv, TypeOK, Owned, Opened, Vanish, Go, Locked, Using
<1>3. Listening'
  BY DEF IndInv, TypeOK, Listening, Vanish, Go, At, Procs
<1>4. Answered'
  BY DEF IndInv, TypeOK, Answered, Vanish, Go, At, Procs, Clients
<1> QED
  BY <1>1, <1>2, <1>3, <1>4 DEF IndInv

(* node.New and Node.Close keep lock, store and socket in step.            *)
LEMMA NodeInv ==
  ASSUME IndInv, NEW p \in Procs, NodeStep(p)
  PROVE  IndInv'
<1> USE ProcAssumption DEF IndInv, TypeOK, DaemonPCs, ClientPCs, Procs, Clients,
                          Go, At, socket, calls, past, repo
<1>1. CASE AcquireLock(p)
  BY <1>1 DEF AcquireLock, Owned, Opened, Listening, Answered, Locked, Using
<1>2. CASE Open(p)
  BY <1>2 DEF Open, Owned, Opened, Listening, Answered, Locked, Using
<1>3. CASE CloseStore(p)
  BY <1>3 DEF CloseStore, Owned, Opened, Listening, Answered, Locked, Using
<1>4. CASE Unlock(p)
  BY <1>4 DEF Unlock, Owned, Opened, Listening, Answered, Locked, Using
<1> QED
  BY <1>1, <1>2, <1>3, <1>4 DEF NodeStep

(* So do the steps of a daemon.                                            *)
LEMMA DaemonInv ==
  ASSUME IndInv, NEW d \in Daemons, Start(d) \/ DaemonStep(d) \/ Stop(d)
  PROVE  IndInv'
<1> USE ProcAssumption DEF IndInv, TypeOK, DaemonPCs, ClientPCs, Procs, Clients,
                          Go, At, socket, calls, past, repo
<1>1. CASE Start(d)
  BY <1>1 DEF Start, Owned, Opened, Listening, Answered, Locked, Using
<1>2. CASE Join(d)
  BY <1>2 DEF Join, Owned, Opened, Listening, Answered, Locked, Using
<1>3. CASE ServeClear(d)
  BY <1>3 DEF ServeClear, Alive, Owned, Opened, Listening, Answered, Locked, Using
<1>4. CASE ServeListen(d)
  BY <1>4 DEF ServeListen, Owned, Opened, Listening, Answered, Locked, Using
<1>5. CASE RemoveSocket(d)
  BY <1>5 DEF RemoveSocket, Owned, Opened, Listening, Answered, Locked, Using
<1>6. CASE Leave(d)
  BY <1>6 DEF Leave, HandlersLost, Owned, Opened, Listening, Answered, Locked,
              Using
<1>7. CASE Stop(d)
  BY <1>7 DEF Stop, Owned, Opened, Listening, Answered, Locked, Using
<1> QED
  BY <1>1, <1>2, <1>3, <1>4, <1>5, <1>6, <1>7 DEF DaemonStep

(* So do the steps of a command.                                           *)
LEMMA ClientInv ==
  ASSUME IndInv, NEW c \in Clients, ClientStep(c)
  PROVE  IndInv'
<1> USE ProcAssumption DEF IndInv, TypeOK, DaemonPCs, ClientPCs, Procs, Clients,
                          Go, At, socket, calls, past, repo
<1>1. CASE Probe(c)
  BY <1>1 DEF Probe, Owned, Opened, Listening, Answered, Locked, Using
<1>2. CASE Recheck(c)
  BY <1>2 DEF Recheck, Owned, Opened, Listening, Answered, Locked, Using
<1>3. CASE Dial(c)
  BY <1>3 DEF Dial, Alive, Owned, Opened, Listening, Answered, Locked, Using
<1>4. CASE Await(c)
  BY <1>4 DEF Await, Owned, Opened, Listening, Answered, Locked, Using
<1>5. CASE Work(c)
  BY <1>5 DEF Work, Owned, Opened, Listening, Answered, Locked, Using
<1>6. CASE c \in Pullers /\ Wait(c)
  BY <1>6 DEF Wait, Owned, Opened, Listening, Answered, Locked, Using
<1>7. ASSUME NEW d \in Daemons, c \in Pullers, ForkDaemon(c, d)
      PROVE  IndInv'
  BY <1>7 DEF ForkDaemon, Owned, Opened, Listening, Answered, Locked, Using
<1>8. CASE c \in Pullers /\ ForkFails(c)
  BY <1>8 DEF ForkFails, Owned, Opened, Listening, Answered, Locked, Using
<1> QED
  BY <1>1, <1>2, <1>3, <1>4, <1>5, <1>6, <1>7, <1>8 DEF ClientStep

(* So do the steps of a request's goroutine.                               *)
LEMMA HandlerInv ==
  ASSUME IndInv, NEW c \in Clients, HandlerStep(c)
  PROVE  IndInv'
<1> USE ProcAssumption DEF socket, calls, past, repo
<1>1. CASE Handle(c)
  BY <1>1 DEF Handle, Answer, IndInv, TypeOK, Owned, Opened, Listening, Answered,
              At, Clients
<1>2. CASE HandleShutdown(c)
  BY <1>2 DEF HandleShutdown, Answer, IndInv, TypeOK, Owned, Opened, Listening,
              Answered, At, Clients
<1>3. CASE CheckShutdown(c)
  BY <1>3 DEF CheckShutdown, IndInv, TypeOK, Owned, Opened, Listening, Answered,
              At, Clients
<1>4. CASE CloseShutdown(c)
  <2>1. conn[c] \in Daemons /\ Daemons \subseteq Procs
    BY <1>4 DEF CloseShutdown, IndInv, TypeOK, Procs
  <2>2. CASE conn[c] \notin shut
    BY <1>4, <2>1, <2>2 DEF CloseShutdown, IndInv, TypeOK, Owned, Opened,
       Listening, Answered, At, Clients
  <2>3. CASE conn[c] \in shut
    <3>1. /\ Vanish(conn[c])
          /\ UNCHANGED <<sock, child, conn, reply, finished>>
          /\ shut' = shut /\ killed' = killed
      BY <1>4, <2>3 DEF CloseShutdown
    <3> QED
      BY <2>1, <3>1, VanishInv DEF IndInv, TypeOK
  <2> QED
    BY <2>2, <2>3
<1> QED
  BY <1>1, <1>2, <1>3, <1>4 DEF HandlerStep

(* IndInv is inductive.                                                    *)
LEMMA StepInv == IndInv /\ [Next]_vars => IndInv'
<1> SUFFICES ASSUME IndInv, [Next]_vars
             PROVE  IndInv'
  OBVIOUS
<1>1. CASE UNCHANGED vars
  BY <1>1 DEF vars, IndInv, TypeOK, Owned, Opened, Listening, Answered, At
<1>2. ASSUME NEW p \in Procs, Kill(p)
      PROVE  IndInv'
  <2>1. /\ Vanish(p)
        /\ UNCHANGED <<sock, child, conn, reply, finished>>
        /\ shut' = shut /\ killed' = killed \cup {p}
    BY <1>2 DEF Kill
  <2> QED
    BY <2>1, VanishInv DEF IndInv, TypeOK
<1> QED
  BY <1>1, <1>2, NodeInv, DaemonInv, ClientInv, HandlerInv DEF Next

(* IndInv holds of every reachable state; the theorems below are its       *)
(* parts.                                                                  *)
LEMMA Invariance == Spec => []IndInv
  BY InitInv, StepInv, PTL DEF Spec

(* Every reachable state of the processes, the lock, the socket and the    *)
(* requests is well typed; a request that is handled has a daemon.         *)
THEOREM DaemonTypes == Spec => []TypeOK
<1>1. IndInv => TypeOK
  BY DEF IndInv
<1> QED
  BY <1>1, Invariance, PTL

(* However many processes start, stop and are killed: whoever gets the     *)
(* flock finds the bbolt file closed, so that store.Open does not wait.    *)
THEOREM StoreSafe == Spec => []StoreFreeForLockHolder
<1>1. IndInv => StoreFreeForLockHolder
  BY DEF IndInv, TypeOK, Owned, Opened, StoreFreeForLockHolder, Locked, Using, At
<1> QED
  BY <1>1, Invariance, PTL

(* A daemon that serves owns the socket file, whatever other daemons       *)
(* remove or bind on their way up and down.                                *)
THEOREM SocketSafe == Spec => []ServingIsReachable
<1>1. IndInv => ServingIsReachable
  BY DEF IndInv, Listening, ServingIsReachable, Alive
<1> QED
  BY <1>1, Invariance, PTL

(* A command that reports success has been carried out, by the daemon or   *)
(* on its own node.                                                        *)
THEOREM NoFalseSuccess == Spec => []SuccessMeansDone
<1>1. IndInv => SuccessMeansDone
  BY DEF IndInv, Answered, SuccessMeansDone
<1> QED
  BY <1>1, Invariance, PTL

=============================================================================
