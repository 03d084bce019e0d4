-------------------------- MODULE WatcherProofs ---------------------------
(***************************************************************************)
(* The watcher has no blind spot, for any number of repositories and any   *)
(* length of the kernel's queue: whatever the order in which directories   *)
(* are made, listed, removed and attached to.                              *)
(***************************************************************************)
EXTENDS Watcher, TLAPS

Pcs == {"boot", "off", "list", "track", "attach", "firstscan", "idle", "handle",
        "flush", "scan", "reprovide"}

LoopTypes == /\ sub \in 1 .. 3 /\ pc \in Pcs
             /\ queue \in Seq(Repos \X {"made", "inside"})

(* A sub-directory has its repository's directory above it.                *)
Nested == \A r \in Repos, s \in SubSet : Dir(r, s) \in dirs => Dir(r, "own") \in dirs

(* The hub directory is watched before anything is listed, and nothing is  *)
(* known before that.                                                      *)
HubFirst == /\ pc \notin {"boot", "off"} => Hub \in watched
            /\ pc \in {"boot", "off", "list"} => known = {}

(* What the watcher believes to be watched is, except where a repository   *)
(* was removed under it.                                                   *)
KnownWatched == \A r \in Repos \ remade, s \in SubSet :
                    Dir(r, s) \in known => Dir(r, s) \in watched

Queued(r) == \E j \in 1 .. Len(queue) : queue[j][1] = r

(* The directory, or the one above it, could not be attached to.           *)
Missed(r, i) == Dir(r, "own") \in missed \/ Dir(r, Subs[i]) \in missed

(* A directory is watched, or an event of its repository is queued, or the *)
(* watcher is on its way to it, also when it has only just listed the hub; *)
(* or it could not be attached to.                                         *)
Covered(r, i) == \/ Dir(r, Subs[i]) \in watched
                 \/ Queued(r)
                 \/ Missed(r, i)
                 \/ pc \in {"handle", "attach"} /\ repo = r /\ sub <= i
                 \/ pc \in {"track", "attach"} /\ r \in todo

AllCovered == pc \notin {"boot", "off", "list"} /\ ~dropped =>
                  \A r \in Repos \ remade, i \in 1 .. 3 :
                      Dir(r, Subs[i]) \in dirs => Covered(r, i)

BlindInv == LoopTypes /\ Nested /\ HubFirst /\ KnownWatched /\ AllCovered

(* The three directories of a repository that are watched.                 *)
LEMMA SubFacts == /\ Len(Subs) = 3 /\ Subs[1] = "own"
                  /\ \A i, j \in 1 .. 3 : Subs[i] = Subs[j] => i = j
                  /\ \A i \in 1 .. 3 : Subs[i] \in SubSet
  BY DEF Subs, SubSet

(* Directories of different repositories or levels differ.                 *)
LEMMA DirFacts == /\ \A r, q, s, u : Dir(r, s) = Dir(q, u) => r = q /\ s = u
                  /\ \A r \in Repos : \A s : Dir(r, s) # Hub
  BY WatcherAssumption DEF Dir, Hub

(* The hub directory is the first thing the watcher watches.               *)
LEMMA BlindInit == Init => BlindInv
<1> SUFFICES ASSUME Init PROVE BlindInv
  OBVIOUS
<1>1. Nested
  <2> SUFFICES ASSUME NEW r \in Repos, NEW s \in SubSet, Dir(r, s) \in dirs
               PROVE  Dir(r, "own") \in dirs
    BY DEF Nested
  <2>1. dirs = {Dir(q, u) : q \in Repos, u \in SubSet}
    BY DEF Init
  <2>2. "own" \in SubSet
    BY DEF SubSet
  <2> QED
    BY <2>1, <2>2
<1> QED
  BY <1>1 DEF Init, BlindInv, LoopTypes, HubFirst, KnownWatched, AllCovered, Pcs

(* An event goes to the end of the queue, or is dropped.                   *)
LEMMA EmitQueues ==
    ASSUME LoopTypes, NEW r \in Repos, NEW kind \in {"made", "inside"}, NEW seen,
           Emit(<<r, kind>>, seen)
    PROVE  /\ queue' \in Seq(Repos \X {"made", "inside"})
           /\ \A q : Queued(q) => Queued(q)'
           /\ ~dropped' => ~dropped
           /\ seen /\ ~dropped' => Queued(r)'
<1> DEFINE e == <<r, kind>>
<1>1. queue' = queue \/ queue' = Append(queue, e)
  BY DEF Emit
<1>2. e \in Repos \X {"made", "inside"} /\ e[1] = r
  OBVIOUS
<1> HIDE DEF e
<1>3. queue' \in Seq(Repos \X {"made", "inside"})
  BY <1>1, <1>2 DEF LoopTypes
<1>4. ASSUME NEW q, Queued(q) PROVE Queued(q)'
  <2>1. PICK j \in 1 .. Len(queue) : queue[j][1] = q
    BY <1>4 DEF Queued
  <2>2. j \in 1 .. Len(queue') /\ queue'[j] = queue[j]
    BY <1>1, <1>2 DEF LoopTypes
  <2> QED
    BY <2>1, <2>2 DEF Queued
<1>5. ~dropped' => ~dropped
  BY Zenon DEF Emit
<1>6. ASSUME seen, ~dropped' PROVE Queued(r)'
  <2>1. ~(Len(queue) >= MaxQueue)
    BY <1>6, Zenon DEF Emit
  <2>2. Len(queue) < MaxQueue
    BY <2>1, WatcherAssumption DEF LoopTypes
  <2>3. queue' = Append(queue, e)
    BY <1>6, <2>2 DEF Emit, e
  <2>4. Len(queue') \in 1 .. Len(queue') /\ queue'[Len(queue')] = e
    BY <1>2, <2>3 DEF LoopTypes
  <2> QED
    BY <1>2, <2>4 DEF Queued
<1> QED
  BY <1>3, <1>4, <1>5, <1>6


-----------------------------------------------------------------------------
(* Steps that touch neither directories nor watches nor events, and do not *)
(* leave the watcher's walk over directories.                              *)
Walking == pc \in {"handle", "attach", "track"}

(* A step that leaves watches, queue and the watcher's position alone.     *)
LEMMA BlindAside ==
    ASSUME BlindInv,
           UNCHANGED <<dirs, watched, queue, dropped, remade, missed, known, sub>>,
           \/ UNCHANGED <<pc, repo, todo>>
           \/ ~Walking /\ pc \notin {"boot", "off", "list"} /\ pc' \in Pcs
              /\ pc' \notin {"boot", "off", "list"}
    PROVE  BlindInv'
<1>1. LoopTypes' /\ Nested' /\ HubFirst' /\ KnownWatched'
  BY DEF BlindInv, LoopTypes, Nested, HubFirst, KnownWatched, Walking
<1>2. AllCovered'
  <2> SUFFICES ASSUME pc' \notin {"boot", "off", "list"}, ~dropped',
                      NEW r \in Repos \ remade', NEW i \in 1 .. 3,
                      Dir(r, Subs[i]) \in dirs'
               PROVE  Covered(r, i)'
    BY DEF AllCovered
  <2>1. Covered(r, i)
    BY DEF BlindInv, AllCovered
  <2>2. Queued(r) => Queued(r)'
    BY DEF Queued
  <2> QED
    BY <2>1, <2>2 DEF Covered, Missed, Walking
<1> QED
  BY <1>1, <1>2 DEF BlindInv

(* Directories are made, and the one above them is watched or is not.      *)
LEMMA BlindMade ==
    ASSUME BlindInv, NEW r \in Repos, NEW s \in SubSet,
           dirs' = dirs \cup {Dir(r, s)},
           s # "own" => Dir(r, "own") \in dirs,
           queue' \in Seq(Repos \X {"made", "inside"}),
           \A q : Queued(q) => Queued(q)',
           ~dropped' => ~dropped,
           s = "own" /\ Hub \in watched /\ ~dropped' => Queued(r)',
           Dir(r, "own") \in watched /\ s # "own" /\ ~dropped' => Queued(r)',
           UNCHANGED <<watched, remade, missed, pc, todo, repo, sub, known>>
    PROVE  BlindInv'
<1>2. LoopTypes' /\ HubFirst' /\ KnownWatched'
  BY DEF BlindInv, LoopTypes, HubFirst, KnownWatched
<1>3. Nested'
  BY DirFacts DEF BlindInv, Nested
<1>4. AllCovered'
  <2> SUFFICES ASSUME pc \notin {"boot", "off", "list"}, ~dropped',
                      NEW q \in Repos \ remade, NEW i \in 1 .. 3,
                      Dir(q, Subs[i]) \in dirs'
               PROVE  Covered(q, i)'
    BY DEF AllCovered
  <2>1. \A j \in 1 .. 3 : Covered(q, j) => Covered(q, j)'
    BY DEF Covered, Missed
  <2>2. \A j \in 1 .. 3 : Dir(q, Subs[j]) \in dirs => Covered(q, j)
    BY DEF BlindInv, AllCovered
  <2>3. CASE Dir(q, Subs[i]) \in dirs
    BY <2>1, <2>2, <2>3
  <2>4. CASE Dir(q, Subs[i]) = Dir(r, s)
    <3>1. q = r /\ Subs[i] = s
      BY <2>4 DEF Dir
    <3>2. CASE Queued(r)'
      BY <3>1, <3>2 DEF Covered
    <3>3. CASE ~Queued(r)'
      <4>1. s # "own" /\ Dir(q, Subs[1]) \in dirs /\ Dir(q, Subs[1]) \notin watched
        BY <3>1, <3>3, SubFacts DEF BlindInv, HubFirst
      <4>2. Covered(q, 1)
        BY <2>2, <4>1 DEF Covered
      <4>3. Covered(q, i)
        BY <4>1, <4>2, SubFacts DEF Covered, Missed, BlindInv, LoopTypes
      <4> QED
        BY <2>1, <4>3
    <3> QED
      BY <3>2, <3>3
  <2> QED
    BY <2>3, <2>4
<1> QED
  BY <1>2, <1>3, <1>4 DEF BlindInv

(* Steps of the user.                                                      *)
LEMMA BlindUser == BlindInv /\ User => BlindInv'
<1> SUFFICES ASSUME BlindInv, NEW r \in Repos,
                    \/ MakeRepo(r) \/ MoveRef(r) \/ RemoveRepo(r)
                    \/ \E s \in SubSet : MakeSub(r, s)
                    \/ \E f \in Files : AddLink(r, f)
             PROVE  BlindInv'
  BY DEF User
<1>0. LoopTypes
  BY DEF BlindInv
<1>1. CASE MakeRepo(r)
  <2>1. /\ queue' \in Seq(Repos \X {"made", "inside"})
        /\ \A q : Queued(q) => Queued(q)'
        /\ ~dropped' => ~dropped
        /\ Hub \in watched /\ ~dropped' => Queued(r)'
    BY <1>0, <1>1, EmitQueues DEF MakeRepo
  <2>2. "own" \in SubSet
    BY DEF SubSet
  <2> QED
    BY <1>1, <2>1, <2>2, BlindMade DEF MakeRepo, loopVars
<1>2. ASSUME NEW s \in SubSet, MakeSub(r, s) PROVE BlindInv'
  <2>1. /\ queue' \in Seq(Repos \X {"made", "inside"})
        /\ \A q : Queued(q) => Queued(q)'
        /\ ~dropped' => ~dropped
        /\ Dir(r, "own") \in watched /\ ~dropped' => Queued(r)'
    BY <1>0, <1>2, EmitQueues DEF MakeSub
  <2> QED
    BY <1>2, <2>1, BlindMade DEF MakeSub, loopVars
<1>3. ASSUME NEW seen, Emit(<<r, "inside">>, seen),
             UNCHANGED <<dirs, watched, remade, missed, loopVars>>
      PROVE  BlindInv'
  <2>1. /\ queue' \in Seq(Repos \X {"made", "inside"})
        /\ \A q : Queued(q) => Queued(q)'
        /\ ~dropped' => ~dropped
    <3>1. LoopTypes /\ "inside" \in {"made", "inside"}
      BY DEF BlindInv
    <3> QED
      BY <1>3, <3>1, EmitQueues
  <2>2. LoopTypes' /\ HubFirst' /\ KnownWatched' /\ Nested'
    BY <1>3, <2>1 DEF BlindInv, LoopTypes, HubFirst, KnownWatched, Nested, loopVars
  <2>3. \A q \in Repos, i \in 1 .. 3 : Covered(q, i) => Covered(q, i)'
    BY <1>3, <2>1 DEF Covered, Missed, loopVars
  <2>4. AllCovered'
    BY <1>3, <2>1, <2>3 DEF BlindInv, AllCovered, loopVars
  <2> QED
    BY <2>2, <2>4 DEF BlindInv
<1>4. CASE MoveRef(r)
  BY <1>3, <1>4 DEF MoveRef
<1>5. CASE \E f \in Files : AddLink(r, f)
  BY <1>3, <1>5 DEF AddLink
<1>6. CASE RemoveRepo(r)
  <2>1. /\ queue' \in Seq(Repos \X {"made", "inside"})
        /\ \A q : Queued(q) => Queued(q)'
        /\ ~dropped' => ~dropped
    <3>1. LoopTypes /\ "inside" \in {"made", "inside"}
      BY DEF BlindInv
    <3> QED
      BY <1>6, <3>1, EmitQueues DEF RemoveRepo
  <2>2. /\ UNCHANGED <<pc, todo, repo, sub, known>>
        /\ dirs' = dirs \ {Dir(r, s) : s \in SubSet}
        /\ watched' = watched \ {Dir(r, s) : s \in SubSet}
        /\ missed' = missed \ {Dir(r, s) : s \in SubSet}
        /\ remade \subseteq remade'
        /\ (\E s \in SubSet : Dir(r, s) \in known) => r \in remade'
    BY <1>6 DEF RemoveRepo, loopVars
  <2>3. \A q \in Repos, u \in SubSet : q # r =>
            /\ Dir(q, u) \in dirs' <=> Dir(q, u) \in dirs
            /\ Dir(q, u) \in watched' <=> Dir(q, u) \in watched
            /\ Dir(q, u) \in missed' <=> Dir(q, u) \in missed
    BY <2>2, DirFacts
  <2>4. \A u \in SubSet : Dir(r, u) \notin dirs'
    BY <2>2
  <2>5. LoopTypes' /\ HubFirst'
    BY <2>1, <2>2, DirFacts DEF BlindInv, LoopTypes, HubFirst
  <2>6. Nested'
    <3>1. "own" \in SubSet
      BY DEF SubSet
    <3> QED
      BY <2>3, <2>4, <3>1 DEF BlindInv, Nested
  <2>7. KnownWatched'
    BY <2>2, <2>3 DEF BlindInv, KnownWatched
  <2>8. AllCovered'
    <3> SUFFICES ASSUME pc \notin {"boot", "off", "list"}, ~dropped',
                        NEW q \in Repos \ remade', NEW i \in 1 .. 3,
                        Dir(q, Subs[i]) \in dirs'
                 PROVE  Covered(q, i)'
      BY <2>2 DEF AllCovered
    <3>1. Subs[i] \in SubSet /\ "own" \in SubSet
      BY SubFacts DEF SubSet
    <3>2. q # r
      BY <2>4, <3>1
    <3>3. Covered(q, i)
      BY <2>1, <2>2, <2>3, <3>1, <3>2 DEF BlindInv, AllCovered
    <3> QED
      BY <2>1, <2>2, <2>3, <3>1, <3>2, <3>3 DEF Covered, Missed
  <2> QED
    BY <2>5, <2>6, <2>7, <2>8 DEF BlindInv
<1> QED
  BY <1>1, <1>2, <1>4, <1>5, <1>6

(* Taking an event: its repository is the one attached to next.            *)
LEMMA BlindTake == BlindInv /\ TakeEvent => BlindInv'
<1> SUFFICES ASSUME BlindInv, TakeEvent PROVE BlindInv'
  OBVIOUS
<1> DEFINE h == Head(queue)[1]
<1>1. /\ pc = "idle" /\ queue # <<>> /\ queue' = Tail(queue)
      /\ repo' = h /\ sub' = 1 /\ pc' \in {"handle", "idle"}
      /\ pc' = "idle" => h \notin Present
      /\ UNCHANGED <<todo, known, watched, dropped, remade, missed, dirs>>
  BY DEF TakeEvent, hubVars, Go
<1>2. queue \in Seq(Repos \X {"made", "inside"})
  BY DEF BlindInv, LoopTypes
<1>3. /\ queue' \in Seq(Repos \X {"made", "inside"}) /\ h = queue[1][1]
      /\ Len(queue') = Len(queue) - 1
      /\ \A j \in 2 .. Len(queue) : queue'[j - 1] = queue[j]
  BY <1>1, <1>2
<1> HIDE DEF h
<1>4. ASSUME NEW q, Queued(q), q # h PROVE Queued(q)'
  <2>1. PICK j \in 1 .. Len(queue) : queue[j][1] = q
    BY <1>4 DEF Queued
  <2>2. j # 1
    BY <1>3, <1>4, <2>1
  <2>3. /\ j \in 2 .. Len(queue) /\ j - 1 \in 1 .. Len(queue')
        /\ queue'[j - 1][1] = q
    BY <1>2, <1>3, <2>1, <2>2
  <2> QED
    BY <2>3 DEF Queued
<1>5. LoopTypes' /\ Nested' /\ HubFirst' /\ KnownWatched'
  BY <1>1, <1>3 DEF BlindInv, LoopTypes, Nested, HubFirst, KnownWatched, Pcs
<1>6. AllCovered'
  <2> SUFFICES ASSUME ~dropped, NEW r \in Repos \ remade, NEW i \in 1 .. 3,
                      Dir(r, Subs[i]) \in dirs
               PROVE  Covered(r, i)'
    BY <1>1 DEF AllCovered
  <2>1. Dir(r, Subs[i]) \in watched \/ Queued(r) \/ Missed(r, i)
    BY <1>1 DEF BlindInv, AllCovered, Covered
  <2>2. CASE r # h
    BY <1>1, <1>4, <2>1, <2>2 DEF Covered, Missed
  <2>3. CASE r = h
    <3>1. Dir(r, "own") \in dirs
      BY SubFacts DEF BlindInv, Nested
    <3>2. h \in Present
      BY <2>3, <3>1 DEF Present
    <3> QED
      BY <1>1, <2>3, <3>2 DEF Covered
  <2> QED
    BY <2>2, <2>3
<1> QED
  BY <1>5, <1>6 DEF BlindInv

(* Attaching to one directory.                                             *)
LEMMA BlindAttach ==
    ASSUME BlindInv,
           AttachNext("attach", "track") \/ AttachNext("handle", "idle")
    PROVE  BlindInv'
<1>1. /\ pc \in {"attach", "handle"} /\ Attach(Dir(repo, Subs[sub]))
      /\ UNCHANGED <<todo, repo, queue, dropped, remade, dirs>>
      /\ \/ sub < 3 /\ sub' = sub + 1 /\ pc' = pc
         \/ ~(sub < 3) /\ sub' = 1 /\ pc' = (IF pc = "attach" THEN "track" ELSE "idle")
  BY SubFacts DEF AttachNext, hubVars, Go
<1>2. sub \in 1 .. 3 /\ Subs[sub] \in SubSet
  BY SubFacts DEF BlindInv, LoopTypes
<1>3. /\ watched \subseteq watched'
      /\ \A d : d \in known' => d \in known \/ d \in watched'
      /\ Dir(repo, Subs[sub]) \in dirs =>
            \/ Dir(repo, Subs[sub]) \in watched' \/ Dir(repo, Subs[sub]) \in known
            \/ Dir(repo, Subs[sub]) \in missed'
      /\ \A d : d \in missed /\ d \notin missed' => d = Dir(repo, Subs[sub])
  BY <1>1 DEF Attach
<1>4. LoopTypes' /\ Nested' /\ HubFirst' /\ KnownWatched'
  BY <1>1, <1>2, <1>3 DEF BlindInv, LoopTypes, Nested, HubFirst, KnownWatched, Pcs
<1>5. AllCovered'
  <2> SUFFICES ASSUME ~dropped, NEW r \in Repos \ remade, NEW i \in 1 .. 3,
                      Dir(r, Subs[i]) \in dirs
               PROVE  Covered(r, i)'
    BY <1>1 DEF AllCovered
  <2>1. Covered(r, i)
    BY <1>1 DEF BlindInv, AllCovered
  <2>2. Queued(r) => Queued(r)'
    BY <1>1 DEF Queued
  <2>3. CASE r = repo /\ i = sub
    <3>1. Dir(r, Subs[i]) \in known => Dir(r, Subs[i]) \in watched
      BY <1>2, <2>3 DEF BlindInv, KnownWatched
    <3>2. Dir(r, Subs[i]) \in watched' \/ Dir(r, Subs[i]) \in missed'
      BY <1>3, <2>3, <3>1
    <3> QED
      BY <3>2 DEF Covered, Missed
  <2>4. CASE ~(r = repo /\ i = sub)
    <3>1. CASE Dir(r, Subs[i]) \in missed
      <4>1. Dir(r, Subs[i]) # Dir(repo, Subs[sub])
        BY <1>2, <2>4, DirFacts, SubFacts
      <4> QED
        BY <1>3, <3>1, <4>1 DEF Covered, Missed
    <3>2. CASE Dir(r, "own") \in missed
      <4>1. CASE Dir(r, "own") \in missed'
        BY <4>1 DEF Covered, Missed
      <4>2. CASE Dir(r, "own") \notin missed'
        <5>1. r = repo /\ sub = 1
          BY <1>2, <1>3, <3>2, <4>2, DirFacts, SubFacts
        <5> QED
          BY <1>1, <2>4, <5>1 DEF Covered
      <4> QED
        BY <4>1, <4>2
    <3>3. CASE ~Missed(r, i)
      BY <1>1, <1>2, <1>3, <2>1, <2>2, <2>4, <3>3 DEF Covered
    <3> QED
      BY <3>1, <3>2, <3>3 DEF Missed
  <2> QED
    BY <2>3, <2>4
<1> QED
  BY <1>4, <1>5 DEF BlindInv

(* Coming up: the hub directory is watched, listed, and walked over.       *)
LEMMA BlindListing == BlindInv /\ (Boot \/ WatchHub \/ ListHub \/ TrackNext) => BlindInv'
<1> SUFFICES ASSUME BlindInv, Boot \/ WatchHub \/ ListHub \/ TrackNext PROVE BlindInv'
  OBVIOUS
<1>1. CASE Boot
  BY <1>1 DEF Boot, Go, BlindInv, LoopTypes, Nested, HubFirst, KnownWatched,
              AllCovered, Pcs, hubVars, eventVars
<1>2. CASE WatchHub
  BY <1>2 DEF WatchHub, Go, BlindInv, LoopTypes, Nested, HubFirst, KnownWatched,
              AllCovered, Pcs, hubVars
<1>3. CASE ListHub
  <2>1. /\ pc = "list" /\ pc' = "track"
        /\ todo' = Present \/ \A r \in Present : Dir(r, "own") \in missed'
        /\ UNCHANGED <<dirs, queue, watched, dropped, remade, repo, sub, known>>
    BY <1>3 DEF ListHub, Go, hubVars, eventVars
  <2>2. LoopTypes' /\ Nested' /\ HubFirst' /\ KnownWatched'
    BY <2>1 DEF BlindInv, LoopTypes, Nested, HubFirst, KnownWatched, Pcs
  <2>3. AllCovered'
    <3> SUFFICES ASSUME NEW r \in Repos, NEW i \in 1 .. 3, Dir(r, Subs[i]) \in dirs
                 PROVE  Covered(r, i)'
      BY <2>1 DEF AllCovered
    <3>1. Dir(r, "own") \in dirs
      BY SubFacts DEF BlindInv, Nested
    <3> QED
      BY <2>1, <3>1 DEF Covered, Missed, Present
  <2> QED
    BY <2>2, <2>3 DEF BlindInv
<1>4. CASE TrackNext
  <2>1. /\ pc = "track" /\ pc' = "attach" /\ sub' = 1
        /\ repo' \in todo /\ todo' = todo \ {repo'}
        /\ UNCHANGED <<dirs, queue, watched, dropped, remade, missed, known>>
    BY <1>4 DEF TrackNext, Go, hubVars, eventVars
  <2>2. LoopTypes' /\ Nested' /\ HubFirst' /\ KnownWatched'
    BY <2>1 DEF BlindInv, LoopTypes, Nested, HubFirst, KnownWatched, Pcs
  <2>3. AllCovered'
    <3> SUFFICES ASSUME ~dropped, NEW r \in Repos \ remade, NEW i \in 1 .. 3,
                        Dir(r, Subs[i]) \in dirs
                 PROVE  Covered(r, i)'
      BY <2>1 DEF AllCovered
    <3>1. Covered(r, i)
      BY <2>1 DEF BlindInv, AllCovered
    <3>2. Queued(r) => Queued(r)'
      BY <2>1 DEF Queued
    <3> QED
      BY <2>1, <3>1, <3>2 DEF Covered, Missed
  <2> QED
    BY <2>2, <2>3 DEF BlindInv
<1> QED
  BY <1>1, <1>2, <1>3, <1>4

(* When the walk over the listed repositories is over, nothing is left     *)
(* that only the walk covered.                                             *)
LEMMA BlindFirstScan == BlindInv /\ FirstScan => BlindInv'
<1> SUFFICES ASSUME BlindInv, FirstScan PROVE BlindInv'
  OBVIOUS
<1>1. /\ pc = "track" /\ todo = {} /\ pc' \in {"firstscan", "idle"}
      /\ UNCHANGED <<dirs, queue, watched, dropped, remade, missed, repo, sub, known>>
  BY DEF FirstScan, BeginScan, Go, hubVars, eventVars
<1>2. LoopTypes' /\ Nested' /\ HubFirst' /\ KnownWatched'
  BY <1>1 DEF BlindInv, LoopTypes, Nested, HubFirst, KnownWatched, Pcs
<1>3. AllCovered'
  <2> SUFFICES ASSUME ~dropped, NEW r \in Repos \ remade, NEW i \in 1 .. 3,
                      Dir(r, Subs[i]) \in dirs
               PROVE  Covered(r, i)'
    BY <1>1 DEF AllCovered
  <2>1. Dir(r, Subs[i]) \in watched \/ Queued(r) \/ Missed(r, i)
    BY <1>1 DEF BlindInv, AllCovered, Covered
  <2> QED
    BY <1>1, <2>1 DEF Covered, Queued, Missed
<1> QED
  BY <1>2, <1>3 DEF BlindInv

(* BlindInv is inductive.                                                  *)
LEMMA BlindStep == BlindInv /\ [Next]_vars => BlindInv'
<1> SUFFICES ASSUME BlindInv, [Next]_vars PROVE BlindInv'
  OBVIOUS
<1>1. CASE \/ EndScan("firstscan", "idle") \/ EndScan("scan", "reprovide")
           \/ Reprovide \/ EndFlush \/ Flush \/ Rescan
  <2>1. /\ UNCHANGED <<dirs, watched, queue, dropped, remade, missed, known, sub>>
        /\ pc \in {"firstscan", "scan", "reprovide", "flush", "idle"}
        /\ pc' \in {"idle", "reprovide", "flush", "scan"}
    BY <1>1 DEF EndScan, Reprovide, EndFlush, Flush, Rescan, BeginScan, Go,
                hubVars, eventVars
  <2> QED
    BY <2>1, BlindAside DEF Walking, Pcs
<1>2. CASE \E r \in Repos, l \in {"firstscan", "scan", "flush"} : Visit(r, l)
  <2>1. /\ UNCHANGED <<dirs, watched, queue, dropped, remade, missed, known, sub,
                      pc>>
        /\ pc \in {"firstscan", "scan", "flush"}
    BY <1>2 DEF Visit, hubVars, eventVars
  <2> QED
    BY <2>1, BlindAside DEF Walking, Pcs
<1>3. CASE \/ \E r \in Repos : GrowDue(r)
           \/ BecomePublic \/ Join \/ Leave \/ Expire \/ UNCHANGED vars
  <2>1. UNCHANGED <<dirs, watched, queue, dropped, remade, missed, known, sub, pc,
                    repo, todo>>
    BY <1>3 DEF GrowDue, BecomePublic, Join, Leave, Expire, vars, hubVars,
                eventVars, loopVars
  <2> QED
    BY <2>1, BlindAside
<1> QED
  BY <1>1, <1>2, <1>3, BlindUser, BlindTake, BlindAttach, BlindListing,
     BlindFirstScan DEF Next, Work, Select

(* Whatever the order in which directories are made and listed, none that  *)
(* is part of a repository goes unwatched with nothing on its way to it,   *)
(* unless fw.Add failed for it or for the directory above it.              *)
THEOREM WatcherNotBlind == Spec => []NoBlindSpot
<1>1. BlindInv => NoBlindSpot
  BY SubFacts DEF BlindInv, AllCovered, Covered, Missed, Queued, NoBlindSpot
<1> QED
  BY <1>1, BlindInit, BlindStep, PTL DEF Spec

=============================================================================
