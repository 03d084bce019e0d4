------------------------- MODULE HubDownloadProofs -------------------------
(***************************************************************************)
(* The watchdog of a Hub download, for every timeout, gap and write time   *)
(* that TimeAssumption allows: it never cancels a live stream, and no read *)
(* waits longer than the timeout and one interval of its ticker.           *)
(***************************************************************************)
EXTENDS HubDownload, TLAPS

HubTypes ==
    /\ copy \in {"off", "refused", "reading", "writing", "copied", "failed"}
    /\ body \in {"open", "end", "broken"}
    /\ got \in Nat /\ lap \in Nat /\ age \in Nat
    /\ phase \in 0 .. Tick

(* The stamp the watchdog reads is the time of the last read; until it     *)
(* gives up, the stamp's age and the time to its next look add up to no    *)
(* more than the bound; and while the server lives, neither waiting for it *)
(* nor writing lets the stamp grow older than the timeout.  Nothing is     *)
(* cancelled before it starts.                                             *)
WatchInv ==
    /\ HubTypes
    /\ lap = age
    /\ Copying => lap <= bodyIdleTimeout + Tick
    /\ Copying /\ ~cancelled => age + phase <= bodyIdleTimeout + Tick
    /\ copy = "writing" => lap <= Slow
    /\ Copying /\ alive => age <= bodyIdleTimeout
    /\ alive \/ copy = "off" => ~cancelled

(* The stamp is true before the first read.                                *)
LEMMA WatchInit == HubInit => WatchInv
  BY TimeAssumption DEF HubInit, WatchInv, HubTypes, Copying, bodyIdleTimeout

(* Every step of the download, of the server, of the watchdog and of the   *)
(* clock preserves the invariant.                                          *)
LEMMA WatchStep == WatchInv /\ [HubNext]_hubVars => WatchInv'
<1> SUFFICES ASSUME WatchInv, [HubNext]_hubVars PROVE WatchInv'
  OBVIOUS
<1> USE TimeAssumption, SizeAssumption
        DEF WatchInv, HubTypes, Copying, bodyIdleTimeout
<1>1. CASE NoDownload
  BY <1>1 DEF NoDownload
<1>2. CASE RefuseDownload
  BY <1>2 DEF RefuseDownload
<1>14. CASE RefuseStatus \/ ErrorBody
  BY <1>14 DEF RefuseStatus, ErrorBody
<1>3. CASE StartDownload
  BY <1>3 DEF StartDownload
<1>4. CASE \E r \in BOOLEAN : Arrive(r)
  BY <1>4 DEF Arrive
<1>5. CASE \E e \in {"end", "broken"} : EndBody(e)
  BY <1>5 DEF EndBody
<1>6. CASE FallSilent
  BY <1>6 DEF FallSilent
<1>7. CASE StampRead
  BY <1>7 DEF StampRead
<1>8. CASE WritePiece
  BY <1>8 DEF WritePiece
<1>9. CASE FinishCopy
  BY <1>9 DEF FinishCopy
<1>10. CASE FailCopy
  BY <1>10 DEF FailCopy
<1>11. CASE WatchdogTick
  <2>1. cancelled' <=> age > bodyIdleTimeout
    BY <1>11, Zenon DEF WatchdogTick
  <2>2. /\ Copying /\ phase' = Tick /\ ~cancelled
        /\ UNCHANGED <<copy, got, body, alive, lap, age>>
    BY <1>11, Zenon DEF WatchdogTick
  <2>3. CASE age > bodyIdleTimeout
    <3>1. ~alive
      BY <2>2, <2>3
    <3> QED
      BY <2>1, <2>2, <2>3, <3>1
  <2>4. CASE ~(age > bodyIdleTimeout)
    BY <2>1, <2>2, <2>4
  <2> QED
    BY <2>3, <2>4
<1>12. CASE Pass
  <2>1. CASE copy = "writing"
    BY <1>12, <2>1 DEF Pass, Waiting
  <2>2. CASE copy = "reading"
    BY <1>12, <2>2 DEF Pass, Waiting
  <2> QED
    BY <1>12, <2>1, <2>2 DEF Pass, Waiting
<1>13. CASE UNCHANGED hubVars
  BY <1>13 DEF hubVars
<1> QED
  BY <1>1, <1>2, <1>3, <1>4, <1>5, <1>6, <1>7, <1>8, <1>9, <1>10, <1>11,
     <1>12, <1>13, <1>14 DEF HubNext, HubWork

(* The invariant holds of a download by itself.                            *)
THEOREM WatchSafe == HubSpec => []WatchInv
  BY WatchInit, WatchStep, PTL DEF HubSpec

(* It says what the two properties say.                                    *)
LEMMA WatchImplies == WatchInv => LiveStreamKept /\ SilenceBounded
  BY TimeAssumption
  DEF WatchInv, HubTypes, Copying, LiveStreamKept, SilenceBounded, bodyIdleTimeout

(* A download is cancelled only when the server has fallen silent.         *)
THEOREM NeverCutsLiveStream == HubSpec => []LiveStreamKept
  BY WatchSafe, WatchImplies, PTL

(* No read is left waiting longer than the timeout and one interval.       *)
THEOREM BoundsSilence == HubSpec => []SilenceBounded
  BY WatchSafe, WatchImplies, PTL

=============================================================================
