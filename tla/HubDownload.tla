---------------------------- MODULE HubDownload ----------------------------
(***************************************************************************)
(* hfapi.Client.Download: one file of a revision copied from the Hub's     *)
(* response body, with no deadline for the whole.  A second goroutine, the *)
(* watchdog, looks every third of bodyIdleTimeout at the time of the last  *)
(* completed read and cancels the request when that is too long ago.       *)
(*                                                                         *)
(* Time is counted in units of the model; Pass lets one go by.  Goroutines *)
(* run when they can (the clock waits for a due tick, for a read that has  *)
(* something to return, for a cancelled read), a server that is alive      *)
(* sends its next piece within Gap, and a write to disk takes Slow at most.*)
(***************************************************************************)
EXTENDS Naturals

CONSTANTS
    Tick,   \* bodyIdleTimeout / 3
    Gap,    \* the longest silence of a server that is alive
    Slow,   \* the longest write to disk
    Size    \* the file's size, in pieces, as the Hub states it

bodyIdleTimeout == 3 * Tick

ASSUME TimeAssumption == /\ Tick \in Nat \ {0}
                         /\ Gap \in Nat /\ Slow \in Nat
                         /\ Gap <= bodyIdleTimeout /\ Slow <= bodyIdleTimeout
ASSUME SizeAssumption == Size \in Nat

VARIABLES
    copy,       \* io.Copy: "off", "reading", "writing", "copied", "failed",
                \* or "refused": Download reads the body of an error instead
    got,        \* pieces copied
    right,      \* and they are the file's
    body,       \* "open", "end" or "broken"
    ready,      \* a piece has arrived that was not read yet
    alive,      \* the server is
    lap,        \* time since the last piece was read, or since the headers
    age,        \* the same by the stamp the watchdog looks at
    phase,      \* time until the watchdog's next tick
    cancelled   \* the watchdog cancelled the request

hubVars == <<copy, got, right, body, ready, alive, lap, age, phase, cancelled>>

Copying == copy \in {"reading", "writing"}

HubInit == /\ copy = "off" /\ got = 0 /\ right = TRUE
           /\ body = "end" /\ ready = FALSE /\ alive = FALSE
           /\ lap = 0 /\ age = 0 /\ phase = Tick /\ cancelled = FALSE

(* All of this belongs to one call of Download and is gone after it.       *)
NoDownload == /\ copy' = "off" /\ got' = 0 /\ right' = TRUE
              /\ body' = "end" /\ ready' = FALSE /\ alive' = FALSE
              /\ lap' = 0 /\ age' = 0 /\ phase' = Tick /\ cancelled' = FALSE

(* The request fails: no connection, no TLS, no headers in time.           *)
RefuseDownload ==
    /\ copy = "off"
    /\ copy' = "failed"
    /\ UNCHANGED <<got, right, body, ready, alive, lap, age, phase, cancelled>>

(* The status is not 200: the first 4096 bytes of the body are read for    *)
(* the message, with no timeout, and before there is a watchdog.           *)
RefuseStatus ==
    /\ copy = "off"
    /\ copy' = "refused" /\ alive' = TRUE
    /\ UNCHANGED <<got, right, body, ready, lap, age, phase, cancelled>>

ErrorBody ==
    /\ copy = "refused" /\ alive
    /\ copy' = "failed"
    /\ UNCHANGED <<got, right, body, ready, alive, lap, age, phase, cancelled>>

(* The headers are in; the clock of the last read starts here.             *)
StartDownload ==
    /\ copy = "off"
    /\ copy' = "reading" /\ got' = 0 /\ right' = TRUE
    /\ body' = "open" /\ ready' = FALSE /\ alive' = TRUE
    /\ lap' = 0 /\ age' = 0 /\ phase' = Tick /\ cancelled' = FALSE

-----------------------------------------------------------------------------
(* The server and the network                                              *)

Arrive(r) == /\ Copying /\ body = "open" /\ alive /\ ~ready
             /\ ready' = TRUE /\ right' = (right /\ r)
             /\ UNCHANGED <<copy, got, body, alive, lap, age, phase, cancelled>>

EndBody(e) == /\ Copying /\ body = "open" /\ alive
              /\ body' = e
              /\ UNCHANGED <<copy, got, right, ready, alive, lap, age, phase, cancelled>>

FallSilent == /\ (Copying /\ body = "open") \/ copy = "refused"
              /\ alive /\ alive' = FALSE
              /\ UNCHANGED <<copy, got, right, body, ready, lap, age, phase, cancelled>>

-----------------------------------------------------------------------------
(* io.Copy over LimitReader(body, Size + 1), stamped by trackedReader      *)

(* Mutant: the stamp is set when the body is opened only.                  *)
StampReadNot ==
    /\ copy = "reading" /\ ready /\ got < Size + 1
    /\ copy' = "writing" /\ ready' = FALSE
    /\ lap' = 0
    /\ UNCHANGED <<got, right, body, alive, age, phase, cancelled>>

StampRead ==
    /\ copy = "reading" /\ ready /\ got < Size + 1
    /\ copy' = "writing" /\ ready' = FALSE
    /\ lap' = 0 /\ age' = 0
    /\ UNCHANGED <<got, right, body, alive, phase, cancelled>>

WritePiece ==
    /\ copy = "writing"
    /\ copy' = "reading" /\ got' = got + 1
    /\ UNCHANGED <<right, body, ready, alive, lap, age, phase, cancelled>>

(* The end of the body, or one piece over the size.                        *)
FinishCopy ==
    /\ copy = "reading"
    /\ (~ready /\ body = "end") \/ got = Size + 1
    /\ copy' = "copied"
    /\ UNCHANGED <<got, right, body, ready, alive, lap, age, phase, cancelled>>

(* The body breaks off, the request is cancelled, or the disk is full.     *)
FailCopy ==
    /\ \/ copy = "reading" /\ ~ready /\ body = "broken"
       \/ copy = "reading" /\ cancelled
       \/ copy = "writing"
    /\ copy' = "failed"
    /\ UNCHANGED <<got, right, body, ready, alive, lap, age, phase, cancelled>>

-----------------------------------------------------------------------------
(* The watchdog and the clock                                              *)

(* Mutant: the ticker's interval is the whole timeout.                     *)
WatchdogTickRare ==
    /\ Copying /\ phase = 0 /\ ~cancelled
    /\ phase' = bodyIdleTimeout /\ cancelled' = (age > bodyIdleTimeout)
    /\ UNCHANGED <<copy, got, right, body, ready, alive, lap, age>>

WatchdogTick ==
    /\ Copying /\ phase = 0 /\ ~cancelled
    /\ phase' = Tick /\ cancelled' = (age > bodyIdleTimeout)
    /\ UNCHANGED <<copy, got, right, body, ready, alive, lap, age>>

(* Nobody has anything to do but wait.                                     *)
Waiting ==
    \/ copy = "writing" /\ lap < Slow
    \/ /\ copy = "reading" /\ ~ready /\ body = "open" /\ ~cancelled
       /\ got < Size + 1

Pass == /\ Waiting
        /\ cancelled \/ phase > 0
        /\ alive /\ body = "open" /\ ~ready => lap < Gap
        /\ lap' = lap + 1 /\ age' = age + 1
        /\ phase' = IF cancelled THEN phase ELSE phase - 1
        /\ UNCHANGED <<copy, got, right, body, ready, alive, cancelled>>

HubWork == StampRead \/ WritePiece \/ FinishCopy \/ FailCopy \/ ErrorBody

HubNext == \/ NoDownload \/ RefuseDownload \/ RefuseStatus \/ StartDownload
           \/ \E r \in BOOLEAN : Arrive(r)
           \/ \E e \in {"end", "broken"} : EndBody(e)
           \/ FallSilent \/ HubWork \/ WatchdogTick \/ Pass

HubSpec == HubInit /\ [][HubNext]_hubVars

-----------------------------------------------------------------------------
(* hfapi.go: "the watchdog can tell a slow stream from a dead one".  A     *)
(* download is cancelled only when the server has fallen silent, however   *)
(* long it takes and however slow the disk within the two bounds.          *)
LiveStreamKept == cancelled => ~alive

(* "bodyIdleTimeout bounds silence from a streaming response body": no     *)
(* read of the file is left waiting longer than that and one interval of   *)
(* the ticker.  The read of an error's body, which no watchdog looks at,   *)
(* is not bounded (PullEnds).                                              *)
SilenceBounded == copy = "reading" => lap <= bodyIdleTimeout + Tick

=============================================================================
