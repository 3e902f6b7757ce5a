--------------------------- MODULE OtelDeadline ---------------------------
(***************************************************************************)
(* One call of CompanionAdapter.forward_otel: the request of the calling   *)
(* thread and the timer thread of companion/_otel.py that closes its       *)
(* socket when the deadline passes.                                        *)
(*                                                                         *)
(* The two threads share the lock, the expired flag and the lists of       *)
(* connections and sockets of _Deadline.  The caller's sections under the  *)
(* lock do nothing that blocks, so each is one step; the timer's is two,   *)
(* because the caller also reads `expired` without the lock.  The target   *)
(* is free to answer, to stop half way or to drip for ever.                *)
(***************************************************************************)
EXTENDS Naturals

VARIABLES
  stage,     \* where the calling thread is
  timer,     \* where the timer thread is
  cancelled, \* Timer.finished, set by cancel()
  expired,   \* _Deadline.expired
  watched,   \* the connection is in _connections
  recorded,  \* its socket is in _sockets
  attached,  \* connection.sock is the socket (not before connect; HTTP/1.0
             \* detaches it once the headers are read)
  sock,      \* the socket itself
  target,    \* how much of its answer the target has sent
  body,      \* what the caller holds of the body
  spoiled,   \* history: a read of the caller was ended by the timer
  outcome    \* how forward_otel ended

shared == <<cancelled, expired, watched, recorded>>
forwardVars == <<stage, timer, cancelled, expired, watched, recorded, attached, sock,
          target, body, spoiled, outcome>>

ForwardInit ==
  /\ stage = "start" /\ timer = "idle"
  /\ cancelled = FALSE /\ expired = FALSE
  /\ watched = FALSE /\ recorded = FALSE /\ attached = FALSE
  /\ sock = "none" /\ target = "silent" /\ body = "none"
  /\ spoiled = FALSE /\ outcome = "none"

(* The timer thread holds the lock while it closes the sockets. *)
LockFree == timer # "closing"

Goto(label) == stage' = label

-----------------------------------------------------------------------------
(* The calling thread. *)

(* The payload is not bytes, is too large, or a credential is missing. *)
Refuse ==
  /\ stage = "start"
  /\ Goto("done") /\ outcome' = "error"
  /\ UNCHANGED <<timer, shared, attached, sock, target, body, spoiled>>

StartTimer ==
  /\ stage = "start"
  /\ Goto("watch") /\ timer' = "waiting"
  /\ UNCHANGED <<shared, attached, sock, target, body, spoiled, outcome>>

(* deadline.watch, then the connection attempt begins. *)
Watch ==
  /\ stage = "watch" /\ LockFree
  /\ IF expired
     THEN Goto("failed") /\ UNCHANGED watched
     ELSE Goto("connecting") /\ watched' = TRUE
  /\ UNCHANGED <<timer, cancelled, expired, recorded, attached, sock, target,
                 body, spoiled, outcome>>

(* super().connect() without a proxy: the connect timeout ends it one way  *)
(* or the other, and no socket is within the timer's reach before it does. *)
Connect ==
  /\ stage = "connecting"
  /\ \/ Goto("connected") /\ attached' = TRUE /\ sock' = "open"
     \/ Goto("failed") /\ UNCHANGED <<attached, sock>>
  /\ UNCHANGED <<timer, shared, target, body, spoiled, outcome>>

(* super().connect() through a proxy: connection.sock is set, and the      *)
(* answer to CONNECT is read from it before connect() returns.  When the   *)
(* deadline passed before connection.sock was set, nobody will cut this    *)
(* read: only the connect timeout of each recv and the limits on the size  *)
(* of a header end it.                                                     *)
Dial ==
  /\ stage = "connecting"
  /\ Goto("tunnel") /\ attached' = TRUE /\ sock' = "open"
  /\ UNCHANGED <<timer, shared, target, body, spoiled, outcome>>

TunnelAnswered ==
  /\ stage = "tunnel" /\ sock = "open"
  /\ Goto("connected")
  /\ UNCHANGED <<timer, shared, attached, sock, target, body, spoiled, outcome>>

TunnelCut ==
  /\ stage = "tunnel" /\ sock = "cut"
  /\ Goto("connected") \/ Goto("failed")
  /\ spoiled' = TRUE
  /\ UNCHANGED <<timer, shared, attached, sock, target, body, outcome>>

(* connected() without its check. *)
ConnectedBlind ==
  /\ stage = "connected" /\ LockFree
  /\ Goto("headers") /\ recorded' = TRUE
  /\ UNCHANGED <<timer, cancelled, expired, watched, attached, sock, target,
                 body, spoiled, outcome>>

(* deadline.connected, and the close() of its except clause. *)
Connected ==
  /\ stage = "connected" /\ LockFree
  /\ IF expired
     THEN /\ Goto("failed") /\ attached' = FALSE /\ sock' = "closed"
          /\ UNCHANGED recorded
     ELSE /\ Goto("headers") /\ recorded' = TRUE
          /\ UNCHANGED <<attached, sock>>
  /\ UNCHANGED <<timer, cancelled, expired, watched, target, body, spoiled,
                 outcome>>

(* The status line and headers are read; an HTTP/1.0 answer detaches the   *)
(* socket from the connection.  A read cut off by the timer sees the end   *)
(* of the stream, which the header parser takes for the end of the         *)
(* headers, or a protocol error.                                           *)
ReadHeaders ==
  /\ stage = "headers"
  /\ \/ /\ target # "silent" /\ Goto("body")
        /\ attached' \in {attached, FALSE} /\ UNCHANGED spoiled
     \/ /\ sock = "cut" /\ spoiled' = TRUE
        /\ \/ Goto("body") /\ attached' = FALSE
           \/ Goto("failed") /\ UNCHANGED attached
  /\ UNCHANGED <<timer, shared, sock, target, body, outcome>>

(* A read fails for a reason of the target's: reset, read timeout, a       *)
(* status other than 200, a body over 1 MiB, a proxy that refuses.         *)
TargetFails ==
  /\ stage \in {"tunnel", "headers", "body"}
  /\ Goto("failed")
  /\ UNCHANGED <<timer, shared, attached, sock, target, body, spoiled, outcome>>

(* The body is read to what looks like its end: its own, or the end of the *)
(* stream after a cut, which a body without a length cannot tell apart.    *)
ReadBody ==
  /\ stage = "body"
  /\ \/ /\ target = "sent" /\ Goto("decode") /\ body' = "whole"
        /\ UNCHANGED spoiled
     \/ /\ sock = "cut" /\ spoiled' = TRUE
        /\ \/ Goto("decode") /\ body' = "part"
           \/ Goto("failed") /\ UNCHANGED body
  /\ UNCHANGED <<timer, shared, attached, sock, target, outcome>>

(* protobuf_response: the bytes may or may not be an acknowledgement; an   *)
(* empty or a shortened protobuf message can be.                           *)
Decode ==
  /\ stage = "decode"
  /\ Goto("check") \/ Goto("failed")
  /\ UNCHANGED <<timer, shared, attached, sock, target, body, spoiled, outcome>>

(* deadline.check() after the yield. *)
Check ==
  /\ stage = "check"
  /\ IF expired
     THEN Goto("failed") /\ UNCHANGED outcome
     ELSE Goto("finish") /\ outcome' = "returned"
  /\ UNCHANGED <<timer, shared, attached, sock, target, body, spoiled>>

(* except Exception: deadline.check(); raise *)
Except ==
  /\ stage = "failed"
  /\ Goto("finish")
  /\ outcome' = IF expired THEN "timeout" ELSE "error"
  /\ UNCHANGED <<timer, shared, attached, sock, target, body, spoiled>>

(* finish(): cancel, and join in the next step. *)
Cancel ==
  /\ stage = "finish"
  /\ Goto("join") /\ cancelled' = TRUE
  /\ UNCHANGED <<timer, expired, watched, recorded, attached, sock, target,
                 body, spoiled, outcome>>

(* finish() without the join. *)
JoinNot ==
  /\ stage = "join"
  /\ Goto("done")
  /\ sock' = IF sock = "none" THEN "none" ELSE "closed"
  /\ attached' = FALSE
  /\ UNCHANGED <<timer, shared, target, body, spoiled, outcome>>

(* The timer thread has ended; leaving the Session closes what is open. *)
Join ==
  /\ stage = "join" /\ timer = "ended"
  /\ Goto("done")
  /\ sock' = IF sock = "none" THEN "none" ELSE "closed"
  /\ attached' = FALSE
  /\ UNCHANGED <<timer, shared, target, body, spoiled, outcome>>

-----------------------------------------------------------------------------
(* The timer thread: Timer.run and _expire. *)

callerVars == <<stage, watched, recorded, attached, target, body, spoiled, outcome>>

(* The wait ends: the interval is over, or finished is set. *)
Wake ==
  /\ timer = "waiting"
  /\ timer' = "woken"
  /\ UNCHANGED <<callerVars, cancelled, expired, sock>>

(* if not self.finished.is_set() *)
Look ==
  /\ timer = "woken"
  /\ timer' = IF cancelled THEN "ended" ELSE "firing"
  /\ UNCHANGED <<callerVars, cancelled, expired, sock>>

(* _expire takes the lock and sets the flag before it touches a socket. *)
Mark ==
  /\ timer = "firing"
  /\ timer' = "closing" /\ expired' = TRUE
  /\ UNCHANGED <<callerVars, cancelled, sock>>

(* _connections alone loses a socket that HTTP/1.0 detached. *)
InReachOfConnection == watched /\ attached
InReach == recorded \/ (watched /\ attached)

(* close() without shutdown(): a read that holds the makefile goes on. *)
CloseOnly ==
  /\ timer = "closing"
  /\ timer' = "ended"
  /\ UNCHANGED <<callerVars, cancelled, expired, sock>>

(* Every socket in reach is shut down and closed; the lock is released. *)
CloseSockets ==
  /\ timer = "closing"
  /\ timer' = "ended"
  /\ sock' = IF sock = "open" /\ InReach THEN "cut" ELSE sock
  /\ UNCHANGED <<callerVars, cancelled, expired>>

(* The flag is set after the sockets are closed. *)
ExpireLate ==
  \/ /\ timer = "firing" /\ timer' = "closing"
     /\ sock' = IF sock = "open" /\ InReach THEN "cut" ELSE sock
     /\ UNCHANGED <<callerVars, cancelled, expired>>
  \/ /\ timer = "closing" /\ timer' = "ended" /\ expired' = TRUE
     /\ UNCHANGED <<callerVars, cancelled, sock>>

Expire == Mark \/ CloseSockets

-----------------------------------------------------------------------------
(* The target: it sends headers, then the rest, or neither.  It may drip   *)
(* bytes for ever without getting further.                                 *)
Target ==
  /\ stage \in {"headers", "body"} /\ sock = "open"
  /\ \/ target = "silent" /\ target' = "headers"
     \/ target = "headers" /\ target' = "sent"
  /\ UNCHANGED <<stage, timer, shared, attached, sock, body, spoiled, outcome>>

Done == stage = "done" /\ UNCHANGED forwardVars

Caller ==
  \/ Refuse \/ StartTimer \/ Watch \/ Connect \/ Dial \/ TunnelAnswered
  \/ TunnelCut \/ Connected
  \/ ReadHeaders \/ ReadBody \/ Decode \/ Check \/ Except \/ Cancel \/ Join
TimerThread == Wake \/ Look \/ Expire

ForwardNext == Caller \/ TargetFails \/ TimerThread \/ Target \/ Done

ForwardSpec == ForwardInit /\ [][ForwardNext]_forwardVars

(* Both threads are scheduled, the interval ends, and so do the connection *)
(* attempt and the answer to CONNECT (connect timeout, header limits);     *)
(* nothing is assumed of the target.                                       *)
ForwardFairSpec == ForwardSpec /\ WF_forwardVars(Caller) /\ WF_forwardVars(TimerThread)

-----------------------------------------------------------------------------
ForwardTypeOK ==
  /\ stage \in {"start", "watch", "connecting", "tunnel", "connected", "headers",
             "body", "decode", "check", "failed", "finish", "join", "done"}
  /\ timer \in {"idle", "waiting", "woken", "firing", "closing", "ended"}
  /\ cancelled \in BOOLEAN /\ expired \in BOOLEAN
  /\ watched \in BOOLEAN /\ recorded \in BOOLEAN /\ attached \in BOOLEAN
  /\ sock \in {"none", "open", "cut", "closed"}
  /\ target \in {"silent", "headers", "sent"}
  /\ body \in {"none", "part", "whole"}
  /\ spoiled \in BOOLEAN
  /\ recorded \/ attached => watched /\ sock # "none"
  /\ outcome \in {"none", "returned", "timeout", "error"}

(* Whatever the cut looked like to the reader (an end of file, a protocol  *)
(* error, a read error, even a well-formed acknowledgement), the caller of *)
(* forward_otel sees the deadline's Timeout and nothing else.              *)
StableOutcome == spoiled /\ outcome # "none" => outcome = "timeout"

(* No request goes on after forward_otel returned: the timer thread has    *)
(* ended or never began, and no socket is left open or merely cut.         *)
NothingAfterReturn ==
  stage = "done" => timer \in {"idle", "ended"} /\ sock \in {"none", "closed"}

(* Once _expire has run, no read of the target's answer is left on an open *)
(* socket, wherever the deadline fell: before, during or after the         *)
(* connection attempt, or after HTTP/1.0 let go of its socket.             *)
DeadlineReaches ==
  expired /\ LockFree /\ stage \in {"headers", "body"} => sock = "cut"

(* forward_otel ends, however slowly the target answers. *)
ForwardEnds == <>(stage = "done")
=============================================================================
