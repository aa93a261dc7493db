------------------------------- MODULE WsConn -------------------------------
(***************************************************************************)
(* One WebSocket connection (internal/ws/conn.go): a goroutine that reads  *)
(* (readPump), one that writes (writePump), a buffered channel between     *)
(* them, a debounce timer whose callbacks check the text and answer        *)
(* through the same channel, and Run, which waits for both pumps and then  *)
(* cleans up and leaves the hub.                                           *)
(*                                                                         *)
(* The mutex makes scheduleCheck and a callback's reading of pendingMsg    *)
(* one step each.  A check is numbered by its arrival, and so is the timer *)
(* it arms and the callback of that; text, language and client are left    *)
(* out.  Deadlines, keepalive and closing by the peer all come down to     *)
(* reads, or writes, that fail from some point on.                         *)
(***************************************************************************)
EXTENDS Integers, Sequences, FiniteSets

CONSTANTS
    Cap,       \* capacity of the send channel (64)
    MaxReads,  \* bound on the messages a client sends once it is let in
    MaxChecks, \* bound on the check messages among them
    MayFail    \* may the peer disappear and writes fail?

ASSUME WsConnAssumption ==
    /\ Cap \in Nat \ {0}
    /\ MaxReads \in Nat
    /\ MaxChecks \in Nat
    /\ MayFail \in BOOLEAN

Checks == 1..MaxChecks  \* the check messages, in the order they arrive

VARIABLES
    open,      \* does the socket still read and write?
    rpc,       \* readPump: what it does next
    rmsg,      \* readPump: the message safeSend holds
    wpc,       \* writePump: what it does next
    wmsg,      \* writePump: the message taken from the channel
    run,       \* Run and ServeWS: how far the shutdown has come
    ctxDone,   \* has cancel been called?
    chan,      \* the send channel
    armed,     \* the timers that will still fire
    pending,   \* pendingMsg: the newest check, 0 before the first
    cb,        \* the callbacks of the timers
    reads,     \* messages read after authentication
    verdict,   \* history: the outcome of the first message
    heard,     \* history: the frames the peer has received
    first,     \* history: the first of them
    overtaken, \* history: the checks succeeded before their timer had fired
    asked      \* history, per callback: the texts it has sent to LanguageTool

sockVars == <<open, wpc, wmsg>>
readVars == <<rpc, rmsg, reads, verdict>>
timerVars == <<armed, pending, cb>>
peerHistory == <<heard, first>>
checkHistory == <<overtaken, asked>>
histVars == <<peerHistory, checkHistory>>
vars == <<sockVars, readVars, run, ctxDone, chan, timerVars, histVars>>

-----------------------------------------------------------------------------
Frame(kind, seq) == [kind |-> kind, seq |-> seq]
Ack == Frame("ack", 0)
Refusal == Frame("error", 0)
Reply == Frame("reply", 0)   \* the pong, or the error of an unusable message
Answer(n) == {Frame("result", n), Frame("error", n)}
Nothing == Frame("none", 0)

Frames == {Ack, Refusal, Reply} \cup UNION {Answer(n) : n \in Checks}

CallbackAt(pc, seq, out) == [pc |-> pc, seq |-> seq, out |-> out]
CallbackIdle == CallbackAt("idle", 0, Nothing)

Init ==
    /\ open = TRUE
    /\ rpc = "auth" /\ rmsg = Nothing
    /\ wpc = "select" /\ wmsg = Nothing
    /\ run = "running"
    /\ ctxDone = FALSE
    /\ chan = <<>>
    /\ armed = {}
    /\ pending = 0
    /\ cb = [k \in Checks |-> CallbackIdle]
    /\ reads = 0
    /\ verdict = "none"
    /\ heard = {}
    /\ first = Nothing
    /\ overtaken = {}
    /\ asked = [k \in Checks |-> <<>>]

-----------------------------------------------------------------------------
(* safeSend: wait for room in the channel or for the context to end.  On   *)
(* the closed channel the send panics and is recovered from; the channel   *)
(* is closed only after the context has ended.                             *)
SafeSendOrDrop(msg) ==   \* mutant: a default case, a full channel loses the message
    \/ run \in {"running", "stopped"} /\ Len(chan) < Cap /\ chan' = Append(chan, msg)
    \/ (ctxDone \/ Len(chan) = Cap) /\ UNCHANGED chan

SafeSend(msg) ==
    \/ run \in {"running", "stopped"} /\ Len(chan) < Cap /\ chan' = Append(chan, msg)
    \/ ctxDone /\ UNCHANGED chan

-----------------------------------------------------------------------------
(* readPump.                                                               *)

Reading == rpc \in {"auth", "loop"}

(* A failing read, or the return after a refusal, runs the deferred cancel.*)
ReadPumpReturns ==
    /\ rpc = "return" \/ (Reading /\ ~open)
    /\ rpc' = "done"
    /\ ctxDone' = TRUE
    /\ UNCHANGED <<sockVars, rmsg, run, chan, timerVars, reads, verdict, histVars>>

(* The first message must carry the key.                                   *)
ReadAuthGoesOn ==   \* mutant: no return after the refusal
    /\ rpc = "auth" /\ open
    /\ \/ rpc' = "sendThenLoop" /\ rmsg' = Ack /\ verdict' = "ok"
       \/ rpc' = "sendThenLoop" /\ rmsg' = Refusal /\ verdict' = "refused"
    /\ UNCHANGED <<sockVars, run, ctxDone, chan, timerVars, reads, histVars>>

ReadAuth ==
    /\ rpc = "auth" /\ open
    /\ \/ rpc' = "sendThenLoop" /\ rmsg' = Ack /\ verdict' = "ok"
       \/ rpc' = "sendThenReturn" /\ rmsg' = Refusal /\ verdict' = "refused"
    /\ UNCHANGED <<sockVars, run, ctxDone, chan, timerVars, reads, histVars>>

ReadLoop ==
    /\ rpc = "loop" /\ open
    /\ reads < MaxReads
    /\ reads' = reads + 1

(* A ping, or a message that is refused.  A message of another type is     *)
(* skipped without a trace.                                                *)
ReadOther ==
    /\ ReadLoop
    /\ rpc' = "sendThenLoop"
    /\ rmsg' = Reply
    /\ UNCHANGED <<sockVars, run, ctxDone, chan, timerVars, verdict, histVars>>

(* A check: scheduleCheck makes it the pending one, stops the last timer,  *)
(* which does nothing if that has fired already, and arms a new one.       *)
NoStop(timers) == timers   \* mutant: the last timer is left running

Stop(timers) == timers \ {pending}

ReadCheck ==
    /\ ReadLoop
    /\ pending < MaxChecks
    /\ pending' = pending + 1
    /\ armed' = Stop(armed) \cup {pending + 1}
    /\ overtaken' = overtaken \cup armed
    /\ UNCHANGED <<sockVars, rpc, rmsg, run, ctxDone, chan, cb, verdict,
                   peerHistory, asked>>

ReadPumpSend ==
    /\ rpc \in {"sendThenLoop", "sendThenReturn"}
    /\ SafeSend(rmsg)
    /\ rpc' = IF rpc = "sendThenLoop" THEN "loop" ELSE "return"
    /\ rmsg' = Nothing
    /\ UNCHANGED <<sockVars, run, ctxDone, timerVars, reads, verdict, histVars>>

-----------------------------------------------------------------------------
(* The debounce timer, its callbacks and doCheck.                          *)

Fire(k) ==
    /\ k \in armed
    /\ armed' = armed \ {k}
    /\ cb' = [cb EXCEPT ![k] = CallbackAt("lock", 0, Nothing)]
    /\ UNCHANGED <<sockVars, readVars, run, ctxDone, chan, pending, histVars>>

(* The callback checks whatever is pending when it gets the mutex.         *)
CallbackLock(k) ==
    /\ cb[k].pc = "lock"
    /\ cb' = [cb EXCEPT ![k] = CallbackAt("look", pending, Nothing)]
    /\ UNCHANGED <<sockVars, readVars, run, ctxDone, chan, armed, pending, histVars>>

(* doCheck: the look-ups, of the text in the cache and of the word set,    *)
(* take their time.  A hit is the result; on a miss LanguageTool is called.*)
CallbackLooks(k) ==
    /\ cb[k].pc = "look"
    /\ \/ /\ cb' = [cb EXCEPT ![k] = CallbackAt("send", @.seq, Frame("result", @.seq))]
          /\ UNCHANGED asked
       \/ /\ cb' = [cb EXCEPT ![k] = CallbackAt("wait", @.seq, Nothing)]
          /\ asked' = [asked EXCEPT ![k] = Append(@, cb[k].seq)]
    /\ UNCHANGED <<sockVars, readVars, run, ctxDone, chan, armed, pending,
                   peerHistory, overtaken>>

(* LanguageTool returns a result or fails; after the end of the context    *)
(* the failure is not reported.                                            *)
CallbackReturns(k) ==
    /\ cb[k].pc = "wait"
    /\ \/ cb' = [cb EXCEPT ![k] = CallbackAt("send", @.seq, Frame("result", @.seq))]
       \/ /\ ~ctxDone
          /\ cb' = [cb EXCEPT ![k] = CallbackAt("send", @.seq, Frame("error", @.seq))]
       \/ ctxDone /\ cb' = [cb EXCEPT ![k] = CallbackIdle]
    /\ UNCHANGED <<sockVars, readVars, run, ctxDone, chan, armed, pending, histVars>>

CallbackSend(k) ==
    /\ cb[k].pc = "send"
    /\ SafeSend(cb[k].out)
    /\ cb' = [cb EXCEPT ![k] = CallbackIdle]
    /\ UNCHANGED <<sockVars, readVars, run, ctxDone, armed, pending, histVars>>

-----------------------------------------------------------------------------
(* writePump: select among the channel, the ping ticker and the context.   *)

WriterTakes ==
    /\ wpc = "select" /\ chan # <<>>
    /\ wpc' = "write"
    /\ wmsg' = Head(chan)
    /\ chan' = Tail(chan)
    /\ UNCHANGED <<open, readVars, run, ctxDone, timerVars, histVars>>

(* A frame written after the peer has gone is lost or makes the write fail.*)
WriterWrites ==
    /\ wpc = "write"
    /\ \/ /\ wpc' = "select"
          /\ heard' = IF open THEN heard \cup {wmsg} ELSE heard
          /\ first' = IF open /\ first = Nothing THEN wmsg ELSE first
       \/ MayFail /\ wpc' = "close" /\ UNCHANGED <<heard, first>>
    /\ wmsg' = Nothing
    /\ UNCHANGED <<open, readVars, run, ctxDone, chan, timerVars, checkHistory>>

(* A ping that is written changes nothing here.  Sooner or later it fails   *)
(* when the socket is gone.                                                *)
PingFails ==
    /\ MayFail
    /\ wpc = "select"
    /\ wpc' = "close"
    /\ UNCHANGED <<open, wmsg, readVars, run, ctxDone, chan, timerVars, histVars>>

WriterDeaf == FALSE /\ UNCHANGED vars   \* mutant: no ctx.Done case

WriterSeesCancel ==
    /\ wpc = "select" /\ ctxDone
    /\ wpc' = "close"
    /\ UNCHANGED <<open, wmsg, readVars, run, ctxDone, chan, timerVars, histVars>>

(* The deferred conn.Close: from here on the reads fail too.               *)
ReturnWithoutClose ==   \* mutant: no deferred conn.Close
    /\ wpc = "close"
    /\ wpc' = "done"
    /\ UNCHANGED <<open, wmsg, readVars, run, ctxDone, chan, timerVars, histVars>>

WritePumpReturns ==
    /\ wpc = "close"
    /\ wpc' = "done"
    /\ open' = FALSE
    /\ UNCHANGED <<wmsg, readVars, run, ctxDone, chan, timerVars, histVars>>

-----------------------------------------------------------------------------
(* Run and ServeWS: wait for both pumps, stop the timer, close the channel,*)
(* unregister.                                                             *)

CleanupKeepsTimer ==   \* mutant: no Stop in cleanup
    /\ run = "running" /\ rpc = "done" /\ wpc = "done"
    /\ run' = "stopped"
    /\ UNCHANGED <<sockVars, readVars, ctxDone, chan, timerVars, histVars>>

CleanupStops ==
    /\ run = "running" /\ rpc = "done" /\ wpc = "done"
    /\ run' = "stopped"
    /\ armed' = Stop(armed)
    /\ UNCHANGED <<sockVars, readVars, ctxDone, chan, pending, cb, histVars>>

CleanupCloses ==
    /\ run = "stopped"
    /\ run' = "closed"
    /\ UNCHANGED <<sockVars, readVars, ctxDone, chan, timerVars, histVars>>

Unregister ==
    /\ run = "closed"
    /\ run' = "gone"
    /\ UNCHANGED <<sockVars, readVars, ctxDone, chan, timerVars, histVars>>

-----------------------------------------------------------------------------
(* The environment: the peer closes, disappears or stays silent past a     *)
(* read deadline.                                                          *)
PeerFails ==
    /\ MayFail
    /\ open
    /\ open' = FALSE
    /\ UNCHANGED <<wpc, wmsg, readVars, run, ctxDone, chan, timerVars, histVars>>

-----------------------------------------------------------------------------
Client == ReadAuth \/ ReadOther \/ ReadCheck \/ PeerFails
ReadPump == ReadPumpReturns \/ ReadPumpSend
WritePump == \/ WriterTakes
             \/ WriterWrites
             \/ WriterSeesCancel
             \/ WritePumpReturns
Callback(k) == \/ CallbackLock(k)
               \/ CallbackLooks(k)
               \/ CallbackReturns(k)
               \/ CallbackSend(k)
Shutdown == CleanupStops \/ CleanupCloses \/ Unregister

Next ==
    \/ Client
    \/ ReadPump
    \/ WritePump
    \/ PingFails
    \/ \E k \in Checks : Fire(k) \/ Callback(k)
    \/ Shutdown

(* The runtime runs every goroutine that can go on, the timer fires and    *)
(* calls return or time out.  Senders that wait for a channel are served   *)
(* in the order they came, hence strong fairness for the sends.  A ping    *)
(* must fail only when the socket is gone.  The peer owes nothing: it may  *)
(* stay silent or leave.                                                   *)
Fairness ==
    /\ WF_vars(ReadPump)
    /\ SF_vars(ReadPumpSend)
    /\ WF_vars(WritePump)
    /\ WF_vars(~open /\ PingFails)
    /\ \A k \in Checks : /\ WF_vars(Fire(k))
                         /\ WF_vars(Callback(k))
                         /\ SF_vars(CallbackSend(k))
    /\ WF_vars(Shutdown)

Spec == Init /\ [][Next]_vars /\ Fairness

-----------------------------------------------------------------------------
(* TypeOK: the variables have their types; the context ends exactly when   *)
(* readPump returns, and once the cleanup has begun both pumps are gone    *)
(* and no timer is left that could start another check.                    *)
TypeOK ==
    /\ open \in BOOLEAN /\ ctxDone \in BOOLEAN
    /\ rpc \in {"auth", "sendThenLoop", "sendThenReturn", "loop", "return", "done"}
    /\ rmsg \in Frames \cup {Nothing}
    /\ wpc \in {"select", "write", "close", "done"}
    /\ wmsg \in Frames \cup {Nothing}
    /\ run \in {"running", "stopped", "closed", "gone"}
    /\ chan \in Seq(Frames) /\ Len(chan) <= Cap
    /\ reads \in 0..MaxReads
    /\ pending \in 0..MaxChecks
    /\ armed \subseteq {pending} \cap Checks
    /\ cb \in [Checks -> [pc : {"idle", "lock", "look", "wait", "send"},
                          seq : 0..MaxChecks, out : Frames \cup {Nothing}]]
    /\ verdict \in {"none", "ok", "refused"}
    /\ heard \subseteq Frames
    /\ first \in Frames \cup {Nothing}
    /\ overtaken \subseteq Checks
    /\ asked \in [Checks -> Seq(Checks)]
    /\ ctxDone <=> rpc = "done"
    /\ run # "running" => rpc = "done" /\ wpc = "done" /\ armed = {}

(* VerdictFirst: the first frame the peer receives is the ack or the       *)
(* refusal; a refused peer receives nothing else, never an ack, and none   *)
(* of its messages starts a check (conn.go:116).                           *)
VerdictFirst ==
    /\ first \in {Nothing, Ack, Refusal}
    /\ verdict # "ok" => heard \subseteq {Refusal} /\ pending = 0
    /\ first = Refusal => heard = {Refusal}

(* CallsEarned: the debounce saves calls to LanguageTool and never adds    *)
(* one (conn.go:211).  A text whose successor arrives before its timer has *)
(* fired costs none.  Every other timer leads to one call at most, of a    *)
(* text no older than its own: a callback that fired too early to be       *)
(* stopped may have the successor's text checked twice, but n texts never  *)
(* cost more than n calls.                                                 *)
CallsEarned ==
    \A k \in Checks :
        /\ Len(asked[k]) <= 1
        /\ \A i \in DOMAIN asked[k] : asked[k][i] >= k
        /\ k \in overtaken => asked[k] = <<>>

(* LastCheckAnswered: the newest check is answered, with a result or an    *)
(* error, unless a newer one arrives or the connection ends; no timer that *)
(* was stopped, or callback that ran early, swallows it.                   *)
Ending == ~open \/ rpc = "done" \/ wpc \in {"close", "done"}

LastCheckAnswered ==
    \A n \in Checks :
        pending = n ~> (pending # n \/ heard \cap Answer(n) # {} \/ Ending)

(* ShutdownCompletes: after cancel the connection leaves the hub, and all  *)
(* its callbacks end, even those that wait for room in the channel or send *)
(* on it once it is closed (conn.go:298).                                  *)
Quiet == armed = {} /\ \A k \in Checks : cb[k].pc = "idle"

ShutdownCompletes == ctxDone ~> (run = "gone" /\ Quiet)

(* HangupNoticed: a connection whose socket is gone, or whose writer gave  *)
(* up, leaves the hub, which tracks the active connections (hub.go:9).     *)
(* With a full channel readPump waits in safeSend for a writer that has    *)
(* left, and only readPump cancels the context: then it never leaves.      *)
HangupNoticed == (~open \/ wpc = "done") ~> run = "gone"

(* OnlyStuckStays: that is the only way to stay: the writer has left, the  *)
(* channel is full and readPump wants to send.  With room in the channel   *)
(* either pump's end brings the other one down (conn.go:170).              *)
Stuck ==
    /\ wpc = "done" /\ Len(chan) = Cap
    /\ rpc \in {"sendThenLoop", "sendThenReturn"}

OnlyStuckStays ==
    <>(~open \/ wpc = "done") => <>(run = "gone") \/ <>[]Stuck
=============================================================================
