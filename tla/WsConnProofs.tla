---------------------------- MODULE WsConnProofs ----------------------------
(* Safety proofs about WsConn, for a channel of any capacity and any number *)
(* of messages, with and without failures.                                  *)
EXTENDS WsConn, TLAPS

USE WsConnAssumption DEF WsConnAssumption

-----------------------------------------------------------------------------
(* Type correctness.  What a goroutine holds is a frame when it is about to *)
(* send or to write it: that keeps the channel a channel of frames.         *)
Holding ==
  /\ rpc \in {"sendThenLoop", "sendThenReturn"} => rmsg \in Frames
  /\ wpc = "write" => wmsg \in Frames
  /\ \A k \in Checks :
       /\ cb[k].pc # "idle" => pending # 0
       /\ cb[k].pc \in {"look", "wait", "send"} => cb[k].seq \in Checks
       /\ cb[k].pc = "send" => cb[k].out \in Frames

CallbackState ==
  [pc : {"idle", "lock", "look", "wait", "send"}, seq : 0..MaxChecks, out : Frames \cup {Nothing}]

TypeInv == TypeOK /\ Holding

LEMMA FramesOf ==
  /\ Ack \in Frames /\ Refusal \in Frames /\ Reply \in Frames
  /\ \A n \in Checks : Answer(n) \subseteq Frames
  BY DEF Frames

LEMMA CallbackType ==
  ASSUME NEW pc \in {"idle", "lock", "look", "wait", "send"}, NEW seq \in 0..MaxChecks,
         NEW out \in Frames \cup {Nothing}
  PROVE  /\ CallbackAt(pc, seq, out) \in CallbackState
         /\ CallbackAt(pc, seq, out).pc = pc
         /\ CallbackAt(pc, seq, out).seq = seq
         /\ CallbackAt(pc, seq, out).out = out
  BY DEF CallbackAt, CallbackState

LEMMA TypeInit == Init => TypeInv
<1> SUFFICES ASSUME Init PROVE TypeInv
  OBVIOUS
<1>1. CallbackIdle \in CallbackState /\ CallbackIdle.pc = "idle"
  BY CallbackType DEF CallbackIdle
<1>2. cb \in [Checks -> CallbackState] /\ \A k \in Checks : cb[k].pc = "idle"
  BY <1>1 DEF Init
<1>3. asked \in [Checks -> Seq(Checks)] /\ overtaken \subseteq Checks
  BY DEF Init
<1>4. chan \in Seq(Frames) /\ Len(chan) <= Cap
  BY DEF Init
<1>5. 0 \in 0..MaxChecks /\ Nothing \in Frames \cup {Nothing} /\ {} \subseteq Frames
  OBVIOUS
<1>6. TypeOK
  <2>1. reads \in 0..MaxReads /\ pending \in 0..MaxChecks
    BY DEF Init
  <2>2. rmsg \in Frames \cup {Nothing} /\ wmsg \in Frames \cup {Nothing}
        /\ first \in Frames \cup {Nothing} /\ heard \subseteq Frames
    BY <1>5 DEF Init
  <2>3. /\ open \in BOOLEAN /\ ctxDone \in BOOLEAN /\ armed = {}
        /\ rpc = "auth" /\ wpc = "select" /\ run = "running"
        /\ ctxDone = FALSE /\ verdict = "none"
    BY DEF Init
  <2> QED BY <1>2, <1>3, <1>4, <2>1, <2>2, <2>3 DEF TypeOK, CallbackState
<1>7. Holding
  BY <1>2 DEF Init, Holding
<1> QED BY <1>6, <1>7 DEF TypeInv

(* What safeSend leaves in the channel.                                     *)
LEMMA Sends ==
  ASSUME TypeOK, NEW msg \in Frames, SafeSend(msg)
  PROVE  chan' \in Seq(Frames) /\ Len(chan') <= Cap
<1>1. chan \in Seq(Frames) /\ Len(chan) <= Cap /\ Len(chan) \in Nat
  BY DEF TypeOK
<1>2. CASE Len(chan) < Cap /\ chan' = Append(chan, msg)
  <2>1. Append(chan, msg) \in Seq(Frames) /\ Len(Append(chan, msg)) = Len(chan) + 1
    BY <1>1
  <2> QED BY <1>1, <1>2, <2>1
<1> QED BY <1>1, <1>2 DEF SafeSend

(* One callback goes on.                                                    *)
LEMMA CallbackMoves ==
  ASSUME TypeInv, NEW k \in Checks, NEW s \in CallbackState, cb' = [cb EXCEPT ![k] = s],
         pending' = pending, s.pc # "idle" => pending # 0,
         s.pc \in {"look", "wait", "send"} => s.seq \in Checks,
         s.pc = "send" => s.out \in Frames
  PROVE  /\ cb' \in [Checks -> CallbackState]
         /\ \A j \in Checks :
              /\ cb'[j].pc # "idle" => pending' # 0
              /\ cb'[j].pc \in {"look", "wait", "send"} => cb'[j].seq \in Checks
              /\ cb'[j].pc = "send" => cb'[j].out \in Frames
<1>1. cb \in [Checks -> CallbackState]
  BY DEF TypeInv, TypeOK, CallbackState
<1>2. /\ cb' \in [Checks -> CallbackState] /\ cb'[k] = s
      /\ \A j \in Checks : j # k => cb'[j] = cb[j]
  BY <1>1
<1> QED BY <1>2 DEF TypeInv, Holding

LEMMA TypeStep == TypeInv /\ [Next]_vars => TypeInv'
<1> SUFFICES ASSUME TypeInv, [Next]_vars PROVE TypeInv'
  OBVIOUS
<1> USE DEF sockVars, readVars, timerVars, histVars, peerHistory, checkHistory
<1>0. TypeOK /\ Holding
  BY DEF TypeInv
<1>t. TypeOK' /\ Holding' => TypeInv'
  BY DEF TypeInv
<1>1. CASE Client
  <2>1. CASE ReadAuth
    BY <1>0, <1>t, <2>1, FramesOf DEF TypeOK, Holding, ReadAuth
  <2>2. CASE ReadOther
    BY <1>0, <1>t, <2>2, FramesOf DEF TypeOK, Holding, ReadOther, ReadLoop
  <2>3. CASE ReadCheck
    <3>1. /\ pending' = pending + 1 /\ pending \in 0..MaxChecks /\ pending < MaxChecks
          /\ armed \subseteq {pending} \cap Checks
          /\ armed' = Stop(armed) \cup {pending + 1} /\ overtaken' = overtaken \cup armed
      BY <1>0, <2>3 DEF TypeOK, ReadCheck, ReadLoop
    <3>2. pending' \in 0..MaxChecks /\ pending' # 0 /\ pending' \in Checks
      BY <3>1 DEF Checks
    <3>3. armed' \subseteq {pending'} \cap Checks
      BY <3>1, <3>2 DEF Stop
    <3>4. overtaken' \subseteq Checks
      BY <1>0, <3>1 DEF TypeOK
    <3>5. reads' \in 0..MaxReads
      BY <1>0, <2>3 DEF TypeOK, ReadCheck, ReadLoop
    <3>6. rpc = "loop" /\ UNCHANGED <<rpc, wpc, run>>
      BY <2>3 DEF ReadCheck, ReadLoop
    <3>7. run' # "running" => rpc' = "done" /\ wpc' = "done" /\ armed' = {}
      BY <1>0, <3>6 DEF TypeOK
    <3>8. Holding'
      BY <1>0, <2>3, <3>2 DEF Holding, ReadCheck
    <3>9. TypeOK'
      BY <1>0, <2>3, <3>2, <3>3, <3>4, <3>5, <3>7 DEF TypeOK, ReadCheck
    <3> QED BY <1>t, <3>8, <3>9
  <2>4. CASE PeerFails
    <3>1. TypeOK'
      <4>1. open' \in BOOLEAN
        BY <2>4 DEF PeerFails
      <4>2. UNCHANGED <<rpc, rmsg, reads, verdict, wpc, wmsg, run, ctxDone, chan, armed,
                        pending, cb, heard, first, overtaken, asked>>
        BY <2>4 DEF PeerFails
      <4> QED BY <1>0, <4>1, <4>2 DEF TypeOK
    <3>2. Holding'
      BY <1>0, <2>4 DEF Holding, PeerFails
    <3> QED BY <1>t, <3>1, <3>2
  <2> QED BY <1>1, <2>1, <2>2, <2>3, <2>4 DEF Client
<1>2. CASE ReadPump
  <2>1. CASE ReadPumpReturns
    BY <1>0, <1>t, <2>1 DEF TypeOK, Holding, ReadPumpReturns, Reading
  <2>2. CASE ReadPumpSend
    <3>1. chan' \in Seq(Frames) /\ Len(chan') <= Cap
      BY <1>0, <1>t, <2>2, Sends DEF Holding, ReadPumpSend
    <3> QED BY <1>0, <1>t, <2>2, <3>1 DEF TypeOK, Holding, ReadPumpSend
  <2> QED BY <1>2, <2>1, <2>2 DEF ReadPump
<1>3. CASE WritePump \/ PingFails
  <2>1. CASE WriterTakes
    <3>1. Head(chan) \in Frames /\ Tail(chan) \in Seq(Frames) /\ Len(Tail(chan)) <= Cap
      BY <1>0, <1>t, <2>1 DEF WriterTakes, TypeOK
    <3> QED BY <1>0, <1>t, <2>1, <3>1 DEF TypeOK, Holding, WriterTakes
  <2>2. CASE WriterWrites
    BY <1>0, <1>t, <2>2 DEF TypeOK, Holding, WriterWrites
  <2>3. CASE WriterSeesCancel \/ PingFails
    BY <1>0, <1>t, <2>3 DEF TypeOK, Holding, WriterSeesCancel, PingFails
  <2>4. CASE WritePumpReturns
    BY <1>0, <1>t, <2>4 DEF TypeOK, Holding, WritePumpReturns
  <2> QED BY <1>3, <2>1, <2>2, <2>3, <2>4 DEF WritePump
<1>4. ASSUME NEW k \in Checks, Fire(k) PROVE TypeInv'
  <2>1. PICK s : s = CallbackAt("lock", 0, Nothing)
    OBVIOUS
  <2>2. s \in CallbackState /\ s.pc = "lock"
    BY <2>1, CallbackType
  <2>3. cb' = [cb EXCEPT ![k] = s] /\ pending' = pending /\ pending # 0
    <3>1. k = pending /\ k # 0
      BY <1>0, <1>4 DEF Fire, TypeOK, Checks
    <3> QED BY <1>4, <2>1, <3>1 DEF Fire
  <2>4. /\ cb' \in [Checks -> CallbackState]
        /\ \A j \in Checks :
             /\ cb'[j].pc # "idle" => pending' # 0
             /\ cb'[j].pc \in {"look", "wait", "send"} => cb'[j].seq \in Checks
             /\ cb'[j].pc = "send" => cb'[j].out \in Frames
    BY <2>2, <2>3, CallbackMoves
  <2> QED BY <1>0, <1>t, <1>4, <2>4 DEF TypeOK, Holding, Fire, CallbackState
<1>5. ASSUME NEW k \in Checks, Callback(k) PROVE TypeInv'
  <2>0. cb[k] \in CallbackState /\ pending \in 0..MaxChecks
    BY <1>0 DEF TypeOK, CallbackState
  <2>1. CASE CallbackLock(k)
    <3>1. PICK s : s = CallbackAt("look", pending, Nothing)
      OBVIOUS
    <3>2. s \in CallbackState /\ s.pc = "look" /\ s.seq = pending
      BY <2>0, <3>1, CallbackType
    <3>3. pending # 0 /\ pending \in Checks
      BY <1>0, <2>0, <2>1 DEF CallbackLock, Holding, Checks
    <3>4. cb' = [cb EXCEPT ![k] = s] /\ pending' = pending
      BY <2>1, <3>1 DEF CallbackLock
    <3>5. /\ cb' \in [Checks -> CallbackState]
          /\ \A j \in Checks :
               /\ cb'[j].pc # "idle" => pending' # 0
               /\ cb'[j].pc \in {"look", "wait", "send"} => cb'[j].seq \in Checks
               /\ cb'[j].pc = "send" => cb'[j].out \in Frames
      BY <3>2, <3>3, <3>4, CallbackMoves
    <3> QED BY <1>0, <1>t, <2>1, <3>5 DEF TypeOK, Holding, CallbackLock, CallbackState
  <2>2. CASE CallbackLooks(k)
    <3>1. cb[k].seq \in Checks /\ cb[k].seq \in 0..MaxChecks /\ pending # 0
      BY <1>0, <2>2, <2>0 DEF CallbackLooks, Holding, CallbackState
    <3>2. PICK pc \in {"wait", "send"}, out \in Frames \cup {Nothing} :
            /\ cb' = [cb EXCEPT ![k] = CallbackAt(pc, cb[k].seq, out)]
            /\ pc = "send" => out \in Frames
      BY <2>2, <3>1, FramesOf DEF CallbackLooks, Answer
    <3>3. PICK s : s = CallbackAt(pc, cb[k].seq, out)
      OBVIOUS
    <3>4. s \in CallbackState /\ s.pc = pc /\ s.seq = cb[k].seq /\ s.out = out
      BY <3>1, <3>2, <3>3, CallbackType
    <3>5. cb' = [cb EXCEPT ![k] = s] /\ pending' = pending
      BY <2>2, <3>2, <3>3 DEF CallbackLooks
    <3>6. /\ cb' \in [Checks -> CallbackState]
          /\ \A j \in Checks :
               /\ cb'[j].pc # "idle" => pending' # 0
               /\ cb'[j].pc \in {"look", "wait", "send"} => cb'[j].seq \in Checks
               /\ cb'[j].pc = "send" => cb'[j].out \in Frames
      BY <3>1, <3>2, <3>4, <3>5, CallbackMoves
    <3>7. asked' \in [Checks -> Seq(Checks)]
      <4>1. asked \in [Checks -> Seq(Checks)]
        BY <1>0 DEF TypeOK
      <4>2. CASE asked' = asked
        BY <4>1, <4>2
      <4>3. CASE asked' = [asked EXCEPT ![k] = Append(asked[k], cb[k].seq)]
        BY <3>1, <4>1, <4>3
      <4> QED BY <2>2, <4>2, <4>3 DEF CallbackLooks
    <3>8. TypeOK'
      BY <1>0, <2>2, <3>6, <3>7 DEF TypeOK, CallbackLooks, CallbackState
    <3>9. Holding'
      BY <1>0, <2>2, <3>6 DEF Holding, CallbackLooks
    <3> QED BY <1>t, <3>8, <3>9
  <2>3. CASE CallbackReturns(k)
    <3>1. cb[k].seq \in Checks /\ cb[k].seq \in 0..MaxChecks /\ pending # 0
      BY <1>0, <2>3, <2>0 DEF CallbackReturns, Holding, CallbackState
    <3>2. PICK s \in CallbackState :
            /\ cb' = [cb EXCEPT ![k] = s]
            /\ s.pc \in {"idle", "send"}
            /\ s.pc = "send" => s.seq \in Checks /\ s.out \in Frames
      <4>1. ASSUME NEW out \in Answer(cb[k].seq),
                   cb' = [cb EXCEPT ![k] = CallbackAt("send", cb[k].seq, out)]
            PROVE  \E s \in CallbackState :
                     /\ cb' = [cb EXCEPT ![k] = s]
                     /\ s.pc \in {"idle", "send"}
                     /\ s.pc = "send" => s.seq \in Checks /\ s.out \in Frames
        <5>1. out \in Frames
          BY <3>1, <4>1, FramesOf
        <5>2. PICK s : s = CallbackAt("send", cb[k].seq, out)
          OBVIOUS
        <5>3. s \in CallbackState /\ s.pc = "send" /\ s.seq = cb[k].seq /\ s.out = out
          BY <3>1, <5>1, <5>2, CallbackType
        <5> QED BY <3>1, <4>1, <5>1, <5>2, <5>3
      <4>2. ASSUME cb' = [cb EXCEPT ![k] = CallbackIdle]
            PROVE  \E s \in CallbackState :
                     /\ cb' = [cb EXCEPT ![k] = s]
                     /\ s.pc \in {"idle", "send"}
                     /\ s.pc = "send" => s.seq \in Checks /\ s.out \in Frames
        <5>1. PICK s : s = CallbackIdle
          OBVIOUS
        <5>2. s \in CallbackState /\ s.pc = "idle"
          BY <5>1, CallbackType DEF CallbackIdle
        <5> QED BY <4>2, <5>1, <5>2
      <4> QED BY <2>3, <4>1, <4>2 DEF CallbackReturns, Answer
    <3>3. /\ cb' \in [Checks -> CallbackState]
          /\ \A j \in Checks :
               /\ cb'[j].pc # "idle" => pending' # 0
               /\ cb'[j].pc \in {"look", "wait", "send"} => cb'[j].seq \in Checks
               /\ cb'[j].pc = "send" => cb'[j].out \in Frames
      <4>1. pending' = pending
        BY <2>3 DEF CallbackReturns
      <4> QED BY <3>1, <3>2, <4>1, CallbackMoves
    <3> QED BY <1>0, <1>t, <2>3, <3>3 DEF TypeOK, Holding, CallbackReturns, CallbackState
  <2>4. CASE CallbackSend(k)
    <3>1. chan' \in Seq(Frames) /\ Len(chan') <= Cap
      BY <1>0, <2>4, Sends DEF Holding, CallbackSend
    <3>2. PICK s \in CallbackState : s = CallbackIdle /\ s.pc = "idle"
      BY CallbackType DEF CallbackIdle
    <3>3. cb' = [cb EXCEPT ![k] = s] /\ pending' = pending
      BY <2>4, <3>2 DEF CallbackSend
    <3>4. /\ cb' \in [Checks -> CallbackState]
          /\ \A j \in Checks :
               /\ cb'[j].pc # "idle" => pending' # 0
               /\ cb'[j].pc \in {"look", "wait", "send"} => cb'[j].seq \in Checks
               /\ cb'[j].pc = "send" => cb'[j].out \in Frames
      BY <3>2, <3>3, CallbackMoves
    <3> QED BY <1>0, <1>t, <2>4, <3>1, <3>4 DEF TypeOK, Holding, CallbackSend, CallbackState
  <2> QED BY <1>5, <2>1, <2>2, <2>3, <2>4 DEF Callback
<1>6. CASE Shutdown
  <2>1. CASE CleanupStops
    <3>1. armed' = {}
      BY <1>0, <2>1 DEF TypeOK, CleanupStops, Stop
    <3> QED BY <1>0, <1>t, <2>1, <3>1 DEF TypeOK, Holding, CleanupStops
  <2>2. CASE CleanupCloses \/ Unregister
    BY <1>0, <1>t, <2>2 DEF TypeOK, Holding, CleanupCloses, Unregister
  <2> QED BY <1>6, <2>1, <2>2 DEF Shutdown
<1>7. CASE UNCHANGED vars
  BY <1>0, <1>t, <1>7 DEF TypeOK, Holding, vars
<1> QED BY <1>1, <1>2, <1>3, <1>4, <1>5, <1>6, <1>7 DEF Next

(* TypeCorrect: the variables keep their types, the context ends exactly   *)
(* when readPump returns, and the cleanup finds both pumps gone and leaves *)
(* no timer that could start another check.                                *)
THEOREM TypeCorrect == Spec => []TypeOK
<1>1. TypeInv => TypeOK
  BY DEF TypeInv
<1> QED BY <1>1, TypeInit, TypeStep, PTL DEF Spec

-----------------------------------------------------------------------------
(* The verdict comes first.  Before it nothing is sent and nothing is       *)
(* checked; a refusal is the only frame there is; an ack waits to be sent,  *)
(* is at the head of the channel, is being written or has been heard, until *)
(* the socket is gone.                                                      *)
AllAre(frames, f) == \A i \in 1..Len(frames) : frames[i] = f

Unjudged ==
  verdict = "none" =>
    /\ rpc \in {"auth", "done"} /\ pending = 0
    /\ chan = <<>> /\ wpc # "write" /\ heard = {} /\ first = Nothing

Refused ==
  verdict = "refused" =>
    /\ rpc \in {"sendThenReturn", "return", "done"} /\ pending = 0
    /\ rpc = "sendThenReturn" => rmsg = Refusal
    /\ AllAre(chan, Refusal)
    /\ wpc = "write" => wmsg = Refusal
    /\ heard \subseteq {Refusal} /\ first \in {Nothing, Refusal}
    /\ first = Refusal => heard = {Refusal}

AckAhead ==
  \/ rpc = "sendThenLoop" /\ rmsg = Ack /\ chan = <<>> /\ wpc # "write" /\ pending = 0
  \/ wpc = "select" /\ chan # <<>> /\ Head(chan) = Ack
  \/ wpc = "write" /\ wmsg = Ack

Deaf == ~open \/ wpc \in {"close", "done"}

Acked ==
  verdict = "ok" =>
    /\ rpc # "auth"
    /\ first = Ack \/ (first = Nothing /\ (Deaf \/ AckAhead))

AuthInv == Unjudged /\ Refused /\ Acked

LEMMA FrameKinds == Ack # Nothing /\ Refusal # Nothing /\ Ack # Refusal
  BY DEF Ack, Nothing, Refusal, Frame

LEMMA AuthInit == Init => AuthInv
  BY DEF Init, AuthInv, Unjudged, Refused, Acked

LEMMA AppendFacts ==
  ASSUME NEW s \in Seq(Frames), NEW m \in Frames
  PROVE  /\ Append(s, m) # <<>>
         /\ Head(Append(s, m)) = IF s = <<>> THEN m ELSE Head(s)
         /\ \A f : AllAre(s, f) /\ m = f => AllAre(Append(s, m), f)
<1>1. /\ Append(s, m) \in Seq(Frames) /\ Len(Append(s, m)) = Len(s) + 1
      /\ Append(s, m)[Len(s) + 1] = m
      /\ \A i \in 1..Len(s) : Append(s, m)[i] = s[i]
      /\ Len(s) \in Nat
  OBVIOUS
<1>2. Append(s, m) # <<>>
  BY <1>1
<1>3. s = <<>> => Len(s) = 0
  OBVIOUS
<1>4. s # <<>> => 1 \in 1..Len(s) /\ Head(s) = s[1]
  OBVIOUS
<1>5. Head(Append(s, m)) = Append(s, m)[1]
  BY <1>1, <1>2
<1>6. Head(Append(s, m)) = IF s = <<>> THEN m ELSE Head(s)
  BY <1>1, <1>3, <1>4, <1>5
<1>7. ASSUME NEW f, AllAre(s, f), m = f PROVE AllAre(Append(s, m), f)
  <2>1. ASSUME NEW i \in 1..Len(s) + 1 PROVE Append(s, m)[i] = f
    <3>1. i \in 1..Len(s) \/ i = Len(s) + 1
      BY <1>1
    <3> QED BY <1>1, <1>7, <3>1 DEF AllAre
  <2> QED BY <1>1, <2>1 DEF AllAre
<1> QED BY <1>2, <1>6, <1>7

LEMMA TailFacts ==
  ASSUME NEW s \in Seq(Frames), s # <<>>, NEW f, AllAre(s, f)
  PROVE  Head(s) = f /\ AllAre(Tail(s), f)
<1>1. /\ Head(s) = s[1] /\ Len(s) \in Nat /\ Len(s) >= 1
      /\ Len(Tail(s)) = Len(s) - 1
      /\ \A i \in 1..Len(s) - 1 : Tail(s)[i] = s[i + 1]
  OBVIOUS
<1>2. \A i \in 1..Len(s) - 1 : i + 1 \in 1..Len(s)
  BY <1>1
<1> QED BY <1>1, <1>2 DEF AllAre

(* A send by readPump or by a callback, while a verdict is on its way.      *)
LEMMA SendKeeps ==
  ASSUME TypeOK, NEW msg \in Frames, SafeSend(msg)
  PROVE  /\ AllAre(chan, Refusal) /\ msg = Refusal => AllAre(chan', Refusal)
         /\ chan # <<>> => chan' # <<>> /\ Head(chan') = Head(chan)
         /\ chan = <<>> /\ ~ctxDone => chan' # <<>> /\ Head(chan') = msg
<1>1. chan \in Seq(Frames)
  BY DEF TypeOK
<1>2. chan' = Append(chan, msg) \/ (ctxDone /\ chan' = chan)
  BY DEF SafeSend
<1> QED BY <1>1, <1>2, AppendFacts

LEMMA AuthStep == TypeInv /\ AuthInv /\ [Next]_vars => AuthInv'
<1> SUFFICES ASSUME TypeInv, AuthInv, [Next]_vars PROVE AuthInv'
  OBVIOUS
<1> USE FrameKinds DEF sockVars, readVars, timerVars, histVars, peerHistory, checkHistory
<1>0. TypeOK /\ Holding
  BY DEF TypeInv
<1>t. /\ verdict \in {"none", "ok", "refused"} /\ (ctxDone <=> rpc = "done")
      /\ chan \in Seq(Frames) /\ pending \in Nat
  BY <1>0 DEF TypeOK
<1>a. Unjudged /\ Refused /\ Acked
  BY DEF AuthInv
<1>i. pending = 0 => \A k \in Checks : cb[k].pc = "idle"
  BY <1>0 DEF Holding
<1>1. CASE ReadAuth
  <2>1. verdict = "none"
    BY <1>1, <1>a, <1>t DEF ReadAuth, Refused, Acked
  <2>2. AllAre(<<>>, Refusal)
    BY DEF AllAre
  <2> QED BY <1>1, <1>a, <2>1, <2>2
      DEF ReadAuth, AuthInv, Unjudged, Refused, Acked, AckAhead, Deaf
<1>2. CASE ReadOther
  BY <1>2, <1>t, <1>a DEF ReadOther, ReadLoop, AuthInv, Unjudged, Refused, Acked, AckAhead, Deaf
<1>3. CASE ReadCheck
  BY <1>3, <1>t, <1>a DEF ReadCheck, ReadLoop, AuthInv, Unjudged, Refused, Acked, AckAhead, Deaf
<1>4. CASE PeerFails
  BY <1>4, <1>a DEF PeerFails, AuthInv, Unjudged, Refused, Acked, AckAhead, Deaf
<1>5. CASE ReadPumpReturns
  BY <1>5, <1>a DEF ReadPumpReturns, Reading, AuthInv, Unjudged, Refused, Acked, AckAhead, Deaf
<1>6. CASE ReadPumpSend
  <2>1. rmsg \in Frames /\ SafeSend(rmsg) /\ ~ctxDone
    BY <1>0, <1>6, <1>t DEF ReadPumpSend, Holding
  <2>2. /\ AllAre(chan, Refusal) /\ rmsg = Refusal => AllAre(chan', Refusal)
        /\ chan # <<>> => chan' # <<>> /\ Head(chan') = Head(chan)
        /\ chan = <<>> => chan' # <<>> /\ Head(chan') = rmsg
    BY <1>0, <2>1, SendKeeps
  <2>3. wpc \in {"select", "write", "close", "done"}
    BY <1>0 DEF TypeOK
  <2> QED BY <1>6, <1>a, <2>2, <2>3
      DEF ReadPumpSend, AuthInv, Unjudged, Refused, Acked, AckAhead, Deaf
<1>7. CASE WriterTakes
  <2>1. AllAre(chan, Refusal) => Head(chan) = Refusal /\ AllAre(Tail(chan), Refusal)
    BY <1>7, <1>t, TailFacts DEF WriterTakes
  <2> QED BY <1>7, <1>a, <2>1
      DEF WriterTakes, AuthInv, Unjudged, Refused, Acked, AckAhead, Deaf
<1>8. CASE WriterWrites
  BY <1>8, <1>a DEF WriterWrites, AuthInv, Unjudged, Refused, Acked, AckAhead, Deaf
<1>9. CASE WriterSeesCancel \/ PingFails
  BY <1>9, <1>a
     DEF WriterSeesCancel, PingFails, AuthInv, Unjudged, Refused, Acked, AckAhead, Deaf
<1>10. CASE WritePumpReturns
  BY <1>10, <1>a DEF WritePumpReturns, AuthInv, Unjudged, Refused, Acked, AckAhead, Deaf
<1>11. ASSUME NEW k \in Checks, Fire(k) PROVE AuthInv'
  BY <1>11, <1>a DEF Fire, AuthInv, Unjudged, Refused, Acked, AckAhead, Deaf
<1>12. ASSUME NEW k \in Checks, CallbackLock(k) \/ CallbackLooks(k) \/ CallbackReturns(k)
      PROVE  AuthInv'
  BY <1>12, <1>a
     DEF CallbackLock, CallbackLooks, CallbackReturns, AuthInv, Unjudged, Refused, Acked, AckAhead, Deaf
<1>13. ASSUME NEW k \in Checks, CallbackSend(k) PROVE AuthInv'
  <2>1. cb[k].out \in Frames /\ SafeSend(cb[k].out) /\ pending # 0
    BY <1>0, <1>13 DEF CallbackSend, Holding
  <2>2. verdict = "ok"
    BY <1>a, <1>t, <2>1 DEF Unjudged, Refused
  <2>3. chan # <<>> => chan' # <<>> /\ Head(chan') = Head(chan)
    BY <1>0, <2>1, SendKeeps
  <2> QED BY <1>13, <1>a, <2>1, <2>2, <2>3
      DEF CallbackSend, AuthInv, Unjudged, Refused, Acked, AckAhead, Deaf
<1>14. CASE Shutdown
  BY <1>14, <1>a DEF Shutdown, CleanupStops, CleanupCloses, Unregister,
                     AuthInv, Unjudged, Refused, Acked, AckAhead, Deaf
<1>15. CASE UNCHANGED vars
  BY <1>15, <1>a DEF vars, AuthInv, Unjudged, Refused, Acked, AckAhead, Deaf
<1> QED BY <1>1, <1>2, <1>3, <1>4, <1>5, <1>6, <1>7, <1>8, <1>9, <1>10, <1>11, <1>12, <1>13,
           <1>14, <1>15 DEF Next, Client, ReadPump, WritePump, Callback

(* VerdictComesFirst: the first frame the peer receives is the ack or the  *)
(* refusal; a refused peer receives nothing else, and none of its messages *)
(* starts a check.                                                         *)
THEOREM VerdictComesFirst == Spec => []VerdictFirst
<1>1. TypeInv /\ AuthInv => VerdictFirst
  <2> SUFFICES ASSUME TypeInv, AuthInv PROVE VerdictFirst
    OBVIOUS
  <2>1. verdict \in {"none", "ok", "refused"}
    BY DEF TypeInv, TypeOK
  <2> QED BY <2>1, FrameKinds DEF AuthInv, Unjudged, Refused, Acked, VerdictFirst
<1> QED BY <1>1, TypeInit, TypeStep, AuthInit, AuthStep, PTL DEF Spec

-----------------------------------------------------------------------------
(* Every call is earned by a timer that has fired.  A check whose timer is  *)
(* armed, or was stopped, has had no callback; a callback picks the newest  *)
(* check, which is no older than its own, and calls once at most.           *)
Untouched(k) == cb[k].pc = "idle" /\ asked[k] = <<>>

Earned(k) ==
  /\ cb[k].pc \in {"lock", "look"} => asked[k] = <<>>
  /\ cb[k].pc # "idle" => k <= pending
  /\ cb[k].pc = "look" => cb[k].seq >= k
  /\ Len(asked[k]) <= 1
  /\ \A i \in 1..Len(asked[k]) : asked[k][i] >= k

CallsInv ==
  /\ \A k \in armed : Untouched(k)
  /\ \A k \in overtaken : k < pending /\ k \notin armed /\ Untouched(k)
  /\ \A k \in Checks : k > pending => Untouched(k)
  /\ \A k \in Checks : Earned(k)

LEMMA CallsInit == Init => CallsInv
<1> SUFFICES ASSUME Init PROVE CallsInv
  OBVIOUS
<1>1. \A k \in Checks : cb[k] = CallbackIdle /\ asked[k] = <<>>
  BY DEF Init
<1>2. CallbackIdle.pc = "idle" /\ Len(<<>>) = 0
  BY DEF CallbackIdle, CallbackAt
<1>3. \A k \in Checks : Untouched(k) /\ Earned(k)
  BY <1>1, <1>2 DEF Untouched, Earned
<1>4. armed = {} /\ overtaken = {}
  BY DEF Init
<1> QED BY <1>3, <1>4 DEF CallsInv

(* A callback goes from one state to another that is not idle.              *)
LEMMA CallsKept ==
  ASSUME TypeInv, CallsInv, NEW k \in Checks,
         armed' \subseteq armed, UNCHANGED <<pending, overtaken>>,
         cb' \in [Checks -> CallbackState], asked' \in [Checks -> Seq(Checks)],
         \A j \in Checks : j # k => cb'[j] = cb[j] /\ asked'[j] = asked[j],
         Earned(k)', cb'[k].pc # "idle" => k \notin armed', k <= pending,
         cb[k].pc # "idle" \/ k \in armed, asked'[k] # asked[k] => cb[k].pc # "idle"
  PROVE  CallsInv'
<1>0. pending \in Nat /\ armed \subseteq Checks /\ overtaken \subseteq Checks
      /\ \A j \in Checks : j \in Nat
  BY DEF TypeInv, TypeOK, Checks
<1>1. k \notin overtaken
  BY DEF CallsInv, Untouched
<1>2. \A j \in Checks : j # k => (Untouched(j) => Untouched(j)') /\ Earned(j)'
  BY DEF CallsInv, Untouched, Earned
<1>3. ASSUME NEW j \in armed' PROVE Untouched(j)'
  <2>1. j \in armed /\ Untouched(j)
    BY DEF CallsInv
  <2>2. CASE j = k
    <3>1. cb'[k].pc = "idle" /\ cb[k].pc = "idle" /\ asked'[k] = asked[k]
      BY <1>3, <2>1, <2>2 DEF Untouched
    <3> QED BY <2>1, <2>2, <3>1 DEF Untouched
  <2> QED BY <1>0, <1>2, <2>1, <2>2
<1>4. ASSUME NEW j \in overtaken' PROVE j < pending' /\ j \notin armed' /\ Untouched(j)'
  BY <1>0, <1>1, <1>2 DEF CallsInv
<1>5. ASSUME NEW j \in Checks, j > pending' PROVE Untouched(j)'
  BY <1>0, <1>2, <1>5 DEF CallsInv
<1> QED BY <1>2, <1>3, <1>4, <1>5 DEF CallsInv

LEMMA CallsStep == TypeInv /\ TypeInv' /\ CallsInv /\ [Next]_vars => CallsInv'
<1> SUFFICES ASSUME TypeInv, TypeInv', CallsInv, [Next]_vars PROVE CallsInv'
  OBVIOUS
<1> USE DEF sockVars, readVars, timerVars, histVars, peerHistory, checkHistory
<1>0. /\ pending \in Nat /\ overtaken \subseteq Checks /\ armed \subseteq {pending} \cap Checks
      /\ cb \in [Checks -> CallbackState] /\ cb' \in [Checks -> CallbackState]
      /\ asked \in [Checks -> Seq(Checks)] /\ asked' \in [Checks -> Seq(Checks)]
      /\ \A k \in Checks : k \in Nat
  <2>1. \A k \in Checks : k \in Nat
    BY DEF Checks
  <2>2. pending \in Nat /\ overtaken \subseteq Checks /\ armed \subseteq {pending} \cap Checks
    BY DEF TypeInv, TypeOK
  <2>3. cb \in [Checks -> CallbackState] /\ asked \in [Checks -> Seq(Checks)]
    BY DEF TypeInv, TypeOK, CallbackState
  <2>4. cb' \in [Checks -> CallbackState] /\ asked' \in [Checks -> Seq(Checks)]
    BY DEF TypeInv, TypeOK, CallbackState
  <2> QED BY <2>1, <2>2, <2>3, <2>4
<1>1. CASE ReadCheck
  <2>1. /\ pending' = pending + 1 /\ UNCHANGED <<cb, asked>>
        /\ armed' = Stop(armed) \cup {pending + 1} /\ overtaken' = overtaken \cup armed
    BY <1>1 DEF ReadCheck, ReadLoop
  <2>2. armed' = {pending + 1} /\ pending + 1 \in Checks
    <3>1. armed' \subseteq {pending'} \cap Checks
      BY DEF TypeInv, TypeOK
    <3> QED BY <1>0, <2>1, <3>1 DEF Stop
  <2>3. \A k \in Checks : (Untouched(k) => Untouched(k)') /\ Earned(k)'
    BY <1>0, <2>1 DEF CallsInv, Untouched, Earned
  <2>4. \A k \in armed' : Untouched(k)'
    BY <1>0, <2>2, <2>3 DEF CallsInv
  <2>5. \A k \in overtaken' : k < pending' /\ k \notin armed' /\ Untouched(k)'
    <3>1. ASSUME NEW k \in overtaken' PROVE k < pending' /\ k \in Checks /\ Untouched(k)
      <4>1. CASE k \in overtaken
        <5>1. k < pending /\ k \in Checks /\ Untouched(k)
          BY <1>0, <4>1 DEF CallsInv
        <5> QED BY <1>0, <2>1, <5>1
      <4>2. CASE k \in armed
        <5>1. k = pending /\ k \in Checks /\ Untouched(k)
          BY <1>0, <4>2 DEF CallsInv
        <5> QED BY <1>0, <2>1, <5>1
      <4> QED BY <2>1, <3>1, <4>1, <4>2
    <3> QED BY <1>0, <2>1, <2>2, <2>3, <3>1
  <2>6. \A k \in Checks : k > pending' => Untouched(k)'
    BY <1>0, <2>1, <2>3 DEF CallsInv
  <2> QED BY <2>3, <2>4, <2>5, <2>6 DEF CallsInv
<1>2. ASSUME NEW k \in Checks, Fire(k) PROVE CallsInv'
  <2>1. /\ cb'[k] = CallbackAt("lock", 0, Nothing) /\ k \in armed /\ k \notin armed'
        /\ armed' \subseteq armed /\ UNCHANGED <<pending, overtaken, asked>>
        /\ \A j \in Checks : j # k => cb'[j] = cb[j]
    BY <1>0, <1>2 DEF Fire
  <2>2. k = pending /\ asked[k] = <<>>
    BY <1>0, <2>1 DEF CallsInv, Untouched
  <2>3. Earned(k)'
    BY <1>0, <2>1, <2>2 DEF Earned, CallbackAt
  <2> QED BY <1>0, <2>1, <2>2, <2>3, CallsKept
<1>3. ASSUME NEW k \in Checks, Callback(k) PROVE CallsInv'
  <2>0. Earned(k) /\ UNCHANGED <<armed, pending, overtaken>>
    BY <1>3 DEF CallsInv, Callback, CallbackLock, CallbackLooks, CallbackReturns, CallbackSend
  <2>1. cb[k].pc # "idle" /\ k <= pending /\ k \notin armed
    <3>1. cb[k].pc # "idle"
      BY <1>3 DEF Callback, CallbackLock, CallbackLooks, CallbackReturns, CallbackSend
    <3> QED BY <2>0, <3>1 DEF Earned, CallsInv, Untouched
  <2>2. \A j \in Checks : j # k => cb'[j] = cb[j] /\ asked'[j] = asked[j]
    BY <1>0, <1>3 DEF Callback, CallbackLock, CallbackLooks, CallbackReturns, CallbackSend
  <2>3. CASE CallbackLock(k)
    <3>1. cb'[k] = CallbackAt("look", pending, Nothing) /\ asked' = asked /\ cb[k].pc = "lock"
      BY <1>0, <2>3 DEF CallbackLock
    <3>2. cb'[k].pc = "look" /\ cb'[k].seq = pending
      BY <3>1 DEF CallbackAt
    <3>3. Earned(k)'
      BY <1>0, <2>0, <2>1, <3>1, <3>2 DEF Earned
    <3> QED BY <1>0, <2>0, <2>1, <2>2, <3>3, CallsKept
  <2>4. CASE CallbackLooks(k)
    <3>1. cb[k].pc = "look" /\ asked[k] = <<>> /\ cb[k].seq >= k /\ cb[k].seq \in Checks
      BY <2>0, <2>4 DEF CallbackLooks, Earned, TypeInv, Holding
    <3>2. cb'[k].pc \in {"send", "wait"}
      BY <1>0, <2>4 DEF CallbackLooks, CallbackAt
    <3>3. asked'[k] = <<>> \/ asked'[k] = Append(asked[k], cb[k].seq)
      BY <1>0, <2>4, <3>1 DEF CallbackLooks
    <3>4. Len(asked'[k]) <= 1 /\ \A i \in 1..Len(asked'[k]) : asked'[k][i] >= k
      <4>1. CASE asked'[k] = <<>>
        BY <4>1
      <4>2. CASE asked'[k] = Append(<<>>, cb[k].seq)
        <5>1. Len(asked'[k]) = 1 /\ asked'[k][1] = cb[k].seq
          BY <4>2
        <5> QED BY <3>1, <5>1
      <4> QED BY <3>1, <3>3, <4>1, <4>2
    <3>5. Earned(k)'
      BY <2>0, <2>1, <3>2, <3>4 DEF Earned
    <3> QED BY <1>0, <2>0, <2>1, <2>2, <3>5, CallsKept
  <2>5. CASE CallbackReturns(k) \/ CallbackSend(k)
    <3>1. cb'[k].pc \in {"send", "idle"} /\ asked' = asked
      BY <1>0, <2>5 DEF CallbackReturns, CallbackSend, CallbackIdle, CallbackAt
    <3>2. Earned(k)'
      BY <2>0, <2>1, <3>1 DEF Earned
    <3> QED BY <1>0, <2>0, <2>1, <2>2, <3>1, <3>2, CallsKept
  <2> QED BY <1>3, <2>3, <2>4, <2>5 DEF Callback
<1>4. CASE armed' \subseteq armed /\ UNCHANGED <<pending, cb, overtaken, asked>>
  BY <1>0, <1>4 DEF CallsInv, Untouched, Earned
<1>5. ASSUME ~ReadCheck, \A k \in Checks : ~Fire(k) /\ ~Callback(k)
      PROVE  armed' \subseteq armed /\ UNCHANGED <<pending, cb, overtaken, asked>>
  BY <1>5 DEF Next, Client, ReadAuth, ReadOther, PeerFails, ReadPump, ReadPumpReturns,
              ReadPumpSend, WritePump, WriterTakes, WriterWrites, WriterSeesCancel,
              WritePumpReturns, PingFails, Shutdown, CleanupStops, CleanupCloses, Unregister,
              Stop, vars
<1> QED BY <1>1, <1>2, <1>3, <1>4, <1>5

(* CallsAreEarned: a text whose successor came before its timer had fired  *)
(* costs no call to LanguageTool; every other timer leads to one call at   *)
(* most, of a text no older than its own.                                  *)
THEOREM CallsAreEarned == Spec => []CallsEarned
<1>1. TypeInv /\ CallsInv => CallsEarned
  <2> SUFFICES ASSUME TypeInv, CallsInv, NEW k \in Checks
               PROVE  /\ Len(asked[k]) <= 1
                      /\ \A i \in DOMAIN asked[k] : asked[k][i] >= k
                      /\ k \in overtaken => asked[k] = <<>>
    BY DEF CallsEarned
  <2>1. DOMAIN asked[k] = 1..Len(asked[k])
    BY DEF TypeInv, TypeOK
  <2> QED BY <2>1 DEF CallsInv, Earned, Untouched
<1> QED BY <1>1, TypeInit, TypeStep, CallsInit, CallsStep, PTL DEF Spec
=============================================================================
