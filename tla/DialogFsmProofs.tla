--------------------------- MODULE DialogFsmProofs ---------------------------
(***************************************************************************)
(* What TLAPS proves of DialogFsm for every value of its constants: the    *)
(* types; the two facts about connections that the FSM relies on; and, of  *)
(* MCDialog, what holds as long as no task interrupts another in the       *)
(* middle of a script.  The last is an argument about the script that is   *)
(* under way: what its remaining operations will leave is known from the   *)
(* moment it begins, and each operation only brings it closer.             *)
(***************************************************************************)
EXTENDS MCDialog, TLAPS

(* What the callbacks of the ws and afe tasks may do: unlike the FSM's     *)
(* branches they never destroy the client.                                 *)
CallbackOp == Op \ {Drop("connected"), StopWs}

(* The FSM sends StartConnection as soon as it has connected; nothing else *)
(* ends a connection it has opened without the ws task noticing first.     *)
ConnectionIsGreeted ==
  /\ pc = "start_connection" => todo["fsm"] = <<>>
  /\ pc = "start_connection" /\ link = "up" => Connected
  /\ link = "up" /\ server.origin = "fresh" /\ ~server.started
       => pc = "start_connection"

(* Before it connects the FSM destroys the client that is left over. *)
OldClientIsStopped ==
  pc = "connect" /\ link # "none" => todo["fsm"] \in {DestroyWs, <<StopWs>>}

CallbacksKeepClient == \A t \in {"ws", "afe"} : todo[t] \in Seq(CallbackOp)

Inv == CallbacksKeepClient /\ ConnectionIsGreeted /\ OldClientIsStopped

-----------------------------------------------------------------------------
(* The scripts *)

LEMMA WakeScripts ==
  WakeStarts \in Seq(CallbackOp) /\ WakeInterrupts \in Seq(CallbackOp)
BY DEF WakeStarts, WakeInterrupts, CallbackOp, Op, Raise, Drop, Enter, Clear,
       StopWs, Flag, AppState, Buffer

LEMMA HandlerScripts ==
  ASSUME NEW event \in Event
  PROVE  HandlerOf(event) \in Seq(CallbackOp)
<1>1. /\ OnClearCache \in Seq(CallbackOp)
      /\ OnUserQueryEnd \in Seq(CallbackOp)
      /\ OnSessionFinished \in Seq(CallbackOp)
      /\ OnFatalError \in Seq(CallbackOp)
  BY DEF OnClearCache, OnUserQueryEnd, OnSessionFinished, OnFatalError, CallbackOp,
         Op, Raise, Drop, Enter, Clear, StopWs, Flag, AppState, Buffer
<1>2. OnRecoverableError \in Seq(CallbackOp)
  BY DEF OnRecoverableError, CallbackOp, Op, Raise, Drop, Enter, Clear, Send, Delay,
         StopWs, Flag, AppState, Buffer, Command
<1>3. /\ OnHelloEnded \in Seq(CallbackOp)
      /\ OnTurnEnded \in Seq(CallbackOp)
  BY DEF OnHelloEnded, OnTurnEnded, ClearForTurn, CallbackOp, Op, Raise, Drop, Enter,
         Clear, StopWs, Flag, AppState, Buffer
<1>4. OnExitIntent \in Seq(CallbackOp)
  BY DEF OnExitIntent, ClearForTurn, CallbackOp, Op, Raise, Drop, Enter, Clear, Send,
         Delay, StopWs, Flag, AppState, Buffer, Command
<1>5. QED
  BY <1>1, <1>2, <1>3, <1>4 DEF HandlerOf, Event

LEMMA FsmScripts ==
  /\ BargeIn \in Seq(Op)       /\ DestroyWs \in Seq(Op)
  /\ Reconnect \in Seq(Op)     /\ Ready \in Seq(Op)
  /\ RetryConnect \in Seq(Op)  /\ DestroyWs \o RetryConnect \in Seq(Op)
  /\ ButtonStarts \in Seq(Op)  /\ GreetServer \in Seq(Op)
  /\ StartListening \in Seq(Op)
  /\ ButtonEnds \in Seq(Op)    /\ LeaveDeadSession \in Seq(Op)
  /\ <<Enter("CONNECTING")>> \in Seq(Op)
  /\ <<Drop("wakenet")>> \in Seq(Op)
<1> USE DEF Op, Raise, Drop, Enter, Clear, Send, Delay, StopWs, Flag, AppState,
            Buffer, Command
<1>1. DestroyWs \in Seq(Op) /\ Ready \in Seq(Op)
  BY DEF DestroyWs, Ready
<1>2. Reconnect \in Seq(Op) /\ RetryConnect \in Seq(Op)
  BY DEF Reconnect, RetryConnect, DestroyWs, Ready
<1>3. BargeIn \in Seq(Op) /\ ButtonStarts \in Seq(Op) /\ GreetServer \in Seq(Op)
  BY DEF BargeIn, ButtonStarts, GreetServer
<1>4. StartListening \in Seq(Op) /\ ButtonEnds \in Seq(Op)
      /\ LeaveDeadSession \in Seq(Op)
  BY DEF StartListening, ButtonEnds, LeaveDeadSession
<1>5. <<Enter("CONNECTING")>> \in Seq(Op) /\ <<Drop("wakenet")>> \in Seq(Op)
  OBVIOUS
<1>6. DestroyWs \o RetryConnect \in Seq(Op)
  <2> HIDE DEF Op
  <2> QED BY <1>1, <1>2
<1>7. QED
  BY <1>1, <1>2, <1>3, <1>4, <1>5, <1>6

(* What a script has still to do after one operation. *)
LEMMA RestOfScript ==
  ASSUME NEW S, NEW s \in Seq(S), s # <<>>
  PROVE  Head(s) \in S /\ Tail(s) \in Seq(S)
OBVIOUS

(* Marking what is on its way as old. *)
LEMMA MessagesBecomeOld ==
  ASSUME NEW s \in Seq(Message)
  PROVE  /\ [i \in DOMAIN s |-> [s[i] EXCEPT !.old = TRUE]] \in Seq(Message)
         /\ Len([i \in DOMAIN s |-> [s[i] EXCEPT !.old = TRUE]]) = Len(s)
<1> DEFINE aged == [i \in 1..Len(s) |-> [s[i] EXCEPT !.old = TRUE]]
<1>1. Len(s) \in Nat /\ DOMAIN s = 1..Len(s) /\ \A i \in 1..Len(s) : s[i] \in Message
  OBVIOUS
<1>2. \A m \in Message : [m EXCEPT !.old = TRUE] \in Message
  BY DEF Message
<1>3. aged \in [1..Len(s) -> Message]
  BY <1>1, <1>2
<1>4. aged \in Seq(Message) /\ Len(aged) = Len(s)
  BY <1>1, <1>3
<1>5. [i \in DOMAIN s |-> [s[i] EXCEPT !.old = TRUE]] = aged
  BY <1>1, Zenon
<1>6. QED
  BY <1>4, <1>5, Zenon

-----------------------------------------------------------------------------
(* Types *)

LEMMA InitIsTyped == Init => TypeOK
<1> SUFFICES ASSUME Init PROVE TypeOK
  OBVIOUS
<1>1. app \in AppState /\ flags \in SUBSET Flag /\ pc \in FsmPc /\ outside \in 0..MaxOutside
  BY OutsideAssumption DEF Init, AppState, Flag, FsmPc
<1>2. todo \in [Task -> Seq(Op)]
  BY DEF Init
<1>3. net \in Seq(Message) /\ Len(net) <= MaxInFlight + 1
  BY InFlightAssumption DEF Init
<1>4. server \in Server
  BY DEF Init, NewServer, Server
<1>5. QED
  BY <1>1, <1>2, <1>3, <1>4 DEF Init, TypeOK

LEMMA NewServerIsTyped == \A origin \in {"fresh", "auto"} : NewServer(origin) \in Server
BY DEF NewServer, Server

LEMMA RunScriptIsTyped ==
  ASSUME TypeOK, NEW t \in Task, RunScript(t)
  PROVE  TypeOK'
<1>1. todo[t] \in Seq(Op)
  BY DEF TypeOK
<1>2. ASSUME NEW op, Step(t, op)
      PROVE  /\ Head(todo[t]) \in Op
             /\ todo' \in [Task -> Seq(Op)]
             /\ pc' \in FsmPc /\ booted' \in BOOLEAN /\ stale' \in BOOLEAN
             /\ outside' \in 0..MaxOutside
  BY <1>1, <1>2, RestOfScript DEF Step, TypeOK
<1>3. CASE EndDelay(t)
  BY <1>2, <1>3 DEF EndDelay, TypeOK
<1>4. CASE RaiseFlag(t)
  <2>1. Head(todo[t]).flag \in Flag
    BY <1>2, <1>4 DEF RaiseFlag, Step, Op
  <2>2. QED
    BY <1>2, <1>4, <2>1 DEF RaiseFlag, TypeOK
<1>5. CASE DropFlag(t)
  BY <1>2, <1>5 DEF DropFlag, TypeOK
<1>6. CASE SetAppState(t)
  <2>1. Head(todo[t]).state \in AppState
    BY <1>2, <1>6 DEF SetAppState, Step, Op
  <2>2. QED
    BY <1>2, <1>6, <2>1 DEF SetAppState, TypeOK
<1>7. CASE ClearBuffers(t)
  BY <1>2, <1>7 DEF ClearBuffers, TypeOK
<1>8. CASE SendCommand(t)
  <2>1. server' \in Server
    BY <1>8 DEF SendCommand, TakeIgnored, TypeOK, Server
  <2>2. QED
    BY <1>2, <1>8, <2>1 DEF SendCommand, TypeOK
<1>9. CASE StopClient(t)
  BY <1>2, <1>9, InFlightAssumption DEF StopClient, TypeOK, NewServer, Server
<1>10. QED
  BY <1>3, <1>4, <1>5, <1>6, <1>7, <1>8, <1>9 DEF RunScript

LEMMA EnvironmentIsTyped ==
  ASSUME TypeOK, Environment
  PROVE  TypeOK'
<1>1. outside - 1 \in 0..MaxOutside \/ outside = 0
  BY OutsideAssumption DEF TypeOK
<1>2. ASSUME NEW event \in Event, ServerSays(event)
      PROVE  TypeOK'
  <2>1. server' \in Server
    BY <1>2 DEF ServerSays, TypeOK, Server
  <2>2. net' \in Seq(Message) /\ Len(net') <= MaxInFlight + 1
    BY <1>2, InFlightAssumption DEF ServerSays, TypeOK, Message
  <2>3. outside' \in 0..MaxOutside
    BY <1>1, <1>2 DEF ServerSays, Spend, TypeOK
  <2>4. QED
    BY <1>2, <2>1, <2>2, <2>3 DEF ServerSays, TypeOK
<1>3. CASE ServerCloses
  <2>1. server' \in Server
    BY <1>3 DEF ServerCloses, TypeOK, Server
  <2>2. net' \in Seq(Message) /\ Len(net') <= MaxInFlight + 1
    BY <1>3, InFlightAssumption DEF ServerCloses, TypeOK, Message, Event
  <2>3. QED
    BY <1>3, <2>1, <2>2 DEF ServerCloses, TypeOK
<1>4. CASE NetDrops
  BY <1>1, <1>4, InFlightAssumption DEF NetDrops, Spend, TypeOK, Server
<1>5. CASE WsReopens
  BY <1>5 DEF WsReopens, TypeOK
<1>6. CASE WsReopened
  <2>1. server' \in Server
    BY <1>6, NewServerIsTyped DEF WsReopened, TypeOK
  <2>2. flags' \in SUBSET Flag
    BY <1>6 DEF WsReopened, Flag, TypeOK
  <2>3. QED
    BY <1>6, <2>1, <2>2 DEF WsReopened, TypeOK
<1>7. CASE WakeWord
  BY <1>1, <1>7, WakeScripts DEF WakeWord, Spend, TypeOK, CallbackOp, Task
<1>8. CASE PlayOut
  BY <1>8 DEF PlayOut, TypeOK
<1>9. QED
  BY <1>2, <1>3, <1>4, <1>5, <1>6, <1>7, <1>8 DEF Environment

LEMMA FsmStepIsTyped ==
  ASSUME TypeOK, FsmStep
  PROVE  TypeOK'
<1>1. outside - 1 \in 0..MaxOutside \/ outside = 0
  BY OutsideAssumption DEF TypeOK
<1>2. \A script \in Seq(Op), label \in FsmPc :
        FsmRun(script, label) => todo' \in [Task -> Seq(Op)] /\ pc' \in FsmPc
  BY DEF FsmRun, TypeOK
<1>3. <<>> \in Seq(Op)
  OBVIOUS
<1> USE FsmScripts, <1>2, <1>3
<1>4. CASE RunScript("fsm")
  BY <1>4, RunScriptIsTyped DEF Task
<1>5. CASE FsmLoop
  BY <1>5 DEF FsmLoop, FsmDecides, FsmOnly, FsmPc, TypeOK
<1>6. CASE FsmSwitch
  BY <1>6 DEF FsmSwitch, FsmDecides, FsmOnly, FsmPc, TypeOK
<1>7. CASE FsmConnecting
  BY <1>7 DEF FsmConnecting, FsmDecides, FsmOnly, FsmPc, TypeOK
<1>8. CASE FsmConnect
  <2>1. <<>> \o RetryConnect \in Seq(Op)
    OBVIOUS
  <2>2. todo' \in [Task -> Seq(Op)] /\ pc' \in FsmPc
    BY <1>8, <2>1 DEF FsmConnect, FsmPc
  <2>3. server' \in Server
    BY <1>8, NewServerIsTyped DEF FsmConnect, TypeOK
  <2>4. flags' \in SUBSET Flag
    BY <1>8 DEF FsmConnect, Flag, TypeOK
  <2>5. outside' \in 0..MaxOutside
    BY <1>1, <1>8 DEF FsmConnect, Spend, TypeOK
  <2>6. QED
    BY <1>8, <2>2, <2>3, <2>4, <2>5 DEF FsmConnect, TypeOK
<1>9. CASE FsmStartConnection
  <2>1. server' \in Server
    BY <1>9 DEF FsmStartConnection, TakeStartConnection, TypeOK, Server
  <2>2. QED
    BY <1>9, <2>1 DEF FsmStartConnection, FsmPc, TypeOK
<1>10. CASE FsmIdle
  <2>1. outside' \in 0..MaxOutside
    BY <1>1, <1>10 DEF FsmIdle, PollButton, Spend, TypeOK
  <2>2. todo' \in [Task -> Seq(Op)] /\ pc' \in FsmPc
    BY <1>10 DEF FsmIdle, PollButton, FsmPc
  <2>3. QED
    BY <1>10, <2>1, <2>2 DEF FsmIdle, FsmOnly, TypeOK
<1>11. CASE FsmHandshake
  BY <1>11 DEF FsmHandshake, FsmDecides, FsmOnly, FsmPc, TypeOK
<1>12. CASE FsmStartSession
  <2>1. CASE TakeStartSession
    <3> DEFINE due == IF server.session = "closing"
                      THEN Append(net, [event |-> "finished", old |-> FALSE]) ELSE net
    <3>1. due \in Seq(Message) /\ Len(due) <= MaxInFlight + 1
      <4>1. [event |-> "finished", old |-> FALSE] \in Message
        BY DEF Message, Event
      <4>2. net \in Seq(Message) /\ Len(net) <= MaxInFlight
        BY <2>1 DEF TakeStartSession, TypeOK
      <4>3. QED
        BY <4>1, <4>2, InFlightAssumption
    <3>2. net' \in Seq(Message) /\ Len(net') <= MaxInFlight + 1
      <4>1. net' = [i \in DOMAIN due |-> [due[i] EXCEPT !.old = TRUE]]
        BY <2>1 DEF TakeStartSession
      <4> HIDE DEF due
      <4>2. QED
        BY <3>1, <4>1, MessagesBecomeOld
    <3>3. server' \in Server
      BY <2>1 DEF TakeStartSession, TypeOK, Server
    <3>4. tts' \in SUBSET {"current", "old"}
      BY <2>1 DEF TakeStartSession
    <3>5. QED
      BY <1>12, <3>2, <3>3, <3>4 DEF FsmStartSession, FsmPc, TypeOK
  <2>2. CASE ~TakeStartSession
    BY <1>12, <2>2 DEF FsmStartSession, FsmPc, TypeOK
  <2>3. QED
    BY <2>1, <2>2
<1>13. CASE FsmHello
  BY <1>13 DEF FsmHello, FsmDecides, FsmOnly, FsmPc, TypeOK
<1>14. CASE FsmTalk
  <2>1. outside' \in 0..MaxOutside
    BY <1>1, <1>14 DEF FsmTalk, PollButton, Spend, TypeOK
  <2>2. todo' \in [Task -> Seq(Op)] /\ pc' \in FsmPc
    BY <1>14 DEF FsmTalk, PollButton, FsmPc
  <2>3. QED
    BY <1>14, <2>1, <2>2 DEF FsmTalk, FsmOnly, TypeOK
<1>15. CASE FsmTalkCheck
  BY <1>15 DEF FsmTalkCheck, FsmDecides, FsmOnly, FsmPc, TypeOK
<1>16. QED
  BY <1>4, <1>5, <1>6, <1>7, <1>8, <1>9, <1>10, <1>11, <1>12, <1>13, <1>14, <1>15
     DEF FsmStep

LEMMA NextIsTyped == TypeOK /\ [Next]_vars => TypeOK'
<1> SUFFICES ASSUME TypeOK, [Next]_vars PROVE TypeOK'
  OBVIOUS
<1>1. CASE FsmStep
  BY <1>1, FsmStepIsTyped
<1>2. CASE RunScript("ws") \/ RunScript("afe")
  BY <1>2, RunScriptIsTyped DEF Task
<1>3. CASE WsReceive
  <2>1. Head(net) \in Message /\ Tail(net) \in Seq(Message)
        /\ Len(Tail(net)) <= MaxInFlight + 1
    BY <1>3, InFlightAssumption DEF WsReceive, TypeOK
  <2>2. HandlerOf(Head(net).event) \in Seq(Op)
    BY <2>1, HandlerScripts DEF Message, CallbackOp
  <2>3. QED
    BY <1>3, <2>1, <2>2 DEF WsReceive, TypeOK, Message
<1>4. CASE WsDisconnected
  BY <1>4 DEF WsDisconnected, TypeOK
<1>5. CASE Boot
  BY <1>5 DEF Boot, TypeOK, AppState
<1>6. CASE Environment
  BY <1>6, EnvironmentIsTyped
<1>7. CASE UNCHANGED vars
  BY <1>7 DEF vars, TypeOK
<1>8. QED
  BY <1>1, <1>2, <1>3, <1>4, <1>5, <1>6, <1>7 DEF Next, WsStep

(* Every global, script and message keeps its type, however many messages  *)
(* are on their way and however often the user, the network and the server *)
(* interfere.                                                              *)
THEOREM TypeCorrect == Spec => []TypeOK
BY InitIsTyped, NextIsTyped, PTL DEF Spec

-----------------------------------------------------------------------------
(* Connections *)

LEMMA InitHasInv == Init => Inv
BY DEF Init, Inv, CallbacksKeepClient, ConnectionIsGreeted, OldClientIsStopped, Task

(* An operation of any task. *)
LEMMA RunScriptKeepsInv ==
  ASSUME TypeOK, Inv, NEW t \in Task, RunScript(t)
  PROVE  Inv'
<1> DEFINE op == Head(todo[t])
<1>1. /\ pc' = pc
      /\ todo[t] # <<>>
      /\ todo' = [todo EXCEPT ![t] = Tail(@)]
      /\ todo'[t] = Tail(todo[t])
      /\ \A u \in Task \ {t} : todo'[u] = todo[u]
  BY DEF RunScript, EndDelay, RaiseFlag, DropFlag, SetAppState, ClearBuffers,
         SendCommand, StopClient, Step, TypeOK
<1>2. t \in {"ws", "afe"} => op \in CallbackOp /\ Tail(todo[t]) \in Seq(CallbackOp)
  BY <1>1, RestOfScript DEF Inv, CallbacksKeepClient
<1>3. CallbacksKeepClient'
  BY <1>1, <1>2 DEF Inv, CallbacksKeepClient, Task
<1>4. pc = "start_connection" => t # "fsm" /\ todo'["fsm"] = <<>>
  BY <1>1 DEF Inv, ConnectionIsGreeted, Task
<1>5. t # "fsm" => ~StopClient(t) /\ (DropFlag(t) => op.flag # "connected")
  BY <1>2 DEF StopClient, DropFlag, Step, CallbackOp, Op, Drop, StopWs, Task
<1>6. t # "fsm" => (Connected => Connected') /\ link' = link
  BY <1>5 DEF RunScript, EndDelay, RaiseFlag, DropFlag, SetAppState, ClearBuffers,
              SendCommand, StopClient, Connected
<1>7. \/ link' = "none"
      \/ link' = link /\ server'.origin = server.origin
                      /\ server'.started = server.started
  <2>1. CASE StopClient(t)
    BY <2>1 DEF StopClient
  <2>2. CASE SendCommand(t)
    BY <2>2 DEF SendCommand, TakeIgnored, TypeOK, Server
  <2>3. CASE ~StopClient(t) /\ ~SendCommand(t)
    BY <2>3 DEF RunScript, EndDelay, RaiseFlag, DropFlag, SetAppState, ClearBuffers
  <2>4. QED
    BY <2>1, <2>2, <2>3
<1>8. ConnectionIsGreeted'
  BY <1>1, <1>4, <1>6, <1>7 DEF Inv, ConnectionIsGreeted
<1>9. OldClientIsStopped'
  <2>1. CASE t = "fsm" /\ pc = "connect" /\ link # "none"
    <3>1. todo["fsm"] \in {DestroyWs, <<StopWs>>}
      BY <2>1 DEF Inv, OldClientIsStopped
    <3>2. CASE todo["fsm"] = DestroyWs
      <4>1. Tail(DestroyWs) = <<StopWs>>
        BY DEF DestroyWs, StopWs
      <4>2. QED
        BY <1>1, <2>1, <3>2, <4>1 DEF OldClientIsStopped
    <3>3. CASE todo["fsm"] = <<StopWs>>
      <4>1. op = StopWs
        BY <2>1, <3>3
      <4>2. StopClient(t)
        BY <4>1 DEF RunScript, EndDelay, RaiseFlag, DropFlag, SetAppState,
                    ClearBuffers, SendCommand, Step, StopWs
      <4>3. QED
        BY <4>2 DEF StopClient, OldClientIsStopped
    <3>4. QED
      BY <3>1, <3>2, <3>3
  <2>2. CASE t # "fsm"
    BY <1>1, <1>6, <2>2 DEF Inv, OldClientIsStopped, Task
  <2>3. CASE pc # "connect" \/ link = "none"
    BY <1>1, <1>7, <2>3 DEF OldClientIsStopped
  <2>4. QED
    BY <2>1, <2>2, <2>3
<1>10. QED
  BY <1>3, <1>8, <1>9 DEF Inv

(* A decision of the FSM: its own script was empty, the others go on. *)
LEMMA FsmDecisionKeepsInv ==
  ASSUME TypeOK, Inv, FsmStep, ~RunScript("fsm")
  PROVE  Inv'
<1>1. todo["fsm"] = <<>> /\ \A u \in {"ws", "afe"} : todo'[u] = todo[u]
  BY DEF FsmStep, FsmLoop, FsmSwitch, FsmConnecting, FsmConnect,
         FsmStartConnection, FsmIdle, FsmHandshake, FsmStartSession, FsmHello, FsmTalk,
         FsmTalkCheck, FsmAt, Free, FsmRun, PollButton, TypeOK, Task
<1>2. CallbacksKeepClient'
  BY <1>1 DEF Inv, CallbacksKeepClient
<1>3. CASE FsmConnecting
  <2>1. UNCHANGED <<flags, link, server>>
    BY <1>3 DEF FsmConnecting, FsmDecides, FsmOnly
  <2>2. pc = "connecting" /\ pc' \in {"top", "connect"}
    BY <1>3 DEF FsmConnecting, FsmAt, FsmRun
  <2>3. pc' = "connect" /\ link # "none" => todo'["fsm"] = DestroyWs
    BY <1>3 DEF FsmConnecting, FsmRun, TypeOK, Task
  <2>4. QED
    BY <1>2, <2>1, <2>2, <2>3 DEF Inv, ConnectionIsGreeted, OldClientIsStopped
<1>4. CASE FsmConnect
  <2>1. pc = "connect" /\ link = "none"
    BY <1>1, <1>4 DEF FsmConnect, FsmAt, Inv, OldClientIsStopped, DestroyWs
  <2>2. \/ /\ pc' = "start_connection" /\ todo'["fsm"] = <<>>
           /\ flags' = flags \cup {"connected"}
        \/ pc' = "top" /\ link' = "none"
    BY <1>4, <2>1 DEF FsmConnect, FsmRun, TypeOK, Task
  <2>3. QED
    BY <1>2, <2>2 DEF Inv, ConnectionIsGreeted, OldClientIsStopped, Connected
<1>5. CASE FsmStartConnection
  <2>1. pc = "start_connection" /\ pc' = "top" /\ UNCHANGED <<flags, link>>
    BY <1>5 DEF FsmStartConnection, FsmAt, FsmRun
  <2>2. link = "up" => server'.started
    BY <1>5, <2>1 DEF FsmStartConnection, SendDelivers, SendIsLost, SendFails,
       TakeStartConnection, Inv, ConnectionIsGreeted, TypeOK, Server
  <2>3. QED
    BY <1>2, <2>1, <2>2 DEF Inv, ConnectionIsGreeted, OldClientIsStopped
<1>6. CASE FsmStartSession
  <2>1. pc = "start_session" /\ pc' \in {"top", "hello"} /\ link' = link
    BY <1>6 DEF FsmStartSession, FsmAt, FsmRun
  <2>2. server'.origin = server.origin /\ server'.started = server.started
    BY <1>6 DEF FsmStartSession, TakeStartSession, TypeOK, Server
  <2>3. QED
    BY <1>2, <2>1, <2>2 DEF Inv, ConnectionIsGreeted, OldClientIsStopped
<1>7. CASE FsmLoop \/ FsmSwitch \/ FsmIdle \/ FsmHandshake \/ FsmHello \/ FsmTalk
           \/ FsmTalkCheck
  <2>1. UNCHANGED <<flags, link, server>>
    BY <1>7 DEF FsmLoop, FsmSwitch, FsmIdle, FsmHandshake, FsmHello, FsmTalk,
       FsmTalkCheck, FsmDecides, FsmOnly
  <2>2. pc # "start_connection" /\ pc' \notin {"start_connection", "connect"}
    BY <1>7 DEF FsmLoop, FsmSwitch, FsmIdle, FsmHandshake, FsmHello, FsmTalk,
       FsmTalkCheck, FsmAt, FsmRun, PollButton
  <2>3. QED
    BY <1>2, <2>1, <2>2 DEF Inv, ConnectionIsGreeted, OldClientIsStopped
<1>8. QED
  BY <1>3, <1>4, <1>5, <1>6, <1>7 DEF FsmStep

LEMMA NextKeepsInv == TypeOK /\ Inv /\ [Next]_vars => Inv'
<1> SUFFICES ASSUME TypeOK, Inv, [Next]_vars PROVE Inv'
  OBVIOUS
<1> USE DEF Inv
<1>1. CASE RunScript("fsm") \/ RunScript("ws") \/ RunScript("afe")
  BY <1>1, RunScriptKeepsInv DEF Task
<1>2. CASE FsmStep /\ ~RunScript("fsm")
  BY <1>2, FsmDecisionKeepsInv
<1>3. CASE WsReceive
  <2>1. HandlerOf(Head(net).event) \in Seq(CallbackOp)
    <3>1. Head(net) \in Message
      BY <1>3 DEF WsReceive, TypeOK
    <3>2. QED
      BY <3>1, HandlerScripts DEF Message
  <2>2. CallbacksKeepClient' /\ todo'["fsm"] = todo["fsm"]
    BY <1>3, <2>1 DEF WsReceive, CallbacksKeepClient, TypeOK, Task
  <2>3. QED
    BY <1>3, <2>2 DEF WsReceive, ConnectionIsGreeted, OldClientIsStopped, Connected
<1>4. CASE WsDisconnected
  BY <1>4 DEF WsDisconnected, CallbacksKeepClient, ConnectionIsGreeted,
              OldClientIsStopped
<1>5. CASE Boot
  BY <1>5 DEF Boot, CallbacksKeepClient, ConnectionIsGreeted, OldClientIsStopped,
              Connected
<1>6. CASE WsReopened
  <2>1. link = "opening" /\ UNCHANGED <<todo, pc>>
        /\ \/ link' = "up" /\ server'.origin = "auto" /\ Connected'
           \/ link' = "waiting" /\ UNCHANGED flags
    BY <1>6 DEF WsReopened, NewServer, Connected
  <2>2. QED
    BY <2>1 DEF CallbacksKeepClient, ConnectionIsGreeted, OldClientIsStopped
<1>7. CASE WakeWord
  <2>1. CallbacksKeepClient' /\ todo'["fsm"] = todo["fsm"]
    BY <1>7, WakeScripts DEF WakeWord, CallbacksKeepClient, TypeOK, Task
  <2>2. QED
    BY <1>7, <2>1 DEF WakeWord, ConnectionIsGreeted, OldClientIsStopped, Connected
<1>8. ASSUME NEW event \in Event, ServerSays(event)
      PROVE  Inv'
  <2>1. server'.origin = server.origin /\ server'.started = server.started
    BY <1>8 DEF ServerSays, TypeOK, Server
  <2>2. QED
    BY <1>8, <2>1 DEF ServerSays, CallbacksKeepClient, ConnectionIsGreeted,
                      OldClientIsStopped, Connected
<1>9. CASE ServerCloses \/ NetDrops \/ WsReopens \/ PlayOut
  <2>1. UNCHANGED <<todo, pc, flags>>
    BY <1>9 DEF ServerCloses, NetDrops, WsReopens, PlayOut
  <2>2. \/ link # "none" /\ link' \in {"broken", "opening"}
        \/ link' = link /\ server'.origin = server.origin
                        /\ server'.started = server.started
    BY <1>9 DEF ServerCloses, NetDrops, WsReopens, PlayOut, TypeOK, Server
  <2>3. QED
    BY <2>1, <2>2 DEF CallbacksKeepClient, ConnectionIsGreeted, OldClientIsStopped,
                      Connected
<1>10. CASE UNCHANGED vars
  BY <1>10 DEF vars, CallbacksKeepClient, ConnectionIsGreeted, OldClientIsStopped,
               Connected
<1>11. QED
  BY <1>1, <1>2, <1>3, <1>4, <1>5, <1>6, <1>7, <1>8, <1>9, <1>10
     DEF Next, WsStep, Environment

LEMMA Invariance == Spec => [](TypeOK /\ Inv)
BY InitIsTyped, InitHasInv, NextIsTyped, NextKeepsInv, PTL DEF Spec

(* No StartSession reaches the server before StartConnection on a          *)
(* connection doubao_ws_connect opened, in any interleaving of the tasks.  *)
THEOREM FreshSessionsAreStarted == Spec => []FreshSessionIsStarted
<1>1. TypeOK /\ Inv => FreshSessionIsStarted
  BY DEF Inv, ConnectionIsGreeted, FreshSessionIsStarted, FsmAt, SendDelivers
<1>2. QED
  BY <1>1, Invariance, PTL

(* doubao_ws_init never clears a client that still owns a connection. *)
THEOREM NoClientIsEverOverwritten == Spec => []NoClientIsOverwritten
<1>1. Inv => NoClientIsOverwritten
  BY DEF Inv, OldClientIsStopped, NoClientIsOverwritten, FsmAt, Free, DestroyWs
<1>2. QED
  BY <1>1, Invariance, PTL

-----------------------------------------------------------------------------
(* One script at a time *)

(* What a script leaves, told from all of it at once: the flags it has     *)
(* raised and not dropped again, and the state it enters last.             *)
Drops(s, i, f)  == s[i].op = "drop" /\ s[i].flag = f
Raises(s, i, f) == s[i].op = "raise" /\ s[i].flag = f

HoldsAfter(f, F, s) ==
  \/ f \in F /\ \A i \in 1..Len(s) : ~Drops(s, i, f)
  \/ \E i \in 1..Len(s) : /\ Raises(s, i, f)
                          /\ \A j \in 1..Len(s) : j > i => ~Drops(s, j, f)

EndsIn(a, s, b) ==
  \/ a = b /\ \A i \in 1..Len(s) : s[i].op # "enter"
  \/ \E i \in 1..Len(s) : /\ s[i].op = "enter" /\ s[i].state = b
                          /\ \A j \in 1..Len(s) : j > i => s[j].op # "enter"

(* The modes of ModeMatchesState, of a state and of whether the microphone *)
(* streams and the wake word is on.                                        *)
Matches(a, streaming, wakenet) ==
  /\ a = "LISTENING" => streaming /\ ~wakenet
  /\ a = "SPEAKING" => ~streaming /\ wakenet
  /\ a = "CONNECTED_IDLE" => wakenet

Talk == {"LISTENING", "SPEAKING"}

Alone(t) == \A u \in Task \ {t} : todo[u] = <<>>

(* What holds of the script that is under way: at its end the mode matches *)
(* the state, and a session that is active then is one of a conversation,  *)
(* or of the greeting the FSM still waits for.                             *)
Quiet == {"connecting", "connect", "start_connection", "idle", "handshake",
          "start_session"}

ModeAfter(s) ==
  \A b \in AppState :
    EndsIn(app, s, b) =>
      Matches(b, HoldsAfter("streaming", flags, s), HoldsAfter("wakenet", flags, s))

SessionAfter(s) ==
  HoldsAfter("active", flags, s) =>
    /\ pc \notin Quiet
    /\ pc # "hello" => /\ \A b \in AppState : EndsIn(app, s, b) => b \in Talk
                       /\ todo["fsm"] = <<>> => app \in Talk

Steady == \E t \in Task : Alone(t) /\ ModeAfter(todo[t]) /\ SessionAfter(todo[t])

(* The callbacks enter a state with their last operation. *)
CallbacksEnterLast ==
  \A t \in {"ws", "afe"} : \A i \in 1..Len(todo[t]) :
    todo[t][i].op = "enter" => i = Len(todo[t])

(* Until app_main sets the state, nothing but the start of the FSM happens. *)
NotBooted ==
  ~booted =>
    /\ "active" \notin flags /\ "connected" \notin flags /\ "bargein" \notin flags
    /\ link = "none"
    /\ app \in {"IDLE", "CONNECTING"}
    /\ pc \in {"top", "switch", "connecting", "connect", "ended"}
    /\ todo["ws"] = <<>> /\ todo["afe"] = <<>>
    /\ todo["fsm"] \in {<<>>, <<Enter("CONNECTING")>>, <<Drop("wakenet")>>}

SerialInv ==
  CallbacksEnterLast /\ NotBooted /\ (~overlapped => Steady)

(* An operation brings the script to the same end. *)
LEMMA OperationKeepsFlags ==
  ASSUME NEW s \in Seq(Op), s # <<>>, NEW F, NEW G, NEW f,
         \/ Head(s).op = "raise" /\ G = F \cup {Head(s).flag}
         \/ Head(s).op = "drop" /\ G = F \ {Head(s).flag}
         \/ Head(s).op \notin {"raise", "drop"} /\ (f \in G <=> f \in F)
  PROVE  HoldsAfter(f, F, s) <=> HoldsAfter(f, G, Tail(s))
<1> DEFINE r == Tail(s)
<1>1. /\ Len(s) \in Nat /\ Len(r) = Len(s) - 1 /\ Head(s) = s[1] /\ Len(s) >= 1
      /\ \A i \in 1..Len(r) : r[i] = s[i + 1]
  OBVIOUS
<1> HIDE DEF r
<1>2. /\ \A i \in 1..Len(r) : i + 1 \in 1..Len(s) /\ i + 1 > 1
      /\ \A i \in 1..Len(s) : i = 1 \/ (i - 1 \in 1..Len(r) /\ s[i] = r[i - 1])
      /\ 1 \in 1..Len(s)
  BY <1>1
<1>3. ASSUME HoldsAfter(f, F, s) PROVE HoldsAfter(f, G, r)
  <2>1. CASE f \in F /\ \A i \in 1..Len(s) : ~Drops(s, i, f)
    <3>1. ~Drops(s, 1, f) /\ \A i \in 1..Len(r) : ~Drops(r, i, f)
      BY <1>1, <1>2, <2>1 DEF Drops
    <3>2. f \in G
      BY <1>1, <2>1, <3>1 DEF Drops
    <3>3. QED
      BY <3>1, <3>2 DEF HoldsAfter
  <2>2. ASSUME NEW i \in 1..Len(s), Raises(s, i, f),
               \A j \in 1..Len(s) : j > i => ~Drops(s, j, f)
        PROVE  HoldsAfter(f, G, r)
    <3>1. CASE i = 1
      <4>1. f \in G
        BY <1>1, <2>2, <3>1 DEF Raises
      <4>2. \A j \in 1..Len(r) : ~Drops(r, j, f)
        BY <1>1, <1>2, <2>2, <3>1 DEF Drops
      <4>3. QED
        BY <4>1, <4>2 DEF HoldsAfter
    <3>2. CASE i # 1
      <4>1. i - 1 \in 1..Len(r) /\ Raises(r, i - 1, f)
        BY <1>2, <2>2, <3>2 DEF Raises
      <4>2. \A j \in 1..Len(r) : j > i - 1 => j + 1 \in 1..Len(s) /\ j + 1 > i
        BY <1>2
      <4>3. \A j \in 1..Len(r) : j > i - 1 => ~Drops(r, j, f)
        BY <1>1, <2>2, <4>2 DEF Drops
      <4>4. QED
        BY <4>1, <4>3 DEF HoldsAfter
    <3>3. QED
      BY <3>1, <3>2
  <2>3. QED
    BY <1>3, <2>1, <2>2 DEF HoldsAfter
<1>4. ASSUME HoldsAfter(f, G, r) PROVE HoldsAfter(f, F, s)
  <2>1. CASE f \in G /\ \A i \in 1..Len(r) : ~Drops(r, i, f)
    <3>1. \A j \in 1..Len(s) : j > 1 => ~Drops(s, j, f)
      BY <1>2, <2>1 DEF Drops
    <3>2. CASE Raises(s, 1, f)
      BY <1>2, <3>1, <3>2 DEF HoldsAfter
    <3>3. CASE ~Raises(s, 1, f)
      <4>1. f \in F /\ ~Drops(s, 1, f)
        BY <1>1, <2>1, <3>3 DEF Raises, Drops
      <4>2. \A j \in 1..Len(s) : ~Drops(s, j, f)
        BY <1>2, <3>1, <4>1
      <4>3. QED
        BY <4>1, <4>2 DEF HoldsAfter
    <3>4. QED
      BY <3>2, <3>3
  <2>2. ASSUME NEW i \in 1..Len(r), Raises(r, i, f),
               \A j \in 1..Len(r) : j > i => ~Drops(r, j, f)
        PROVE  HoldsAfter(f, F, s)
    <3>1. i + 1 \in 1..Len(s) /\ Raises(s, i + 1, f)
      BY <1>1, <1>2, <2>2 DEF Raises
    <3>2. \A j \in 1..Len(s) : j > i + 1 => j - 1 \in 1..Len(r) /\ j - 1 > i
      BY <1>2
    <3>3. \A j \in 1..Len(s) : j > i + 1 => ~Drops(s, j, f)
      BY <1>2, <2>2, <3>2 DEF Drops
    <3>4. QED
      BY <3>1, <3>3 DEF HoldsAfter
  <2>3. QED
    BY <1>4, <2>1, <2>2 DEF HoldsAfter
<1>5. QED
  BY <1>3, <1>4 DEF r

LEMMA OperationKeepsEnd ==
  ASSUME NEW s \in Seq(Op), s # <<>>, NEW a, NEW c, NEW b,
         IF Head(s).op = "enter" THEN c = Head(s).state ELSE c = a
  PROVE  EndsIn(a, s, b) <=> EndsIn(c, Tail(s), b)
<1> DEFINE r == Tail(s)
<1>1. /\ Len(s) \in Nat /\ Len(r) = Len(s) - 1 /\ Head(s) = s[1] /\ Len(s) >= 1
      /\ \A i \in 1..Len(r) : r[i] = s[i + 1]
  OBVIOUS
<1> HIDE DEF r
<1>2. /\ \A i \in 1..Len(r) : i + 1 \in 1..Len(s) /\ i + 1 > 1
      /\ \A i \in 1..Len(s) : i = 1 \/ (i - 1 \in 1..Len(r) /\ s[i] = r[i - 1])
      /\ 1 \in 1..Len(s)
  BY <1>1
<1>3. ASSUME EndsIn(a, s, b) PROVE EndsIn(c, r, b)
  <2>1. CASE a = b /\ \A i \in 1..Len(s) : s[i].op # "enter"
    BY <1>1, <1>2, <2>1 DEF EndsIn
  <2>2. ASSUME NEW i \in 1..Len(s), s[i].op = "enter", s[i].state = b,
               \A j \in 1..Len(s) : j > i => s[j].op # "enter"
        PROVE  EndsIn(c, r, b)
    <3>1. CASE i = 1
      BY <1>1, <1>2, <2>2, <3>1 DEF EndsIn
    <3>2. CASE i # 1
      <4>1. i - 1 \in 1..Len(r) /\ r[i - 1].op = "enter" /\ r[i - 1].state = b
        BY <1>2, <2>2, <3>2
      <4>2. \A j \in 1..Len(r) : j > i - 1 => j + 1 \in 1..Len(s) /\ j + 1 > i
        BY <1>2
      <4>3. \A j \in 1..Len(r) : j > i - 1 => r[j].op # "enter"
        BY <1>1, <2>2, <4>2
      <4>4. QED
        BY <4>1, <4>3 DEF EndsIn
    <3>3. QED
      BY <3>1, <3>2
  <2>3. QED
    BY <1>3, <2>1, <2>2 DEF EndsIn
<1>4. ASSUME EndsIn(c, r, b) PROVE EndsIn(a, s, b)
  <2>1. CASE c = b /\ \A i \in 1..Len(r) : r[i].op # "enter"
    <3>1. \A j \in 1..Len(s) : j > 1 => s[j].op # "enter"
      <4>1. \A j \in 1..Len(s) : j > 1 => j - 1 \in 1..Len(r) /\ s[j] = r[j - 1]
        BY <1>2
      <4>2. QED
        BY <2>1, <4>1
    <3>2. CASE s[1].op = "enter"
      <4>1. s[1].state = b
        BY <1>1, <2>1, <3>2
      <4>2. QED
        BY <1>2, <3>1, <3>2, <4>1 DEF EndsIn
    <3>3. CASE s[1].op # "enter"
      <4>1. a = b /\ \A j \in 1..Len(s) : s[j].op # "enter"
        BY <1>1, <1>2, <2>1, <3>1, <3>3
      <4>2. QED
        BY <4>1 DEF EndsIn
    <3>4. QED
      BY <3>2, <3>3
  <2>2. ASSUME NEW i \in 1..Len(r), r[i].op = "enter", r[i].state = b,
               \A j \in 1..Len(r) : j > i => r[j].op # "enter"
        PROVE  EndsIn(a, s, b)
    <3>1. i + 1 \in 1..Len(s) /\ s[i + 1].op = "enter" /\ s[i + 1].state = b
      BY <1>1, <1>2, <2>2
    <3>2. \A j \in 1..Len(s) : j > i + 1 => j - 1 \in 1..Len(r) /\ j - 1 > i
      BY <1>2
    <3>3. \A j \in 1..Len(s) : j > i + 1 => s[j].op # "enter"
      BY <1>2, <2>2, <3>2
    <3>4. QED
      BY <3>1, <3>3 DEF EndsIn
  <2>3. QED
    BY <1>4, <2>1, <2>2 DEF EndsIn
<1>5. QED
  BY <1>3, <1>4 DEF r

-----------------------------------------------------------------------------
(* The ends of the scripts *)

LEMMA NothingLeft ==
  /\ \A f, F : HoldsAfter(f, F, <<>>) <=> f \in F
  /\ \A a, b : EndsIn(a, <<>>, b) <=> a = b
BY DEF HoldsAfter, EndsIn

(* What a script does with a flag and with the state. *)
Leaves(s, f) == \A i \in 1..Len(s) : ~Drops(s, i, f) /\ ~Raises(s, i, f)

NeverRaises(s, f) == \A i \in 1..Len(s) : ~Raises(s, i, f)

RaisesLast(s, f) ==
  \E i \in 1..Len(s) : Raises(s, i, f) /\ \A j \in 1..Len(s) : j > i => ~Drops(s, j, f)

DropsLast(s, f) ==
  \E i \in 1..Len(s) : Drops(s, i, f) /\ \A j \in 1..Len(s) : j > i => ~Raises(s, j, f)

EntersNothing(s) == \A i \in 1..Len(s) : s[i].op # "enter"

Enters(s, b) ==
  \E i \in 1..Len(s) : /\ s[i].op = "enter" /\ s[i].state = b
                       /\ \A j \in 1..Len(s) : j > i => s[j].op # "enter"

EntersWithLast(s) == \A i \in 1..Len(s) : s[i].op = "enter" => i = Len(s)

LEMMA FlagEffects ==
  ASSUME NEW s \in Seq(Op), NEW f, NEW F
  PROVE  /\ Leaves(s, f) => (HoldsAfter(f, F, s) <=> f \in F)
         /\ NeverRaises(s, f) => (HoldsAfter(f, F, s) => f \in F)
         /\ RaisesLast(s, f) => HoldsAfter(f, F, s)
         /\ DropsLast(s, f) => ~HoldsAfter(f, F, s)
<1>1. ASSUME NEW i \in 1..Len(s), Drops(s, i, f),
             \A j \in 1..Len(s) : j > i => ~Raises(s, j, f)
      PROVE  ~HoldsAfter(f, F, s)
  <2>1. ASSUME NEW k \in 1..Len(s), Raises(s, k, f),
               \A j \in 1..Len(s) : j > k => ~Drops(s, j, f)
        PROVE  FALSE
    <3>1. k \in Nat /\ i \in Nat /\ ~(k > i) /\ ~(i > k)
      BY <1>1, <2>1
    <3>2. k = i
      BY <3>1
    <3>3. QED
      BY <1>1, <2>1, <3>2 DEF Drops, Raises
  <2>2. QED
    BY <1>1, <2>1 DEF HoldsAfter
<1>2. QED
  BY <1>1 DEF Leaves, NeverRaises, RaisesLast, DropsLast, HoldsAfter

LEMMA StateEffects ==
  ASSUME NEW s \in Seq(Op), NEW a, NEW b, NEW c, EndsIn(a, s, b)
  PROVE  /\ EntersNothing(s) => b = a
         /\ Enters(s, c) => b = c
<1>1. ASSUME EntersNothing(s) PROVE b = a
  BY <1>1 DEF EntersNothing, EndsIn
<1>2. ASSUME Enters(s, c) PROVE b = c
  <2>1. PICK i \in 1..Len(s) : /\ s[i].op = "enter" /\ s[i].state = c
                               /\ \A j \in 1..Len(s) : j > i => s[j].op # "enter"
    BY <1>2 DEF Enters
  <2>2. PICK k \in 1..Len(s) : /\ s[k].op = "enter" /\ s[k].state = b
                               /\ \A j \in 1..Len(s) : j > k => s[j].op # "enter"
    BY <2>1 DEF EndsIn
  <2>3. k \in Nat /\ i \in Nat /\ ~(k > i) /\ ~(i > k)
    BY <2>1, <2>2
  <2>4. k = i
    BY <2>3
  <2>5. QED
    BY <2>1, <2>2, <2>4
<1>3. QED
  BY <1>1, <1>2

(* The ways the scripts have to leave mode and state in step. *)
KeepsMode(s) == EntersNothing(s) /\ Leaves(s, "streaming") /\ Leaves(s, "wakenet")
ToListening(s) ==
  Enters(s, "LISTENING") /\ RaisesLast(s, "streaming") /\ DropsLast(s, "wakenet")
ToSpeaking(s) ==
  Enters(s, "SPEAKING") /\ DropsLast(s, "streaming") /\ RaisesLast(s, "wakenet")
ToReady(s) == Enters(s, "CONNECTED_IDLE") /\ RaisesLast(s, "wakenet")
ToElsewhere(s) == Enters(s, "HANDSHAKING") \/ Enters(s, "CONNECTING")

Settles(s) ==
  KeepsMode(s) \/ ToListening(s) \/ ToSpeaking(s) \/ ToReady(s) \/ ToElsewhere(s)

(* A script that leaves a session active leaves a conversation, if it was  *)
(* begun in one.                                                           *)
KeepsTalk(s) ==
  EntersNothing(s) \/ DropsLast(s, "active")
    \/ Enters(s, "LISTENING") \/ Enters(s, "SPEAKING")

LEMMA ScriptSettles ==
  ASSUME NEW s \in Seq(Op), Settles(s), NEW F, NEW a, NEW b, EndsIn(a, s, b),
         Matches(a, "streaming" \in F, "wakenet" \in F)
  PROVE  Matches(b, HoldsAfter("streaming", F, s), HoldsAfter("wakenet", F, s))
<1>1. CASE KeepsMode(s)
  <2>1. b = a /\ (HoldsAfter("streaming", F, s) <=> "streaming" \in F)
        /\ (HoldsAfter("wakenet", F, s) <=> "wakenet" \in F)
    BY <1>1, FlagEffects, StateEffects DEF KeepsMode
  <2>2. QED
    BY <2>1 DEF Matches
<1>2. CASE ToListening(s)
  <2>1. b = "LISTENING" /\ HoldsAfter("streaming", F, s) /\ ~HoldsAfter("wakenet", F, s)
    BY <1>2, FlagEffects, StateEffects DEF ToListening
  <2>2. QED
    BY <2>1 DEF Matches
<1>3. CASE ToSpeaking(s)
  <2>1. b = "SPEAKING" /\ ~HoldsAfter("streaming", F, s) /\ HoldsAfter("wakenet", F, s)
    BY <1>3, FlagEffects, StateEffects DEF ToSpeaking
  <2>2. QED
    BY <2>1 DEF Matches
<1>4. CASE ToReady(s)
  <2>1. b = "CONNECTED_IDLE" /\ HoldsAfter("wakenet", F, s)
    BY <1>4, FlagEffects, StateEffects DEF ToReady
  <2>2. QED
    BY <2>1 DEF Matches
<1>5. CASE ToElsewhere(s)
  <2>1. b \in {"HANDSHAKING", "CONNECTING"}
    BY <1>5, StateEffects DEF ToElsewhere
  <2>2. QED
    BY <2>1 DEF Matches
<1>6. QED
  BY <1>1, <1>2, <1>3, <1>4, <1>5 DEF Settles

(* The scripts of the callbacks. *)
LEMMA CallbackEnds ==
  /\ \A s \in {WakeStarts, WakeInterrupts, OnClearCache, OnUserQueryEnd,
               OnHelloEnded, OnExitIntent, OnTurnEnded, OnSessionFinished,
               OnRecoverableError, OnFatalError} :
       /\ s # <<>> /\ Settles(s)
       /\ NeverRaises(s, "active") /\ EntersWithLast(s)
  /\ \A s \in {WakeInterrupts, OnClearCache, OnUserQueryEnd, OnHelloEnded,
               OnExitIntent, OnTurnEnded, OnSessionFinished,
               OnRecoverableError, OnFatalError} :
       KeepsTalk(s)
<1> USE DEF Raise, Drop, Enter, Clear, Send, Delay, StopWs, Raises, Drops
<1>1. /\ WakeStarts # <<>>
      /\ Settles(WakeStarts)
      /\ NeverRaises(WakeStarts, "active")
      /\ EntersWithLast(WakeStarts)
  <2> DEFINE s == WakeStarts
  <2>1. /\ s # <<>> /\ Len(s) = 2
        /\ s[1].op = "drop" /\ s[1].flag = "wakenet"
        /\ s[2].op = "enter" /\ s[2].state = "HANDSHAKING"
    BY DEF WakeStarts
  <2> HIDE DEF s
  <2>2. Enters(s, "HANDSHAKING")
    BY <2>1 DEF Enters
  <2>3. NeverRaises(s, "active")
    BY <2>1 DEF NeverRaises
  <2>4. EntersWithLast(s)
    BY <2>1 DEF EntersWithLast
  <2>5. QED
    BY <2>1, <2>2, <2>3, <2>4 DEF Settles, ToElsewhere, s
<1>2. /\ WakeInterrupts # <<>>
      /\ Settles(WakeInterrupts)
      /\ NeverRaises(WakeInterrupts, "active")
      /\ KeepsTalk(WakeInterrupts)
      /\ EntersWithLast(WakeInterrupts)
  <2> DEFINE s == WakeInterrupts
  <2>1. /\ s # <<>> /\ Len(s) = 2
        /\ s[1].op = "clear"
        /\ s[2].op = "raise" /\ s[2].flag = "bargein"
    BY DEF WakeInterrupts
  <2> HIDE DEF s
  <2>2. EntersNothing(s)
    BY <2>1 DEF EntersNothing
  <2>3. Leaves(s, "streaming")
    BY <2>1 DEF Leaves
  <2>4. Leaves(s, "wakenet")
    BY <2>1 DEF Leaves
  <2>5. NeverRaises(s, "active")
    BY <2>1 DEF NeverRaises
  <2>6. EntersWithLast(s)
    BY <2>1 DEF EntersWithLast
  <2>7. QED
    BY <2>1, <2>2, <2>3, <2>4, <2>5, <2>6 DEF Settles, KeepsMode, KeepsTalk, s
<1>3. /\ OnClearCache # <<>>
      /\ Settles(OnClearCache)
      /\ NeverRaises(OnClearCache, "active")
      /\ KeepsTalk(OnClearCache)
      /\ EntersWithLast(OnClearCache)
  <2> DEFINE s == OnClearCache
  <2>1. /\ s # <<>> /\ Len(s) = 4
        /\ s[1].op = "clear"
        /\ s[2].op = "drop" /\ s[2].flag = "wakenet"
        /\ s[3].op = "raise" /\ s[3].flag = "streaming"
        /\ s[4].op = "enter" /\ s[4].state = "LISTENING"
    BY DEF OnClearCache
  <2> HIDE DEF s
  <2>2. Enters(s, "LISTENING")
    BY <2>1 DEF Enters
  <2>3. RaisesLast(s, "streaming")
    BY <2>1 DEF RaisesLast
  <2>4. DropsLast(s, "wakenet")
    BY <2>1 DEF DropsLast
  <2>5. NeverRaises(s, "active")
    BY <2>1 DEF NeverRaises
  <2>6. EntersWithLast(s)
    BY <2>1 DEF EntersWithLast
  <2>7. QED
    BY <2>1, <2>2, <2>3, <2>4, <2>5, <2>6 DEF Settles, ToListening, KeepsTalk, s
<1>4. /\ OnUserQueryEnd # <<>>
      /\ Settles(OnUserQueryEnd)
      /\ NeverRaises(OnUserQueryEnd, "active")
      /\ KeepsTalk(OnUserQueryEnd)
      /\ EntersWithLast(OnUserQueryEnd)
  <2> DEFINE s == OnUserQueryEnd
  <2>1. /\ s # <<>> /\ Len(s) = 4
        /\ s[1].op = "drop" /\ s[1].flag = "streaming"
        /\ s[2].op = "raise" /\ s[2].flag = "wakenet"
        /\ s[3].op = "clear"
        /\ s[4].op = "enter" /\ s[4].state = "SPEAKING"
    BY DEF OnUserQueryEnd
  <2> HIDE DEF s
  <2>2. Enters(s, "SPEAKING")
    BY <2>1 DEF Enters
  <2>3. DropsLast(s, "streaming")
    BY <2>1 DEF DropsLast
  <2>4. RaisesLast(s, "wakenet")
    BY <2>1 DEF RaisesLast
  <2>5. NeverRaises(s, "active")
    BY <2>1 DEF NeverRaises
  <2>6. EntersWithLast(s)
    BY <2>1 DEF EntersWithLast
  <2>7. QED
    BY <2>1, <2>2, <2>3, <2>4, <2>5, <2>6 DEF Settles, ToSpeaking, KeepsTalk, s
<1>5. /\ OnHelloEnded # <<>>
      /\ Settles(OnHelloEnded)
      /\ NeverRaises(OnHelloEnded, "active")
      /\ KeepsTalk(OnHelloEnded)
      /\ EntersWithLast(OnHelloEnded)
  <2> DEFINE s == OnHelloEnded
  <2>1. /\ s # <<>> /\ Len(s) = 2
        /\ s[1].op = "clear"
        /\ s[2].op = "raise" /\ s[2].flag = "hello_done"
    BY DEF OnHelloEnded, ClearForTurn
  <2> HIDE DEF s
  <2>2. EntersNothing(s)
    BY <2>1 DEF EntersNothing
  <2>3. Leaves(s, "streaming")
    BY <2>1 DEF Leaves
  <2>4. Leaves(s, "wakenet")
    BY <2>1 DEF Leaves
  <2>5. NeverRaises(s, "active")
    BY <2>1 DEF NeverRaises
  <2>6. EntersWithLast(s)
    BY <2>1 DEF EntersWithLast
  <2>7. QED
    BY <2>1, <2>2, <2>3, <2>4, <2>5, <2>6 DEF Settles, KeepsMode, KeepsTalk, s
<1>6. /\ OnExitIntent # <<>>
      /\ Settles(OnExitIntent)
      /\ NeverRaises(OnExitIntent, "active")
      /\ KeepsTalk(OnExitIntent)
      /\ EntersWithLast(OnExitIntent)
  <2> DEFINE s == OnExitIntent
  <2>1. /\ s # <<>> /\ Len(s) = 7
        /\ s[1].op = "clear"
        /\ s[2].op = "drop" /\ s[2].flag = "streaming"
        /\ s[3].op = "raise" /\ s[3].flag = "wakenet"
        /\ s[4].op = "send"
        /\ s[5].op = "delay"
        /\ s[6].op = "drop" /\ s[6].flag = "active"
        /\ s[7].op = "enter" /\ s[7].state = "CONNECTED_IDLE"
    BY DEF OnExitIntent, ClearForTurn
  <2> HIDE DEF s
  <2>2. Enters(s, "CONNECTED_IDLE")
    BY <2>1 DEF Enters
  <2>3. RaisesLast(s, "wakenet")
    BY <2>1 DEF RaisesLast
  <2>4. NeverRaises(s, "active")
    BY <2>1 DEF NeverRaises
  <2>5. DropsLast(s, "active")
    BY <2>1 DEF DropsLast
  <2>6. EntersWithLast(s)
    BY <2>1 DEF EntersWithLast
  <2>7. QED
    BY <2>1, <2>2, <2>3, <2>4, <2>5, <2>6 DEF Settles, ToReady, KeepsTalk, s
<1>7. /\ OnTurnEnded # <<>>
      /\ Settles(OnTurnEnded)
      /\ NeverRaises(OnTurnEnded, "active")
      /\ KeepsTalk(OnTurnEnded)
      /\ EntersWithLast(OnTurnEnded)
  <2> DEFINE s == OnTurnEnded
  <2>1. /\ s # <<>> /\ Len(s) = 4
        /\ s[1].op = "clear"
        /\ s[2].op = "drop" /\ s[2].flag = "wakenet"
        /\ s[3].op = "raise" /\ s[3].flag = "streaming"
        /\ s[4].op = "enter" /\ s[4].state = "LISTENING"
    BY DEF OnTurnEnded, ClearForTurn
  <2> HIDE DEF s
  <2>2. Enters(s, "LISTENING")
    BY <2>1 DEF Enters
  <2>3. RaisesLast(s, "streaming")
    BY <2>1 DEF RaisesLast
  <2>4. DropsLast(s, "wakenet")
    BY <2>1 DEF DropsLast
  <2>5. NeverRaises(s, "active")
    BY <2>1 DEF NeverRaises
  <2>6. EntersWithLast(s)
    BY <2>1 DEF EntersWithLast
  <2>7. QED
    BY <2>1, <2>2, <2>3, <2>4, <2>5, <2>6 DEF Settles, ToListening, KeepsTalk, s
<1>8. /\ OnSessionFinished # <<>>
      /\ Settles(OnSessionFinished)
      /\ NeverRaises(OnSessionFinished, "active")
      /\ KeepsTalk(OnSessionFinished)
      /\ EntersWithLast(OnSessionFinished)
  <2> DEFINE s == OnSessionFinished
  <2>1. /\ s # <<>> /\ Len(s) = 4
        /\ s[1].op = "drop" /\ s[1].flag = "active"
        /\ s[2].op = "drop" /\ s[2].flag = "streaming"
        /\ s[3].op = "raise" /\ s[3].flag = "wakenet"
        /\ s[4].op = "enter" /\ s[4].state = "CONNECTED_IDLE"
    BY DEF OnSessionFinished
  <2> HIDE DEF s
  <2>2. Enters(s, "CONNECTED_IDLE")
    BY <2>1 DEF Enters
  <2>3. RaisesLast(s, "wakenet")
    BY <2>1 DEF RaisesLast
  <2>4. NeverRaises(s, "active")
    BY <2>1 DEF NeverRaises
  <2>5. DropsLast(s, "active")
    BY <2>1 DEF DropsLast
  <2>6. EntersWithLast(s)
    BY <2>1 DEF EntersWithLast
  <2>7. QED
    BY <2>1, <2>2, <2>3, <2>4, <2>5, <2>6 DEF Settles, ToReady, KeepsTalk, s
<1>9. /\ OnRecoverableError # <<>>
      /\ Settles(OnRecoverableError)
      /\ NeverRaises(OnRecoverableError, "active")
      /\ KeepsTalk(OnRecoverableError)
      /\ EntersWithLast(OnRecoverableError)
  <2> DEFINE s == OnRecoverableError
  <2>1. /\ s # <<>> /\ Len(s) = 8
        /\ s[1].op = "clear"
        /\ s[2].op = "drop" /\ s[2].flag = "streaming"
        /\ s[3].op = "drop" /\ s[3].flag = "active"
        /\ s[4].op = "clear"
        /\ s[5].op = "send"
        /\ s[6].op = "delay"
        /\ s[7].op = "raise" /\ s[7].flag = "wakenet"
        /\ s[8].op = "enter" /\ s[8].state = "CONNECTED_IDLE"
    BY DEF OnRecoverableError
  <2> HIDE DEF s
  <2>2. Enters(s, "CONNECTED_IDLE")
    BY <2>1 DEF Enters
  <2>3. RaisesLast(s, "wakenet")
    BY <2>1 DEF RaisesLast
  <2>4. NeverRaises(s, "active")
    BY <2>1 DEF NeverRaises
  <2>5. DropsLast(s, "active")
    BY <2>1 DEF DropsLast
  <2>6. EntersWithLast(s)
    BY <2>1 DEF EntersWithLast
  <2>7. QED
    BY <2>1, <2>2, <2>3, <2>4, <2>5, <2>6 DEF Settles, ToReady, KeepsTalk, s
<1>10. /\ OnFatalError # <<>>
      /\ Settles(OnFatalError)
      /\ NeverRaises(OnFatalError, "active")
      /\ KeepsTalk(OnFatalError)
      /\ EntersWithLast(OnFatalError)
  <2> DEFINE s == OnFatalError
  <2>1. /\ s # <<>> /\ Len(s) = 1
        /\ s[1].op = "drop" /\ s[1].flag = "running"
    BY DEF OnFatalError
  <2> HIDE DEF s
  <2>2. EntersNothing(s)
    BY <2>1 DEF EntersNothing
  <2>3. Leaves(s, "streaming")
    BY <2>1 DEF Leaves
  <2>4. Leaves(s, "wakenet")
    BY <2>1 DEF Leaves
  <2>5. NeverRaises(s, "active")
    BY <2>1 DEF NeverRaises
  <2>6. EntersWithLast(s)
    BY <2>1 DEF EntersWithLast
  <2>7. QED
    BY <2>1, <2>2, <2>3, <2>4, <2>5, <2>6 DEF Settles, KeepsMode, KeepsTalk, s
<1>11. QED
  BY <1>1, <1>2, <1>3, <1>4, <1>5, <1>6, <1>7, <1>8, <1>9, <1>10

(* The scripts of the FSM: only the greeting raises the flag of a session, *)
(* and a conversation is begun, interrupted and ended.                     *)
LEMMA FsmEnds ==
  /\ \A s \in {BargeIn, Reconnect, Ready, RetryConnect, ButtonStarts,
               GreetServer, StartListening, ButtonEnds, LeaveDeadSession,
               DestroyWs, DestroyWs \o RetryConnect} :
       s # <<>> /\ Settles(s)
  /\ \A s \in {BargeIn, Reconnect, Ready, RetryConnect, ButtonStarts,
               StartListening, ButtonEnds, LeaveDeadSession, DestroyWs,
               DestroyWs \o RetryConnect} :
       NeverRaises(s, "active")
  /\ Enters(StartListening, "LISTENING")
  /\ DropsLast(BargeIn, "active") /\ DropsLast(ButtonEnds, "active")
<1> USE DEF Raise, Drop, Enter, Clear, Send, Delay, StopWs, Raises, Drops
<1>1. /\ BargeIn # <<>>
      /\ Settles(BargeIn)
      /\ NeverRaises(BargeIn, "active")
      /\ DropsLast(BargeIn, "active")
  <2> DEFINE s == BargeIn
  <2>1. /\ s # <<>> /\ Len(s) = 6
        /\ s[1].op = "drop" /\ s[1].flag = "bargein"
        /\ s[2].op = "clear"
        /\ s[3].op = "send"
        /\ s[4].op = "delay"
        /\ s[5].op = "drop" /\ s[5].flag = "active"
        /\ s[6].op = "enter" /\ s[6].state = "HANDSHAKING"
    BY DEF BargeIn
  <2> HIDE DEF s
  <2>2. Enters(s, "HANDSHAKING")
    BY <2>1 DEF Enters
  <2>3. NeverRaises(s, "active")
    BY <2>1 DEF NeverRaises
  <2>4. DropsLast(s, "active")
    BY <2>1 DEF DropsLast
  <2>5. QED
    BY <2>1, <2>2, <2>3, <2>4 DEF Settles, ToElsewhere, s
<1>2. /\ Reconnect # <<>>
      /\ Settles(Reconnect)
      /\ NeverRaises(Reconnect, "active")
  <2> DEFINE s == Reconnect
  <2>1. /\ s # <<>> /\ Len(s) = 3
        /\ s[1].op = "drop" /\ s[1].flag = "connected"
        /\ s[2].op = "stop"
        /\ s[3].op = "enter" /\ s[3].state = "CONNECTING"
    BY DEF Reconnect, DestroyWs
  <2> HIDE DEF s
  <2>2. Enters(s, "CONNECTING")
    BY <2>1 DEF Enters
  <2>3. NeverRaises(s, "active")
    BY <2>1 DEF NeverRaises
  <2>4. QED
    BY <2>1, <2>2, <2>3 DEF Settles, ToElsewhere, s
<1>3. /\ Ready # <<>>
      /\ Settles(Ready)
      /\ NeverRaises(Ready, "active")
  <2> DEFINE s == Ready
  <2>1. /\ s # <<>> /\ Len(s) = 2
        /\ s[1].op = "raise" /\ s[1].flag = "wakenet"
        /\ s[2].op = "enter" /\ s[2].state = "CONNECTED_IDLE"
    BY DEF Ready
  <2> HIDE DEF s
  <2>2. Enters(s, "CONNECTED_IDLE")
    BY <2>1 DEF Enters
  <2>3. RaisesLast(s, "wakenet")
    BY <2>1 DEF RaisesLast
  <2>4. NeverRaises(s, "active")
    BY <2>1 DEF NeverRaises
  <2>5. QED
    BY <2>1, <2>2, <2>3, <2>4 DEF Settles, ToReady, s
<1>4. /\ RetryConnect # <<>>
      /\ Settles(RetryConnect)
      /\ NeverRaises(RetryConnect, "active")
  <2> DEFINE s == RetryConnect
  <2>1. /\ s # <<>> /\ Len(s) = 4
        /\ s[1].op = "raise" /\ s[1].flag = "wakenet"
        /\ s[2].op = "enter" /\ s[2].state = "CONNECTED_IDLE"
        /\ s[3].op = "delay"
        /\ s[4].op = "enter" /\ s[4].state = "CONNECTING"
    BY DEF RetryConnect, Ready
  <2> HIDE DEF s
  <2>2. Enters(s, "CONNECTING")
    BY <2>1 DEF Enters
  <2>3. NeverRaises(s, "active")
    BY <2>1 DEF NeverRaises
  <2>4. QED
    BY <2>1, <2>2, <2>3 DEF Settles, ToElsewhere, s
<1>5. /\ ButtonStarts # <<>>
      /\ Settles(ButtonStarts)
      /\ NeverRaises(ButtonStarts, "active")
  <2> DEFINE s == ButtonStarts
  <2>1. /\ s # <<>> /\ Len(s) = 3
        /\ s[1].op = "drop" /\ s[1].flag = "wakenet"
        /\ s[2].op = "enter" /\ s[2].state = "HANDSHAKING"
        /\ s[3].op = "delay"
    BY DEF ButtonStarts
  <2> HIDE DEF s
  <2>2. Enters(s, "HANDSHAKING")
    BY <2>1 DEF Enters
  <2>3. NeverRaises(s, "active")
    BY <2>1 DEF NeverRaises
  <2>4. QED
    BY <2>1, <2>2, <2>3 DEF Settles, ToElsewhere, s
<1>6. /\ GreetServer # <<>>
      /\ Settles(GreetServer)
  <2> DEFINE s == GreetServer
  <2>1. /\ s # <<>> /\ Len(s) = 4
        /\ s[1].op = "delay"
        /\ s[2].op = "drop" /\ s[2].flag = "hello_done"
        /\ s[3].op = "raise" /\ s[3].flag = "active"
        /\ s[4].op = "send"
    BY DEF GreetServer
  <2> HIDE DEF s
  <2>2. EntersNothing(s)
    BY <2>1 DEF EntersNothing
  <2>3. Leaves(s, "streaming")
    BY <2>1 DEF Leaves
  <2>4. Leaves(s, "wakenet")
    BY <2>1 DEF Leaves
  <2>5. QED
    BY <2>1, <2>2, <2>3, <2>4 DEF Settles, KeepsMode, s
<1>7. /\ StartListening # <<>>
      /\ Settles(StartListening)
      /\ NeverRaises(StartListening, "active")
      /\ Enters(StartListening, "LISTENING")
  <2> DEFINE s == StartListening
  <2>1. /\ s # <<>> /\ Len(s) = 4
        /\ s[1].op = "clear"
        /\ s[2].op = "drop" /\ s[2].flag = "wakenet"
        /\ s[3].op = "raise" /\ s[3].flag = "streaming"
        /\ s[4].op = "enter" /\ s[4].state = "LISTENING"
    BY DEF StartListening
  <2> HIDE DEF s
  <2>2. Enters(s, "LISTENING")
    BY <2>1 DEF Enters
  <2>3. RaisesLast(s, "streaming")
    BY <2>1 DEF RaisesLast
  <2>4. DropsLast(s, "wakenet")
    BY <2>1 DEF DropsLast
  <2>5. NeverRaises(s, "active")
    BY <2>1 DEF NeverRaises
  <2>6. QED
    BY <2>1, <2>2, <2>3, <2>4, <2>5 DEF Settles, ToListening, s
<1>8. /\ ButtonEnds # <<>>
      /\ Settles(ButtonEnds)
      /\ NeverRaises(ButtonEnds, "active")
      /\ DropsLast(ButtonEnds, "active")
  <2> DEFINE s == ButtonEnds
  <2>1. /\ s # <<>> /\ Len(s) = 7
        /\ s[1].op = "drop" /\ s[1].flag = "streaming"
        /\ s[2].op = "send"
        /\ s[3].op = "delay"
        /\ s[4].op = "drop" /\ s[4].flag = "active"
        /\ s[5].op = "raise" /\ s[5].flag = "wakenet"
        /\ s[6].op = "enter" /\ s[6].state = "CONNECTED_IDLE"
        /\ s[7].op = "delay"
    BY DEF ButtonEnds
  <2> HIDE DEF s
  <2>2. Enters(s, "CONNECTED_IDLE")
    BY <2>1 DEF Enters
  <2>3. RaisesLast(s, "wakenet")
    BY <2>1 DEF RaisesLast
  <2>4. NeverRaises(s, "active")
    BY <2>1 DEF NeverRaises
  <2>5. DropsLast(s, "active")
    BY <2>1 DEF DropsLast
  <2>6. QED
    BY <2>1, <2>2, <2>3, <2>4, <2>5 DEF Settles, ToReady, s
<1>9. /\ LeaveDeadSession # <<>>
      /\ Settles(LeaveDeadSession)
      /\ NeverRaises(LeaveDeadSession, "active")
  <2> DEFINE s == LeaveDeadSession
  <2>1. /\ s # <<>> /\ Len(s) = 3
        /\ s[1].op = "drop" /\ s[1].flag = "streaming"
        /\ s[2].op = "raise" /\ s[2].flag = "wakenet"
        /\ s[3].op = "enter" /\ s[3].state = "CONNECTED_IDLE"
    BY DEF LeaveDeadSession
  <2> HIDE DEF s
  <2>2. Enters(s, "CONNECTED_IDLE")
    BY <2>1 DEF Enters
  <2>3. RaisesLast(s, "wakenet")
    BY <2>1 DEF RaisesLast
  <2>4. NeverRaises(s, "active")
    BY <2>1 DEF NeverRaises
  <2>5. QED
    BY <2>1, <2>2, <2>3, <2>4 DEF Settles, ToReady, s
<1>10. /\ DestroyWs # <<>>
      /\ Settles(DestroyWs)
      /\ NeverRaises(DestroyWs, "active")
  <2> DEFINE s == DestroyWs
  <2>1. /\ s # <<>> /\ Len(s) = 2
        /\ s[1].op = "drop" /\ s[1].flag = "connected"
        /\ s[2].op = "stop"
    BY DEF DestroyWs
  <2> HIDE DEF s
  <2>2. EntersNothing(s)
    BY <2>1 DEF EntersNothing
  <2>3. Leaves(s, "streaming")
    BY <2>1 DEF Leaves
  <2>4. Leaves(s, "wakenet")
    BY <2>1 DEF Leaves
  <2>5. NeverRaises(s, "active")
    BY <2>1 DEF NeverRaises
  <2>6. QED
    BY <2>1, <2>2, <2>3, <2>4, <2>5 DEF Settles, KeepsMode, s
<1>11. /\ DestroyWs \o RetryConnect # <<>>
      /\ Settles(DestroyWs \o RetryConnect)
      /\ NeverRaises(DestroyWs \o RetryConnect, "active")
  <2> DEFINE s == DestroyWs \o RetryConnect
  <2>1. /\ s # <<>> /\ Len(s) = 6
        /\ s[1].op = "drop" /\ s[1].flag = "connected"
        /\ s[2].op = "stop"
        /\ s[3].op = "raise" /\ s[3].flag = "wakenet"
        /\ s[4].op = "enter" /\ s[4].state = "CONNECTED_IDLE"
        /\ s[5].op = "delay"
        /\ s[6].op = "enter" /\ s[6].state = "CONNECTING"
    BY DEF DestroyWs, RetryConnect, Ready
  <2> HIDE DEF s
  <2>2. Enters(s, "CONNECTING")
    BY <2>1 DEF Enters
  <2>3. NeverRaises(s, "active")
    BY <2>1 DEF NeverRaises
  <2>4. QED
    BY <2>1, <2>2, <2>3 DEF Settles, ToElsewhere, s
<1>12. QED
  BY <1>1, <1>2, <1>3, <1>4, <1>5, <1>6, <1>7, <1>8, <1>9, <1>10, <1>11

-----------------------------------------------------------------------------
(* The steps *)

(* A task that is alone runs the script that is under way, or all are at   *)
(* rest.                                                                   *)
LEMMA SteadyAlone ==
  ASSUME Steady, NEW u \in Task, Alone(u)
  PROVE  ModeAfter(todo[u]) /\ SessionAfter(todo[u])
<1>1. PICK t \in Task : Alone(t) /\ ModeAfter(todo[t]) /\ SessionAfter(todo[t])
  BY DEF Steady
<1>2. u = t \/ todo[u] = todo[t]
  BY <1>1 DEF Alone
<1>3. QED
  BY <1>1, <1>2

(* At rest the mode matches, and an active session is one of a talk.       *)
LEMMA SteadyAtRest ==
  ASSUME TypeOK, Steady, NEW u \in Task, Alone(u), todo[u] = <<>>
  PROVE  /\ Matches(app, "streaming" \in flags, "wakenet" \in flags)
         /\ "active" \in flags =>
              /\ pc \notin Quiet
              /\ pc # "hello" => app \in Talk
<1>1. ModeAfter(<<>>) /\ SessionAfter(<<>>)
  BY SteadyAlone
<1>2. app \in AppState
  BY DEF TypeOK
<1>3. EndsIn(app, <<>>, app) /\ \A f : HoldsAfter(f, flags, <<>>) <=> f \in flags
  BY NothingLeft
<1>4. Matches(app, HoldsAfter("streaming", flags, <<>>), HoldsAfter("wakenet", flags, <<>>))
  BY <1>1, <1>2, <1>3 DEF ModeAfter
<1>5. Matches(app, "streaming" \in flags, "wakenet" \in flags)
  BY <1>3, <1>4 DEF Matches
<1>6. QED
  BY <1>1, <1>2, <1>3, <1>5 DEF SessionAfter

LEMMA OperationEffect ==
  ASSUME TypeOK, NEW t \in Task, RunScript(t)
  PROVE  /\ todo[t] \in Seq(Op) /\ todo[t] # <<>>
         /\ todo'[t] = Tail(todo[t])
         /\ \A u \in Task \ {t} : todo'[u] = todo[u]
         /\ UNCHANGED pc
         /\ \A f : HoldsAfter(f, flags, todo[t]) <=> HoldsAfter(f, flags', todo'[t])
         /\ \A b : EndsIn(app, todo[t], b) <=> EndsIn(app', todo'[t], b)
         /\ app' = app \/ Head(todo[t]).op = "enter"
<1>1. /\ todo[t] \in Seq(Op) /\ todo[t] # <<>>
      /\ todo'[t] = Tail(todo[t])
      /\ \A u \in Task \ {t} : todo'[u] = todo[u]
      /\ UNCHANGED pc
  BY DEF RunScript, EndDelay, RaiseFlag, DropFlag, SetAppState, ClearBuffers, SendCommand,
         StopClient, Step, TypeOK
<1>2. \/ Head(todo[t]).op = "raise" /\ flags' = flags \cup {Head(todo[t]).flag}
      \/ Head(todo[t]).op = "drop" /\ flags' = flags \ {Head(todo[t]).flag}
      \/ Head(todo[t]).op \notin {"raise", "drop"} /\ flags' = flags
  BY DEF RunScript, EndDelay, RaiseFlag, DropFlag, SetAppState, ClearBuffers, SendCommand,
         StopClient, Step
<1>3. IF Head(todo[t]).op = "enter" THEN app' = Head(todo[t]).state ELSE app' = app
  BY DEF RunScript, EndDelay, RaiseFlag, DropFlag, SetAppState, ClearBuffers, SendCommand,
         StopClient, Step
<1>4. \A f : HoldsAfter(f, flags, todo[t]) <=> HoldsAfter(f, flags', Tail(todo[t]))
  BY <1>1, <1>2, OperationKeepsFlags
<1>5. \A b : EndsIn(app, todo[t], b) <=> EndsIn(app', Tail(todo[t]), b)
  BY <1>1, <1>3, OperationKeepsEnd
<1>6. QED
  BY <1>1, <1>3, <1>4, <1>5

LEMMA OperationKeepsSteady ==
  ASSUME TypeOK, CallbacksEnterLast, Steady, NEW t \in Task, RunScript(t), Alone(t)
  PROVE  Steady'
<1>1. /\ todo[t] \in Seq(Op) /\ todo[t] # <<>>
      /\ todo'[t] = Tail(todo[t])
      /\ \A u \in Task \ {t} : todo'[u] = todo[u]
      /\ UNCHANGED pc
      /\ \A f : HoldsAfter(f, flags, todo[t]) <=> HoldsAfter(f, flags', todo'[t])
      /\ \A b : EndsIn(app, todo[t], b) <=> EndsIn(app', todo'[t], b)
      /\ app' = app \/ Head(todo[t]).op = "enter"
  BY OperationEffect
<1>2. ModeAfter(todo[t]) /\ SessionAfter(todo[t])
  BY SteadyAlone
<1>3. Alone(t)'
  BY <1>1 DEF Alone
<1>4. ModeAfter(todo[t])'
  <2>1. ASSUME NEW b \in AppState, EndsIn(app', todo'[t], b)
        PROVE  Matches(b, HoldsAfter("streaming", flags', todo'[t]),
                       HoldsAfter("wakenet", flags', todo'[t]))
    <3>1. Matches(b, HoldsAfter("streaming", flags, todo[t]),
                  HoldsAfter("wakenet", flags, todo[t]))
      BY <1>1, <1>2, <2>1 DEF ModeAfter
    <3>2. QED
      BY <1>1, <3>1 DEF Matches
  <2>2. QED
    BY <2>1 DEF ModeAfter
<1>5. SessionAfter(todo[t])'
  <2>1. SUFFICES ASSUME HoldsAfter("active", flags', todo'[t])
                 PROVE  /\ pc \notin Quiet
                        /\ pc # "hello" => /\ \A b \in AppState :
                                                EndsIn(app', todo'[t], b) => b \in Talk
                                           /\ todo'["fsm"] = <<>> => app' \in Talk
    BY <1>1 DEF SessionAfter, Quiet, Talk
  <2>2. /\ pc \notin Quiet
        /\ pc # "hello" => /\ \A b \in AppState : EndsIn(app', todo'[t], b) => b \in Talk
                           /\ todo["fsm"] = <<>> => app \in Talk
    BY <1>1, <1>2, <2>1 DEF SessionAfter
  <2>3. ASSUME pc # "hello", todo'["fsm"] = <<>> PROVE app' \in Talk
    <3>1. app' \in AppState
      BY RunScriptIsTyped DEF TypeOK
    <3>2. CASE todo'[t] = <<>>
      <4>1. EndsIn(app', todo'[t], app')
        BY <3>2, NothingLeft
      <4>2. QED
        BY <2>2, <2>3, <3>1, <4>1
    <3>3. CASE todo'[t] # <<>>
      <4>1. t \in {"ws", "afe"} /\ todo["fsm"] = <<>>
        BY <1>1, <2>3, <3>3 DEF Task
      <4>2. Head(todo[t]).op # "enter"
        <5>1. \A s \in Seq(Op) :
                s # <<>> /\ Tail(s) # <<>>
                  => Head(s) = s[1] /\ 1 \in 1..Len(s) /\ Len(s) # 1
          OBVIOUS
        <5>2. Head(todo[t]) = todo[t][1] /\ 1 \in 1..Len(todo[t]) /\ Len(todo[t]) # 1
          BY <1>1, <3>3, <5>1
        <5>3. QED
          BY <4>1, <5>2 DEF CallbacksEnterLast
      <4>3. QED
        BY <1>1, <2>2, <2>3, <4>1, <4>2
    <3>4. QED
      BY <3>2, <3>3
  <2>4. QED
    BY <2>2, <2>3
<1>6. QED
  BY <1>3, <1>4, <1>5 DEF Steady

(* A callback begins, the other tasks being between two scripts. *)
LEMMA CallbackKeepsSteady ==
  ASSUME TypeOK, Steady, NEW t \in {"ws", "afe"}, NEW s \in Seq(Op),
         Alone(t), todo[t] = <<>>, todo' = [todo EXCEPT ![t] = s],
         UNCHANGED <<app, flags, pc>>,
         Settles(s), NeverRaises(s, "active"), KeepsTalk(s) \/ app = "CONNECTED_IDLE"
  PROVE  Steady'
<1>1. t \in Task /\ todo'[t] = s /\ Alone(t)' /\ todo'["fsm"] = <<>>
  BY DEF TypeOK, Task, Alone
<1>2. /\ Matches(app, "streaming" \in flags, "wakenet" \in flags)
      /\ "active" \in flags => /\ pc \notin Quiet
                               /\ pc # "hello" => app \in Talk
  BY <1>1, SteadyAtRest
<1>3. ASSUME NEW b \in AppState, EndsIn(app, s, b)
      PROVE  Matches(b, HoldsAfter("streaming", flags, s), HoldsAfter("wakenet", flags, s))
  BY <1>2, <1>3, ScriptSettles
<1>4. ModeAfter(todo[t])'
  BY <1>1, <1>3 DEF ModeAfter
<1>5. ASSUME HoldsAfter("active", flags, s)
      PROVE  /\ pc \notin Quiet
             /\ pc # "hello" => /\ \A b \in AppState : EndsIn(app, s, b) => b \in Talk
                                /\ app \in Talk
  <2>1. "active" \in flags
    BY <1>5, FlagEffects
  <2>2. ASSUME pc # "hello", NEW b \in AppState, EndsIn(app, s, b) PROVE b \in Talk
    <3>1. app \in Talk
      BY <1>2, <2>1, <2>2
    <3>2. KeepsTalk(s) /\ ~DropsLast(s, "active")
      BY <1>5, <3>1, FlagEffects DEF Talk
    <3>3. QED
      BY <2>2, <3>1, <3>2, StateEffects DEF KeepsTalk, Talk
  <2>3. QED
    BY <1>2, <2>1, <2>2
<1>6. SessionAfter(todo[t])'
  BY <1>1, <1>5 DEF SessionAfter
<1>7. QED
  BY <1>1, <1>4, <1>6 DEF Steady

(* The FSM begins a script. *)
LEMMA BranchKeepsSteady ==
  ASSUME TypeOK, Steady, NEW s \in Seq(Op), s # <<>>,
         Alone("fsm"), todo["fsm"] = <<>>, todo' = [todo EXCEPT !["fsm"] = s],
         UNCHANGED <<app, flags>>,
         Settles(s) \/ (app = "CONNECTING" /\ EntersNothing(s)),
         \/ pc' = "hello"
         \/ NeverRaises(s, "active")
            /\ (pc \in Quiet \/ "active" \notin flags \/ (pc = "switch" /\ app \notin Talk))
         \/ pc' \notin Quiet /\ (Enters(s, "LISTENING") \/ DropsLast(s, "active"))
  PROVE  Steady'
<1>1. "fsm" \in Task /\ todo'["fsm"] = s /\ Alone("fsm")'
  BY DEF TypeOK, Task, Alone
<1>2. /\ Matches(app, "streaming" \in flags, "wakenet" \in flags)
      /\ "active" \in flags => /\ pc \notin Quiet
                               /\ pc # "hello" => app \in Talk
  BY <1>1, SteadyAtRest
<1>3. ASSUME NEW b \in AppState, EndsIn(app, s, b)
      PROVE  Matches(b, HoldsAfter("streaming", flags, s), HoldsAfter("wakenet", flags, s))
  <2>1. CASE Settles(s)
    BY <1>2, <1>3, <2>1, ScriptSettles
  <2>2. CASE app = "CONNECTING" /\ EntersNothing(s)
    <3>1. b = "CONNECTING"
      BY <1>3, <2>2, StateEffects
    <3>2. QED
      BY <3>1 DEF Matches
  <2>3. QED
    BY <2>1, <2>2
<1>4. ModeAfter(todo["fsm"])'
  BY <1>1, <1>3 DEF ModeAfter
<1>5. ASSUME HoldsAfter("active", flags, s)
      PROVE  /\ pc' \notin Quiet
             /\ pc' # "hello" => \A b \in AppState : EndsIn(app, s, b) => b \in Talk
  <2>1. CASE pc' = "hello"
    BY <2>1 DEF Quiet
  <2>2. CASE NeverRaises(s, "active")
             /\ (pc \in Quiet \/ "active" \notin flags \/ (pc = "switch" /\ app \notin Talk))
    <3>1. "active" \in flags
      BY <1>5, <2>2, FlagEffects
    <3>2. QED
      BY <1>2, <2>2, <3>1
  <2>3. CASE pc' \notin Quiet /\ (Enters(s, "LISTENING") \/ DropsLast(s, "active"))
    <3>1. Enters(s, "LISTENING")
      BY <1>5, <2>3, FlagEffects
    <3>2. QED
      BY <2>3, <3>1, StateEffects DEF Talk
  <2>4. QED
    BY <2>1, <2>2, <2>3
<1>6. SessionAfter(todo["fsm"])'
  BY <1>1, <1>5 DEF SessionAfter, Quiet, Talk
<1>7. QED
  BY <1>1, <1>4, <1>6 DEF Steady

(* No script is begun or carried on: the FSM goes on to its next label, or *)
(* nothing happens that mode or session depend on.                         *)
LEMMA RestKeepsSteady ==
  ASSUME Steady, UNCHANGED <<todo, app>>,
         \A f \in {"streaming", "wakenet", "active"} : f \in flags' <=> f \in flags,
         \/ UNCHANGED pc
         \/ pc \in Quiet
         \/ pc = "switch" /\ todo["fsm"] = <<>> /\ app \notin Talk
         \/ {pc, pc'} \cap (Quiet \cup {"hello"}) = {}
  PROVE  Steady'
<1>1. PICK t \in Task : Alone(t) /\ ModeAfter(todo[t]) /\ SessionAfter(todo[t])
  BY DEF Steady
<1>2. PICK s : s = todo[t]
  OBVIOUS
<1>3. todo'[t] = s /\ Alone(t)'
  BY <1>1, <1>2 DEF Alone
<1>4. \A f \in {"streaming", "wakenet", "active"} :
        HoldsAfter(f, flags', s) <=> HoldsAfter(f, flags, s)
  BY DEF HoldsAfter
<1>5. ModeAfter(todo[t])'
  <2>1. ASSUME NEW b \in AppState, EndsIn(app, s, b)
        PROVE  Matches(b, HoldsAfter("streaming", flags', s), HoldsAfter("wakenet", flags', s))
    <3>1. Matches(b, HoldsAfter("streaming", flags, s), HoldsAfter("wakenet", flags, s))
      BY <1>1, <1>2, <2>1 DEF ModeAfter
    <3>2. QED
      BY <1>4, <3>1 DEF Matches
  <2>2. QED
    BY <1>3, <2>1 DEF ModeAfter
<1>6. SessionAfter(todo[t])'
  <2>1. ASSUME HoldsAfter("active", flags', s)
        PROVE  /\ pc' \notin Quiet
               /\ pc' # "hello" => /\ \A b \in AppState : EndsIn(app, s, b) => b \in Talk
                                   /\ todo["fsm"] = <<>> => app \in Talk
    <3>1. /\ pc \notin Quiet
          /\ pc # "hello" => /\ \A b \in AppState : EndsIn(app, s, b) => b \in Talk
                             /\ todo["fsm"] = <<>> => app \in Talk
      BY <1>1, <1>2, <1>4, <2>1 DEF SessionAfter
    <3>2. pc' = pc \/ {pc, pc'} \cap (Quiet \cup {"hello"}) = {}
      BY <3>1
    <3>3. QED
      BY <3>1, <3>2
  <2>2. QED
    BY <1>3, <2>1 DEF SessionAfter, Quiet, Talk
<1>7. QED
  BY <1>3, <1>5, <1>6 DEF Steady

(* What is done without an interruption is done alone. *)
LEMMA OneAtATime ==
  ASSUME MCNext, ~overlapped', NEW u \in Task, todo'[u] # todo[u],
         \A t \in Task \ {u} : todo'[t] = todo[t]
  PROVE  Alone(u)
BY DEF MCNext, Overlap, Alone

LEMMA FsmKeepsSteady ==
  ASSUME TypeOK, Steady, MCNext, ~overlapped', FsmStep, ~RunScript("fsm")
  PROVE  Steady'
<1>1. "fsm" \in Task /\ todo["fsm"] = <<>> /\ todo \in [Task -> Seq(Op)]
  BY DEF FsmStep, FsmLoop, FsmSwitch, FsmConnecting, FsmConnect,
         FsmStartConnection, FsmIdle, FsmHandshake, FsmStartSession, FsmHello, FsmTalk,
         FsmTalkCheck, FsmAt, Free, TypeOK, Task
<1>2. ASSUME NEW s, NEW label, FsmRun(s, label)
      PROVE  /\ pc' = label
             /\ todo' = [todo EXCEPT !["fsm"] = s]
             /\ s = <<>> => UNCHANGED todo
             /\ s # <<>> => Alone("fsm")
  <2>1. pc' = label /\ todo' = [todo EXCEPT !["fsm"] = s]
    BY <1>2 DEF FsmRun
  <2>2. s = <<>> => UNCHANGED todo
    BY <1>1, <2>1
  <2>3. todo'["fsm"] = s /\ \A t \in Task \ {"fsm"} : todo'[t] = todo[t]
    BY <1>1, <2>1
  <2>4. s # <<>> => Alone("fsm")
    BY <1>1, <2>3, OneAtATime
  <2>5. QED
    BY <2>1, <2>2, <2>4
(* A branch that does nothing more. *)
<1>3. ASSUME NEW label, FsmRun(<<>>, label), UNCHANGED app,
             \A f \in {"streaming", "wakenet", "active"} : f \in flags' <=> f \in flags,
             \/ pc \in Quiet
             \/ pc = "switch" /\ app \notin Talk
             \/ {pc, label} \cap (Quiet \cup {"hello"}) = {}
      PROVE  Steady'
  BY <1>1, <1>2, <1>3, RestKeepsSteady
(* A branch that runs a script. *)
<1>4. ASSUME NEW s \in Seq(Op), NEW label, FsmRun(s, label), s # <<>>,
             UNCHANGED <<app, flags>>,
             Settles(s) \/ (app = "CONNECTING" /\ EntersNothing(s)),
             \/ label = "hello"
             \/ NeverRaises(s, "active")
                /\ (pc \in Quiet \/ "active" \notin flags \/ (pc = "switch" /\ app \notin Talk))
             \/ label \notin Quiet /\ (Enters(s, "LISTENING") \/ DropsLast(s, "active"))
      PROVE  Steady'
  <2>1. pc' = label /\ todo' = [todo EXCEPT !["fsm"] = s] /\ Alone("fsm")
    BY <1>2, <1>4
  <2>2. QED
    BY <1>1, <1>4, <2>1, BranchKeepsSteady
<1> USE DEF Quiet, Talk
<1>5. CASE FsmLoop
  <2>1. pc = "top" /\ UNCHANGED <<app, flags>>
        /\ (FsmRun(<<>>, "ended") \/ FsmRun(<<>>, "switch") \/ FsmRun(BargeIn, "switch"))
    BY <1>5 DEF FsmLoop, FsmAt, FsmDecides, FsmOnly
  <2>2. QED
    BY <1>3, <1>4, <2>1, FsmScripts, FsmEnds
<1>6. CASE FsmSwitch
  <2>1. pc = "switch" /\ UNCHANGED <<app, flags>>
        /\ \/ app = "IDLE" /\ FsmRun(<<Enter("CONNECTING")>>, "top")
           \/ app = "CONNECTING" /\ FsmRun(<<Drop("wakenet")>>, "connecting")
           \/ app = "CONNECTED_IDLE" /\ FsmRun(<<>>, "idle")
           \/ app = "HANDSHAKING" /\ FsmRun(<<>>, "handshake")
           \/ app \in {"LISTENING", "SPEAKING"} /\ FsmRun(<<>>, "talk")
    BY <1>6 DEF FsmSwitch, FsmAt, FsmDecides, FsmOnly
  <2>2. CASE app = "IDLE" /\ FsmRun(<<Enter("CONNECTING")>>, "top")
    <3> DEFINE s == <<Enter("CONNECTING")>>
    <3>1. Len(s) = 1 /\ s # <<>> /\ s[1].op = "enter" /\ s[1].state = "CONNECTING"
      BY DEF Enter
    <3> HIDE DEF s
    <3>2. Settles(s) /\ NeverRaises(s, "active")
      BY <3>1 DEF Settles, ToElsewhere, Enters, NeverRaises, Raises
    <3>3. s \in Seq(Op)
      BY FsmScripts DEF s
    <3>4. QED
      BY <1>4, <2>1, <2>2, <3>1, <3>2, <3>3 DEF s
  <2>3. CASE app = "CONNECTING" /\ FsmRun(<<Drop("wakenet")>>, "connecting")
    <3> DEFINE s == <<Drop("wakenet")>>
    <3>1. Len(s) = 1 /\ s # <<>> /\ s[1].op = "drop"
      BY DEF Drop
    <3> HIDE DEF s
    <3>2. EntersNothing(s) /\ NeverRaises(s, "active")
      BY <3>1 DEF EntersNothing, NeverRaises, Raises
    <3>3. s \in Seq(Op)
      BY FsmScripts DEF s
    <3>4. QED
      BY <1>4, <2>1, <2>3, <3>1, <3>2, <3>3 DEF s
  <2>4. QED
    BY <1>3, <2>1, <2>2, <2>3
<1>7. CASE FsmConnecting
  <2>1. pc = "connecting" /\ UNCHANGED <<app, flags>>
        /\ (FsmRun(Ready, "top") \/ FsmRun(<<>>, "connect") \/ FsmRun(DestroyWs, "connect"))
    BY <1>7 DEF FsmConnecting, FsmAt, FsmDecides, FsmOnly
  <2>2. QED
    BY <1>3, <1>4, <2>1, FsmScripts, FsmEnds
<1>8. CASE FsmConnect
  <2>1. pc = "connect" /\ UNCHANGED app
        /\ \/ FsmRun(<<>>, "start_connection") /\ flags' = flags \cup {"connected"}
           \/ FsmRun(<<>> \o RetryConnect, "top") /\ UNCHANGED flags
           \/ FsmRun(DestroyWs \o RetryConnect, "top") /\ UNCHANGED flags
    BY <1>8 DEF FsmConnect, FsmAt
  <2>2. <<>> \o RetryConnect = RetryConnect
    BY FsmScripts
  <2>3. CASE FsmRun(<<>>, "start_connection") /\ flags' = flags \cup {"connected"}
    BY <1>3, <2>1, <2>3
  <2>4. CASE /\ FsmRun(RetryConnect, "top") \/ FsmRun(DestroyWs \o RetryConnect, "top")
             /\ UNCHANGED flags
    BY <1>4, <2>1, <2>4, FsmScripts, FsmEnds
  <2>5. QED
    BY <2>1, <2>2, <2>3, <2>4
<1>9. CASE FsmStartConnection
  <2>1. pc = "start_connection" /\ UNCHANGED <<app, flags>>
        /\ (FsmRun(Ready, "top") \/ FsmRun(DestroyWs \o RetryConnect, "top"))
    BY <1>9 DEF FsmStartConnection, FsmAt
  <2>2. QED
    BY <1>4, <2>1, FsmScripts, FsmEnds
<1>10. CASE FsmIdle
  <2>1. pc = "idle" /\ UNCHANGED <<app, flags>>
        /\ (FsmRun(<<>>, "top") \/ FsmRun(ButtonStarts, "top") \/ FsmRun(Reconnect, "top"))
    BY <1>10 DEF FsmIdle, FsmAt, FsmOnly, PollButton
  <2>2. QED
    BY <1>3, <1>4, <2>1, FsmScripts, FsmEnds
<1>11. CASE FsmHandshake
  <2>1. pc = "handshake" /\ UNCHANGED <<app, flags>>
        /\ (FsmRun(Reconnect, "top") \/ FsmRun(<<>>, "start_session"))
    BY <1>11 DEF FsmHandshake, FsmAt, FsmDecides, FsmOnly
  <2>2. QED
    BY <1>3, <1>4, <2>1, FsmScripts, FsmEnds
<1>12. CASE FsmStartSession
  <2>1. pc = "start_session" /\ UNCHANGED <<app, flags>>
        /\ (FsmRun(GreetServer, "hello") \/ FsmRun(Ready, "top"))
    BY <1>12 DEF FsmStartSession, FsmAt
  <2>2. QED
    BY <1>4, <2>1, FsmScripts, FsmEnds
<1>13. CASE FsmHello
  <2>1. UNCHANGED <<app, flags>> /\ FsmRun(StartListening, "top")
    BY <1>13 DEF FsmHello, FsmDecides, FsmOnly
  <2>2. QED
    BY <1>4, <2>1, FsmScripts, FsmEnds
<1>14. CASE FsmTalk
  <2>1. pc = "talk" /\ UNCHANGED <<app, flags>>
        /\ (FsmRun(<<>>, "talk_check") \/ FsmRun(ButtonEnds, "talk_check"))
    BY <1>14 DEF FsmTalk, FsmAt, FsmOnly, PollButton
  <2>2. QED
    BY <1>3, <1>4, <2>1, FsmScripts, FsmEnds
<1>15. CASE FsmTalkCheck
  <2>1. pc = "talk_check" /\ UNCHANGED <<app, flags>>
        /\ \/ FsmRun(<<>>, "top")
           \/ FsmRun(LeaveDeadSession, "top") /\ "active" \notin flags
    BY <1>15 DEF FsmTalkCheck, FsmAt, FsmDecides, FsmOnly
  <2>2. QED
    BY <1>3, <1>4, <2>1, FsmScripts, FsmEnds
<1>16. QED
  BY <1>5, <1>6, <1>7, <1>8, <1>9, <1>10, <1>11, <1>12, <1>13, <1>14, <1>15 DEF FsmStep

(* What a callback is, as a script. *)
LEMMA HandlerEnds ==
  ASSUME NEW event \in Event, HandlerOf(event) # <<>>
  PROVE  /\ Settles(HandlerOf(event)) /\ NeverRaises(HandlerOf(event), "active")
         /\ KeepsTalk(HandlerOf(event)) /\ EntersWithLast(HandlerOf(event))
<1>1. HandlerOf(event) \in {OnClearCache, OnUserQueryEnd, OnHelloEnded, OnExitIntent,
                            OnTurnEnded, OnSessionFinished, OnRecoverableError, OnFatalError}
  BY DEF HandlerOf, Event
<1>2. QED
  BY <1>1, CallbackEnds

LEMMA BootKeepsSteady ==
  ASSUME Steady, NotBooted, Boot
  PROVE  Steady'
<1>1. PICK t \in Task : Alone(t) /\ ModeAfter(todo[t]) /\ SessionAfter(todo[t])
  BY DEF Steady
<1>2. PICK s : s = todo[t]
  OBVIOUS
<1>3. todo'[t] = s /\ Alone(t)' /\ UNCHANGED <<flags, pc, todo>> /\ app' = "CONNECTING"
  BY <1>1, <1>2 DEF Boot, Alone
<1>4. \A b : EndsIn("CONNECTING", s, b) => b = "CONNECTING" \/ EndsIn(app, s, b)
  BY DEF EndsIn
<1>5. ModeAfter(todo[t])'
  <2>1. ASSUME NEW b \in AppState, EndsIn("CONNECTING", s, b)
        PROVE  Matches(b, HoldsAfter("streaming", flags, s), HoldsAfter("wakenet", flags, s))
    BY <1>1, <1>2, <1>4, <2>1 DEF ModeAfter, Matches
  <2>2. QED
    BY <1>3, <2>1 DEF ModeAfter
<1>6. ~HoldsAfter("active", flags, s)
  <2>1. "active" \notin flags
        /\ s \in {<<>>, <<Enter("CONNECTING")>>, <<Drop("wakenet")>>}
    BY <1>1, <1>2 DEF NotBooted, Boot, Task
  <2>2. CASE s = <<>>
    BY <2>1, <2>2 DEF HoldsAfter
  <2>3. CASE s = <<Enter("CONNECTING")>> \/ s = <<Drop("wakenet")>>
    <3>1. Len(s) = 1 /\ s[1].op # "raise"
      BY <2>3 DEF Enter, Drop
    <3>2. QED
      BY <2>1, <3>1 DEF HoldsAfter, Raises
  <2>4. QED
    BY <2>1, <2>2, <2>3
<1>7. SessionAfter(todo[t])'
  BY <1>3, <1>6 DEF SessionAfter
<1>8. QED
  BY <1>3, <1>5, <1>7 DEF Steady

LEMMA NextKeepsSteady ==
  ASSUME TypeOK, CallbacksEnterLast, NotBooted, Steady, MCNext, ~overlapped'
  PROVE  Steady'
<1>1. ASSUME NEW t \in Task, RunScript(t) PROVE Steady'
  <2>1. todo[t] \in Seq(Op) /\ todo[t] # <<>> /\ todo'[t] = Tail(todo[t])
    BY <1>1, OperationEffect
  <2>2. \A u \in Task \ {t} : todo'[u] = todo[u]
    BY <1>1, OperationEffect
  <2>3. \A s \in Seq(Op) : s # <<>> => Tail(s) # s
    OBVIOUS
  <2>4. Alone(t)
    BY <2>1, <2>2, <2>3, OneAtATime
  <2>5. QED
    BY <1>1, <2>4, OperationKeepsSteady
<1>2. CASE WsReceive
  <2>1. PICK s : s = HandlerOf(Head(net).event)
    OBVIOUS
  <2>2. Head(net) \in Message
    BY <1>2 DEF WsReceive, TypeOK
  <2>3. s \in Seq(Op)
    BY <2>1, <2>2, HandlerScripts DEF Message, CallbackOp
  <2>4. /\ todo["ws"] = <<>> /\ todo' = [todo EXCEPT !["ws"] = s]
        /\ UNCHANGED <<app, flags, pc>>
    BY <1>2, <2>1 DEF WsReceive, WsFree, Free
  <2>5. todo \in [Task -> Seq(Op)] /\ "ws" \in Task
    BY DEF TypeOK, Task
  <2>6. CASE s = <<>>
    <3>1. UNCHANGED todo
      BY <2>4, <2>5, <2>6
    <3>2. QED
      BY <2>4, <3>1, RestKeepsSteady
  <2>7. CASE s # <<>>
    <3>1. todo'["ws"] = s
      BY <2>4, <2>5
    <3>2. \A u \in Task \ {"ws"} : todo'[u] = todo[u]
      BY <2>4, <2>5
    <3>3. Alone("ws")
      BY <2>4, <2>5, <2>7, <3>1, <3>2, OneAtATime
    <3>4. Settles(s) /\ NeverRaises(s, "active") /\ KeepsTalk(s)
      BY <2>1, <2>2, <2>7, HandlerEnds DEF Message
    <3>5. QED
      BY <2>3, <2>4, <3>3, <3>4, CallbackKeepsSteady
  <2>8. QED
    BY <2>6, <2>7
<1>3. CASE WakeWord
  <2>1. todo \in [Task -> Seq(Op)] /\ "afe" \in Task
    BY DEF TypeOK, Task
  <2>2. PICK s \in {WakeStarts, WakeInterrupts} :
          /\ todo["afe"] = <<>> /\ todo' = [todo EXCEPT !["afe"] = s]
          /\ s = WakeInterrupts \/ app = "CONNECTED_IDLE"
    BY <1>3 DEF WakeWord, Free
  <2>3. UNCHANGED <<app, flags, pc>>
    BY <1>3 DEF WakeWord
  <2>4. /\ s \in Seq(Op) /\ s # <<>> /\ Settles(s) /\ NeverRaises(s, "active")
        /\ KeepsTalk(s) \/ app = "CONNECTED_IDLE"
    BY <2>2, WakeScripts, CallbackEnds DEF CallbackOp
  <2>5. todo'["afe"] = s
    BY <2>1, <2>2
  <2>6. \A u \in Task \ {"afe"} : todo'[u] = todo[u]
    BY <2>1, <2>2
  <2>7. Alone("afe")
    BY <2>1, <2>2, <2>4, <2>5, <2>6, OneAtATime
  <2>8. QED
    BY <2>2, <2>3, <2>4, <2>7, CallbackKeepsSteady
<1>4. CASE FsmStep /\ ~RunScript("fsm")
  BY <1>4, FsmKeepsSteady
<1>5. CASE Boot
  BY <1>5, BootKeepsSteady
<1>6. CASE WsDisconnected \/ ServerCloses \/ NetDrops \/ WsReopens \/ WsReopened \/ PlayOut
           \/ \E event \in Event : ServerSays(event)
  <2>1. UNCHANGED <<todo, app, pc>>
        /\ (flags' = flags \/ flags' = flags \ {"connected"}
              \/ flags' = flags \cup {"connected"})
    BY <1>6 DEF WsDisconnected, ServerCloses, NetDrops, WsReopens, WsReopened, PlayOut,
       ServerSays
  <2>2. QED
    BY <2>1, RestKeepsSteady
<1>7. QED
  BY <1>1, <1>2, <1>3, <1>4, <1>5, <1>6
     DEF MCNext, Next, WsStep, Environment, Task

LEMMA NextKeepsEnters ==
  ASSUME TypeOK, CallbacksEnterLast, Next
  PROVE  CallbacksEnterLast'
<1>1. ASSUME NEW t \in Task, RunScript(t) PROVE CallbacksEnterLast'
  <2>1. todo[t] \in Seq(Op) /\ todo[t] # <<>> /\ todo'[t] = Tail(todo[t])
    BY <1>1, OperationEffect
  <2>2. \A u \in Task \ {t} : todo'[u] = todo[u]
    BY <1>1, OperationEffect
  <2>3. \A s \in Seq(Op) :
          s # <<>> => /\ Len(Tail(s)) = Len(s) - 1
                      /\ \A i \in 1..Len(Tail(s)) :
                           Tail(s)[i] = s[i + 1] /\ i + 1 \in 1..Len(s)
    OBVIOUS
  <2>4. ASSUME t \in {"ws", "afe"}, NEW i \in 1..Len(todo'[t]), todo'[t][i].op = "enter"
        PROVE  i = Len(todo'[t])
    <3>1. i + 1 \in 1..Len(todo[t]) /\ todo[t][i + 1].op = "enter"
      BY <2>1, <2>3, <2>4
    <3>2. i + 1 = Len(todo[t])
      BY <2>4, <3>1 DEF CallbacksEnterLast
    <3>3. Len(todo'[t]) = Len(todo[t]) - 1 /\ i \in Nat
      BY <2>1, <2>3
    <3>4. QED
      BY <3>2, <3>3
  <2>5. QED
    BY <2>2, <2>4 DEF CallbacksEnterLast, Task
<1>2. CASE WsReceive
  <2>1. Head(net).event \in Event
    <3>1. Head(net) \in Message
      BY <1>2 DEF WsReceive, TypeOK
    <3>2. QED
      BY <3>1 DEF Message
  <2>2. PICK s : s = HandlerOf(Head(net).event)
    OBVIOUS
  <2>3. EntersWithLast(s)
    BY <2>1, <2>2, HandlerEnds DEF EntersWithLast
  <2>4. todo'["ws"] = s /\ todo'["afe"] = todo["afe"]
    BY <1>2, <2>2 DEF WsReceive, TypeOK, Task
  <2>5. QED
    BY <2>3, <2>4 DEF CallbacksEnterLast, EntersWithLast
<1>3. CASE WakeWord
  <2>1. PICK s \in {WakeStarts, WakeInterrupts} : todo' = [todo EXCEPT !["afe"] = s]
    BY <1>3 DEF WakeWord
  <2>2. EntersWithLast(s)
    BY CallbackEnds
  <2>3. todo'["afe"] = s /\ todo'["ws"] = todo["ws"]
    BY <2>1 DEF TypeOK, Task
  <2>4. QED
    BY <2>2, <2>3 DEF CallbacksEnterLast, EntersWithLast
<1>4. CASE FsmStep /\ ~RunScript("fsm")
  <2>1. \A u \in {"ws", "afe"} : todo'[u] = todo[u]
    BY <1>4 DEF FsmStep, FsmLoop, FsmSwitch, FsmConnecting, FsmConnect,
       FsmStartConnection, FsmIdle, FsmHandshake, FsmStartSession, FsmHello, FsmTalk,
       FsmTalkCheck, FsmRun, PollButton, TypeOK, Task
  <2>2. QED
    BY <2>1 DEF CallbacksEnterLast
<1>5. CASE Boot \/ WsDisconnected \/ ServerCloses \/ NetDrops \/ WsReopens \/ WsReopened
           \/ PlayOut \/ \E event \in Event : ServerSays(event)
  <2>1. UNCHANGED todo
    BY <1>5 DEF Boot, WsDisconnected, ServerCloses, NetDrops, WsReopens, WsReopened,
       PlayOut, ServerSays
  <2>2. QED
    BY <2>1 DEF CallbacksEnterLast
<1>6. QED
  BY <1>1, <1>2, <1>3, <1>4, <1>5 DEF Next, WsStep, Environment, Task

LEMMA NextKeepsNotBooted ==
  ASSUME TypeOK, NotBooted, Next
  PROVE  NotBooted'
<1> SUFFICES ASSUME ~booted' PROVE NotBooted'
  BY DEF NotBooted
<1>1. ~booted
  <2>1. \A t : RunScript(t) => booted' = booted
    BY DEF RunScript, EndDelay, RaiseFlag, DropFlag, SetAppState, ClearBuffers,
           SendCommand, StopClient, Step
  <2>2. QED
    BY <2>1 DEF Next, FsmStep, FsmLoop, FsmSwitch, FsmConnecting, FsmConnect,
       FsmStartConnection, FsmIdle, FsmHandshake, FsmStartSession, FsmHello, FsmTalk,
       FsmTalkCheck, FsmDecides, FsmOnly, WsStep, WsReceive, WsDisconnected, Boot,
       Environment, ServerSays, ServerCloses, NetDrops, WsReopens, WsReopened, WakeWord,
       PlayOut
<1>2. /\ "active" \notin flags /\ "connected" \notin flags /\ "bargein" \notin flags
      /\ link = "none"
      /\ app \in {"IDLE", "CONNECTING"}
      /\ pc \in {"top", "switch", "connecting", "connect", "ended"}
      /\ todo["ws"] = <<>> /\ todo["afe"] = <<>>
      /\ todo["fsm"] \in {<<>>, <<Enter("CONNECTING")>>, <<Drop("wakenet")>>}
  BY <1>1 DEF NotBooted
<1>3. CASE RunScript("fsm")
  <2>1. /\ todo'["fsm"] = Tail(todo["fsm"]) /\ todo["fsm"] # <<>>
        /\ todo'["ws"] = todo["ws"] /\ todo'["afe"] = todo["afe"] /\ pc' = pc
    BY <1>3, OperationEffect DEF Task
  <2>2. todo'["fsm"] = <<>> /\ Head(todo["fsm"]) \in {Enter("CONNECTING"), Drop("wakenet")}
    <3>1. \A x : Tail(<<x>>) = <<>> /\ Head(<<x>>) = x
      OBVIOUS
    <3>2. QED
      BY <1>2, <2>1, <3>1
  <2>3. Head(todo["fsm"]).op \in {"enter", "drop"}
        /\ (Head(todo["fsm"]).op = "enter" => Head(todo["fsm"]).state = "CONNECTING")
    BY <2>2 DEF Enter, Drop
  <2>4. link' = link /\ flags' \subseteq flags /\ app' \in {app, "CONNECTING"}
    BY <1>3, <2>3 DEF RunScript, EndDelay, RaiseFlag, DropFlag, SetAppState, ClearBuffers,
       SendCommand, StopClient, Step
  <2>5. QED
    BY <1>2, <2>1, <2>2, <2>4 DEF NotBooted
<1>4. CASE FsmStep /\ ~RunScript("fsm")
  <2>1. todo["fsm"] = <<>>
        /\ (FsmLoop \/ FsmSwitch \/ FsmConnecting)
    BY <1>1, <1>2, <1>4 DEF FsmStep, FsmLoop, FsmSwitch, FsmConnecting, FsmConnect,
       FsmStartConnection, FsmIdle, FsmHandshake, FsmStartSession, FsmHello, FsmTalk,
       FsmTalkCheck, FsmAt, Free
  <2>2. UNCHANGED <<app, flags, link>>
    BY <2>1 DEF FsmLoop, FsmSwitch, FsmConnecting, FsmDecides, FsmOnly
  <2>3. /\ pc' \in {"top", "switch", "connecting", "connect", "ended"}
        /\ todo'["ws"] = todo["ws"] /\ todo'["afe"] = todo["afe"]
        /\ todo'["fsm"] \in {<<>>, <<Enter("CONNECTING")>>, <<Drop("wakenet")>>}
    BY <1>2, <2>1 DEF FsmLoop, FsmSwitch, FsmConnecting, FsmRun, Connected, TypeOK, Task
  <2>4. QED
    BY <1>2, <2>2, <2>3 DEF NotBooted
<1>5. CASE PlayOut
  BY <1>2, <1>5 DEF PlayOut, NotBooted
<1>6. ~WsStep /\ ~RunScript("afe") /\ ~Boot
  <2>1. ~RunScript("ws") /\ ~RunScript("afe")
    BY <1>2, OperationEffect DEF Task
  <2>2. QED
    BY <1>1, <1>2, <2>1 DEF WsStep, WsReceive, WsDisconnected, WsFree, Boot
<1>7. Environment => PlayOut
  BY <1>2 DEF Environment, ServerSays, ServerCloses, NetDrops, WsReopens, WsReopened, WakeWord,
     Connected
<1>8. QED
  BY <1>3, <1>4, <1>5, <1>6, <1>7 DEF Next

LEMMA InitHasSerialInv == MCInit => SerialInv
<1> SUFFICES ASSUME MCInit PROVE SerialInv
  OBVIOUS
<1>1. \A t \in Task : todo[t] = <<>>
  BY DEF MCInit, Init
<1>2. app = "IDLE" /\ flags = {"running", "wakenet"} /\ pc = "top" /\ link = "none"
  BY DEF MCInit, Init
<1>3. CallbacksEnterLast /\ NotBooted
  BY <1>1, <1>2 DEF CallbacksEnterLast, NotBooted, Task
<1>4. "fsm" \in Task /\ Alone("fsm")
  BY <1>1 DEF Alone, Task
<1>5. ModeAfter(<<>>) /\ SessionAfter(<<>>)
  BY <1>2, NothingLeft DEF ModeAfter, SessionAfter, Matches
<1>6. QED
  BY <1>1, <1>3, <1>4, <1>5 DEF SerialInv, Steady

LEMMA NextKeepsSerialInv ==
  TypeOK /\ SerialInv /\ [MCNext]_<<vars, overlapped>> => SerialInv'
<1> SUFFICES ASSUME TypeOK, SerialInv, [MCNext]_<<vars, overlapped>> PROVE SerialInv'
  OBVIOUS
<1>1. CASE MCNext
  <2>1. Next /\ (~overlapped' => ~overlapped)
    BY <1>1 DEF MCNext
  <2>2. CallbacksEnterLast' /\ NotBooted'
    BY <2>1, NextKeepsEnters, NextKeepsNotBooted DEF SerialInv
  <2>3. ~overlapped' => Steady'
    BY <1>1, <2>1, NextKeepsSteady DEF SerialInv
  <2>4. QED
    BY <2>2, <2>3 DEF SerialInv
<1>2. CASE UNCHANGED <<vars, overlapped>>
  BY <1>2 DEF vars, SerialInv, CallbacksEnterLast, NotBooted, Steady, Alone, ModeAfter,
     SessionAfter
<1>3. QED
  BY <1>1, <1>2

(* The module with the history variable behaves like the module without. *)
LEMMA HistoryOnly == MCSpec => Spec
<1>1. MCInit => Init
  BY DEF MCInit
<1>2. [MCNext]_<<vars, overlapped>> => [Next]_vars
  BY DEF MCNext
<1>3. QED
  BY <1>1, <1>2, PTL DEF MCSpec, Spec

LEMMA SerialInvariance == MCSpec => [](TypeOK /\ SerialInv)
<1>1. MCSpec => []TypeOK
  BY HistoryOnly, TypeCorrect, PTL
<1>2. QED
  BY <1>1, InitHasSerialInv, NextKeepsSerialInv, PTL DEF MCSpec

(* As long as no task has interrupted another in the middle of a script,   *)
(* what the user sees is what the microphone and the wake word do: the     *)
(* mismatches the device can show (DialogReady) all need an interruption.  *)
THEOREM SerialModeAlwaysMatches == MCSpec => []SerialModeMatchesState
<1>1. ASSUME TypeOK, SerialInv, ~overlapped, AtRest
      PROVE  Matches(app, "streaming" \in flags, "wakenet" \in flags)
  <2>1. "fsm" \in Task /\ Alone("fsm") /\ todo["fsm"] = <<>>
    BY <1>1 DEF AtRest, Alone, Task
  <2>2. QED
    BY <1>1, <2>1, SteadyAtRest DEF SerialInv
<1>2. TypeOK /\ SerialInv => SerialModeMatchesState
  BY <1>1 DEF SerialModeMatchesState, ModeMatchesState, Matches
<1>3. QED
  BY <1>2, SerialInvariance, PTL

(* And then a device that shows itself ready has no session it believes    *)
(* active, whichever path has ended the last one.                          *)
THEOREM SerialReadyIsIdle == MCSpec => []SerialReadyHasNoSession
<1>1. ASSUME TypeOK, SerialInv, ~overlapped, AtRest, pc = "top", app = "CONNECTED_IDLE"
      PROVE  "active" \notin flags
  <2>1. "fsm" \in Task /\ Alone("fsm") /\ todo["fsm"] = <<>>
    BY <1>1 DEF AtRest, Alone, Task
  <2>2. QED
    BY <1>1, <2>1, SteadyAtRest DEF SerialInv, Talk
<1>2. TypeOK /\ SerialInv => SerialReadyHasNoSession
  BY <1>1 DEF SerialReadyHasNoSession, ReadyHasNoSession
<1>3. QED
  BY <1>2, SerialInvariance, PTL

=============================================================================
