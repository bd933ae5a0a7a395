--------------------------- MODULE CClientProofs ---------------------------
(***************************************************************************)
(* Proofs about SendQueue and CClient.  About the ring alone, for every    *)
(* size: it holds messages where it says it does, and it implements        *)
(* BoundedFifo.  About the program, for every size of the queue and every  *)
(* bound on what happens from outside: the types, that no thread outlives  *)
(* what it uses, that no wakeup and no request for a callback is lost,     *)
(* what a crash takes, that the threads use the queue as SendQueue says,   *)
(* so that CClient implements BoundedFifo, that what the server sees is    *)
(* the protocol, and that an undisturbed run ends with a goodbye.          *)
(***************************************************************************)
EXTENDS CClient, TLAPS

-----------------------------------------------------------------------------
(* The ring of SendQueue alone *)

(* The slot of the i-th message that waits, counted from head. *)
Place(head, i) == (head + i - 1) % QueueSize

(* One turn around the ring is all the code's indices ever make. *)
LEMMA Wrap ==
  ASSUME NEW a \in Int, -QueueSize <= a, a < 2 * QueueSize
  PROVE  a % QueueSize = IF a < 0 THEN a + QueueSize
                         ELSE IF a < QueueSize THEN a ELSE a - QueueSize
  BY QueueSizeAssumption

LEMMA NextSlot ==
  ASSUME NEW i \in Slot
  PROVE  After(i) = (IF i = QueueSize - 1 THEN 0 ELSE i + 1) /\ After(i) \in Slot
  BY Wrap, QueueSizeAssumption DEF After, Slot

LEMMA WaitingSize ==
  ASSUME send_head \in Slot, send_tail \in Slot
  PROVE  /\ Waiting = IF send_tail < send_head THEN send_tail - send_head + QueueSize
                      ELSE send_tail - send_head
         /\ Waiting \in 0..(QueueSize - 1)
  BY Wrap, QueueSizeAssumption DEF Waiting, Slot

LEMMA PlacesInRing ==
  ASSUME NEW head \in Slot, NEW i \in 1..QueueSize
  PROVE  /\ Place(head, i) = IF head + i - 1 < QueueSize THEN head + i - 1
                             ELSE head + i - 1 - QueueSize
         /\ Place(head, i) \in Slot
  BY Wrap, QueueSizeAssumption DEF Place, Slot

-----------------------------------------------------------------------------
(* What the three operations do to the messages that wait *)

LEMMA PushAppends ==
  ASSUME QueueTypeOK, NEW m \in Msg, Push(m)
  PROVE  /\ Waiting' = Waiting + 1 /\ Waiting < QueueSize - 1
         /\ Pending' = Append(Pending, m)
         /\ QueueTypeOK'
  <1> USE QueueSizeAssumption
  <1>1. /\ send_head \in Slot /\ send_tail \in Slot /\ send_tail' = After(send_tail)
        /\ send_head' = send_head /\ After(send_tail) # send_head
        /\ send_queue' = [send_queue EXCEPT ![send_tail] = m]
        /\ send_queue \in [Slot -> Msg \cup {NoMsg}] /\ freed' = freed
    BY DEF QueueTypeOK, Push, IsFull
  <1>2. send_tail' \in Slot /\ send_head' \in Slot
    BY <1>1, NextSlot
  <1>3. Waiting' = IF send_tail' < send_head THEN send_tail' - send_head + QueueSize
                   ELSE send_tail' - send_head
    <2>1. Waiting' = (send_tail' - send_head) % QueueSize
      BY <1>1 DEF Waiting
    <2>2. /\ send_tail' - send_head \in Int /\ -QueueSize <= send_tail' - send_head
          /\ send_tail' - send_head < QueueSize
          /\ send_tail' - send_head < 0 <=> send_tail' < send_head
      BY <1>1, <1>2 DEF Slot
    <2>3. QED
      BY <2>1, <2>2, Wrap
  <1>4. Waiting' = Waiting + 1 /\ Waiting < QueueSize - 1 /\ Waiting \in Nat
    <2>1. send_tail' = IF send_tail = QueueSize - 1 THEN 0 ELSE send_tail + 1
      BY <1>1, NextSlot
    <2>2. QED
      BY <1>1, <1>3, <2>1, WaitingSize DEF Slot
  <1>5. \A i \in 1..(Waiting + 1) : Place(send_head, i) \in Slot
    BY <1>1, <1>4, PlacesInRing
  <1>ends. /\ Waiting = IF send_tail < send_head THEN send_tail - send_head + QueueSize
                     ELSE send_tail - send_head
        /\ send_head \in Int /\ 0 <= send_head /\ send_head < QueueSize
        /\ send_tail \in Int /\ 0 <= send_tail /\ send_tail < QueueSize
    BY <1>1, WaitingSize DEF Slot
  <1>places. \A i \in 1..(Waiting + 1) :
          Place(send_head, i) = IF send_head + i - 1 < QueueSize THEN send_head + i - 1
                                ELSE send_head + i - 1 - QueueSize
    BY <1>1, <1>4, PlacesInRing
  <1>6. Place(send_head, Waiting + 1) = send_tail
    <2>1. Waiting + 1 \in 1..(Waiting + 1)
      BY <1>4
    <2>2. Place(send_head, Waiting + 1) = IF send_head + (Waiting + 1) - 1 < QueueSize
                                          THEN send_head + (Waiting + 1) - 1
                                          ELSE send_head + (Waiting + 1) - 1 - QueueSize
      BY <1>places, <2>1
    <2>3. QED
      BY <1>4, <1>ends, <2>2
  <1>7. \A i \in 1..Waiting : Place(send_head, i) # send_tail
    <2> SUFFICES ASSUME NEW i \in 1..Waiting PROVE Place(send_head, i) # send_tail
      OBVIOUS
    <2>1. i \in 1..(Waiting + 1)
      BY <1>4
    <2>2. Place(send_head, i) = IF send_head + i - 1 < QueueSize THEN send_head + i - 1
                                ELSE send_head + i - 1 - QueueSize
      BY <1>places, <2>1
    <2>3. i \in Int /\ 1 <= i /\ i <= Waiting
      BY <1>4
    <2>4. QED
      BY <1>4, <1>ends, <2>2, <2>3
  <1>8. /\ \A i \in 1..Waiting : send_queue'[Place(send_head, i)] = send_queue[Place(send_head, i)]
        /\ send_queue'[Place(send_head, Waiting + 1)] = m
    BY <1>1, <1>4, <1>5, <1>6, <1>7
  <1>9. Pending' = [i \in 1..(Waiting + 1) |-> send_queue'[Place(send_head, i)]]
    BY <1>1, <1>4 DEF Pending, Place
  <1>10. Pending = [i \in 1..Waiting |-> send_queue[Place(send_head, i)]]
    BY DEF Pending, Place
  <1>11. \A i \in 1..Waiting : send_queue[Place(send_head, i)] \in Msg
    BY DEF QueueTypeOK, Place
  <1>12. Pending \in Seq(Msg) /\ Len(Pending) = Waiting
    BY <1>4, <1>10, <1>11
  <1>13. Pending' \in Seq(Msg) /\ Len(Pending') = Waiting + 1
    <2>1. \A i \in 1..(Waiting + 1) : send_queue'[Place(send_head, i)] \in Msg
      BY <1>4, <1>8, <1>11
    <2>2. QED
      BY <1>4, <1>9, <2>1
  <1>14. Append(Pending, m) = Pending'
    <2>1. \A i \in 1..(Waiting + 1) : Append(Pending, m)[i] = Pending'[i]
      BY <1>4, <1>8, <1>9, <1>10, <1>12
    <2>2. Append(Pending, m) \in Seq(Msg) /\ Len(Append(Pending, m)) = Waiting + 1
      BY <1>12
    <2>3. QED
      BY <1>13, <2>1, <2>2
  <1>15. QueueTypeOK'
    <2>1. \A i \in 1..Waiting' : send_queue'[Place(send_head, i)] \in Msg
      BY <1>4, <1>8, <1>11
    <2>2. QED
      BY <1>1, <1>2, <2>1 DEF QueueTypeOK, Place
  <1>16. QED
    BY <1>4, <1>14, <1>15

LEMMA PopTakesFirst ==
  ASSUME QueueTypeOK, Pop
  PROVE  /\ Waiting # 0 /\ Waiting' = Waiting - 1
         /\ Pending # <<>> /\ Pending' = Tail(Pending) /\ QueueTypeOK'
  <1> USE QueueSizeAssumption
  <1>1. /\ send_head \in Slot /\ send_tail \in Slot /\ send_head' = After(send_head)
        /\ send_tail' = send_tail /\ send_head # send_tail
        /\ send_queue' = [send_queue EXCEPT ![send_head] = NoMsg]
        /\ send_queue \in [Slot -> Msg \cup {NoMsg}] /\ freed' = freed
    BY DEF QueueTypeOK, Pop, IsEmpty
  <1>2. send_head' \in Slot
    BY <1>1, NextSlot
  <1>3. Waiting' = IF send_tail < send_head' THEN send_tail - send_head' + QueueSize
                   ELSE send_tail - send_head'
    <2>1. Waiting' = (send_tail - send_head') % QueueSize
      BY <1>1 DEF Waiting
    <2>2. /\ send_tail - send_head' \in Int /\ -QueueSize <= send_tail - send_head'
          /\ send_tail - send_head' < QueueSize
          /\ send_tail - send_head' < 0 <=> send_tail < send_head'
      BY <1>1, <1>2 DEF Slot
    <2>3. QED
      BY <2>1, <2>2, Wrap
  <1>4. Waiting' = Waiting - 1 /\ Waiting \in 1..(QueueSize - 1)
    <2>1. send_head' = IF send_head = QueueSize - 1 THEN 0 ELSE send_head + 1
      BY <1>1, NextSlot
    <2>2. QED
      BY <1>1, <1>3, <2>1, WaitingSize DEF Slot
  <1>5. \A i \in 1..(Waiting - 1) : /\ Place(send_head', i) = Place(send_head, i + 1)
                                     /\ Place(send_head, i + 1) # send_head /\ Place(send_head, i + 1) \in Slot
    <2> SUFFICES ASSUME NEW i \in 1..(Waiting - 1)
                 PROVE /\ Place(send_head', i) = Place(send_head, i + 1)
                       /\ Place(send_head, i + 1) # send_head /\ Place(send_head, i + 1) \in Slot
      OBVIOUS
    <2>1. i \in 1..QueueSize /\ i + 1 \in 1..QueueSize /\ i + 1 <= QueueSize - 1
      BY <1>4
    <2>2. Place(send_head', i) = IF send_head' + i - 1 < QueueSize THEN send_head' + i - 1
                                 ELSE send_head' + i - 1 - QueueSize
      BY <1>2, <2>1, PlacesInRing
    <2>places. /\ Place(send_head, i + 1) = IF send_head + (i + 1) - 1 < QueueSize
                                       THEN send_head + (i + 1) - 1
                                       ELSE send_head + (i + 1) - 1 - QueueSize
          /\ Place(send_head, i + 1) \in Slot
      BY <1>1, <2>1, PlacesInRing
    <2>sum. send_head + (i + 1) - 1 = send_head + i
      BY <1>1, <2>1 DEF Slot
    <2>3. /\ Place(send_head, i + 1) = IF send_head + i < QueueSize THEN send_head + i
                                      ELSE send_head + i - QueueSize
          /\ Place(send_head, i + 1) \in Slot
      BY <2>places, <2>sum
    <2>4. send_head' = IF send_head = QueueSize - 1 THEN 0 ELSE send_head + 1
      BY <1>1, NextSlot
    <2>5. QED
      BY <1>1, <2>1, <2>2, <2>3, <2>4 DEF Slot
  <1>6. \A i \in 1..(Waiting - 1) : send_queue'[Place(send_head', i)] = send_queue[Place(send_head, i + 1)]
    BY <1>1, <1>5
  <1>7. Pending' = [i \in 1..(Waiting - 1) |-> send_queue'[Place(send_head', i)]]
    BY <1>4 DEF Pending, Place
  <1>8. Pending = [i \in 1..Waiting |-> send_queue[Place(send_head, i)]]
    BY DEF Pending, Place
  <1>9. \A i \in 1..Waiting : send_queue[Place(send_head, i)] \in Msg
    BY DEF QueueTypeOK, Place
  <1>10. Pending \in Seq(Msg) /\ Len(Pending) = Waiting
    BY <1>4, <1>8, <1>9
  <1>11. \A i \in 1..(Waiting - 1) : send_queue'[Place(send_head', i)] \in Msg
    BY <1>4, <1>6, <1>9
  <1>12. Pending' \in Seq(Msg) /\ Len(Pending') = Waiting - 1
    BY <1>4, <1>7, <1>11
  <1>13. Pending' = Tail(Pending)
    <2>1. Tail(Pending) \in Seq(Msg) /\ Len(Tail(Pending)) = Waiting - 1
      BY <1>4, <1>10
    <2>2. \A i \in 1..(Waiting - 1) : Tail(Pending)[i] = Pending'[i]
      BY <1>4, <1>6, <1>7, <1>8, <1>10
    <2>3. QED
      BY <1>12, <2>1, <2>2
  <1>14. QueueTypeOK'
    BY <1>1, <1>2, <1>4, <1>11 DEF QueueTypeOK, Place
  <1>15. QED
    BY <1>4, <1>10, <1>13, <1>14

LEMMA FreeEmpties ==
  ASSUME QueueTypeOK, FreeRest
  PROVE  Waiting' = 0 /\ Pending' = <<>> /\ freed' = TRUE /\ QueueTypeOK'
  <1>1. /\ send_head' = send_tail /\ send_tail' = send_tail /\ send_queue' = send_queue
        /\ send_tail \in Slot /\ freed' = TRUE
    BY DEF QueueTypeOK, FreeRest
  <1>2. Waiting' = 0
    BY <1>1, Wrap, QueueSizeAssumption DEF Waiting, Slot
  <1>3. QED
    BY <1>1, <1>2 DEF Pending, QueueTypeOK

LEMMA InitEmpty == QueueInit => QueueTypeOK /\ Pending = <<>> /\ freed = FALSE
  <1> SUFFICES ASSUME QueueInit PROVE QueueTypeOK /\ Pending = <<>> /\ freed = FALSE
    OBVIOUS
  <1>1. Waiting = 0
    BY Wrap, QueueSizeAssumption DEF QueueInit, Waiting
  <1>2. Pending = <<>>
    BY <1>1 DEF Pending
  <1>3. 0 \in Slot
    BY QueueSizeAssumption DEF Slot
  <1>queue. send_queue \in [Slot -> Msg \cup {NoMsg}]
    BY DEF QueueInit
  <1>nobody. 1..Waiting = {}
    BY <1>1
  <1>types. send_head \in Slot /\ send_tail \in Slot /\ freed \in BOOLEAN
    BY <1>3 DEF QueueInit
  <1>4. QueueTypeOK
    BY <1>queue, <1>nobody, <1>types, Zenon DEF QueueTypeOK
  <1>5. QED
    BY <1>2, <1>4 DEF QueueInit

-----------------------------------------------------------------------------
(* Between head and tail, and only there, the ring holds messages, for     *)
(* every CLIENT_SEND_QUEUE_SIZE (client_send_raw and the WRITEABLE branch  *)
(* of lws_callback).                                                       *)
THEOREM QueueHoldsMessages == QueueSpec => []QueueTypeOK
  <1>1. QueueInit => QueueTypeOK
    BY InitEmpty
  <1>2. QueueTypeOK /\ [QueueNext]_queueVars => QueueTypeOK'
    <2> SUFFICES ASSUME QueueTypeOK, [QueueNext]_queueVars PROVE QueueTypeOK'
      OBVIOUS
    <2>1. CASE UNCHANGED queueVars
      BY <2>1 DEF queueVars, QueueTypeOK, Waiting
    <2>2. QED
      BY <2>1, PushAppends, PopTakesFirst, FreeEmpties DEF QueueNext
  <1>3. QED
    BY <1>1, <1>2, PTL DEF QueueSpec

(* Every operation of the ring is one of the queue's it stands for: what   *)
(* was accepted leaves in the order of acceptance, nothing is lost or      *)
(* repeated when the indices wrap around, and QueueSize - 1 messages are   *)
(* accepted before one is refused.                                         *)
THEOREM QueueImplementsFifo == QueueSpec => ImplementsFifo
  <1>1. QueueInit => Fifo!FifoInit
    BY InitEmpty DEF Fifo!FifoInit
  <1>2. QueueTypeOK /\ [QueueNext]_queueVars => [Fifo!FifoNext]_<<Pending, freed>>
    <2> SUFFICES ASSUME QueueTypeOK, [QueueNext]_queueVars
                 PROVE Fifo!FifoNext \/ UNCHANGED <<Pending, freed>>
      OBVIOUS
    <2>1. CASE UNCHANGED queueVars
      BY <2>1 DEF queueVars, Pending, Waiting
    <2>2. ASSUME ~freed, NEW m \in Msg, Push(m) PROVE Fifo!FifoNext
      <3>1. Len(Pending) = Waiting
        BY WaitingSize DEF Pending, QueueTypeOK
      <3>2. QED
        BY <2>2, <3>1, PushAppends DEF Fifo!FifoNext, Fifo!Accept, Push
    <2>3. ASSUME ~freed, Pop PROVE Fifo!FifoNext
      BY <2>3, PopTakesFirst DEF Fifo!FifoNext, Fifo!Leave, Pop
    <2>4. ASSUME ~freed, FreeRest PROVE Fifo!FifoNext
      BY <2>4, FreeEmpties DEF Fifo!FifoNext, Fifo!ThrowAway
    <2>5. QED
      BY <2>1, <2>2, <2>3, <2>4 DEF QueueNext
  <1>3. QED
    BY <1>1, <1>2, QueueHoldsMessages, PTL DEF QueueSpec, ImplementsFifo, Fifo!FifoSpec

-----------------------------------------------------------------------------
(* Where the threads are *)

(* From the first command to the join of the service thread. *)
Served ==
  {"start_connection", "connection_delay", "start_session", "session_delay", "say_hello",
   "begin_input", "file", "file_delay", "wait", "finish_session", "finishing",
   "finish_connection", "last_delay", "stop", "join_service"}

(* Between the creation of the player thread and its join. *)
Played == {"connect", "dial"} \cup Served \cup {"join_input", "cleanup_audio",
"join_player"}

(* Before the input thread is created. *)
BeforeInput ==
  {"init", "audio_init", "open_output", "connect", "dial", "start_connection",
   "connection_delay", "start_session", "session_delay", "say_hello", "begin_input"}

(* Where main is tells which threads may run, and what they find.          *)
Threads ==
  /\ main \in {"audio_init", "open_output", "cleanup_audio", "join_player"} => HasAudio
  /\ main \in BeforeInput => input = "none"
  /\ service = "loop" => main \in Served \cup {"crashed"}
  /\ ~NoInput => HasAudio /\ main \in Served \cup {"join_input", "crashed"}
  /\ player = "loop" => HasAudio /\ main \in Played \cup {"crashed"}
  /\ main \in {"dial", "join_input"} \cup Served => context = "live"
  /\ HasAudio /\ main \in {"open_output"} \cup Played => audio = "live"

(* A thread asks for the callback before it goes on. *)
Asking ==
  /\ "main" \in asking => main \in Served \cup {"crashed"}
  /\ "input" \in asking => input = "loop"

(* Each thing that is gone while main still counts on it has gone for one  *)
(* of the named reasons.                                                   *)
Causes ==
  /\ main \in {"init", "audio_init", "open_output", "connect"} => "connected" \notin flags
  /\ main = "dial" /\ "connected" \in flags => link = "up"
  /\ link = "closed" /\ main \in Served \cup {"join_input"} => "closed" \in trouble
  /\ context = "destroyed" /\ ~Ended => "dial" \in trouble
  /\ HasAudio /\ main \in Played /\ player = "none" => "output" \in trouble
  /\ received = "missing" => "buffer" \in trouble
  /\ net # <<>> => Head(net) # "missing"
  /\ service = "none" /\ main \in Served => "thread" \in trouble
  /\ input = "failed" => "thread" \in trouble
  /\ "cancelled" \in flags => service # "loop" /\ main \notin BeforeInput
  /\ input = "holding" => "cancelled" \in flags /\ "hello_done" \notin flags
  /\ CrashesHaveACause

(* The callback is due also when the connection takes data again. *)
CallbackIsDue ==
  send_head # send_tail /\ link \in {"up", "stalled"} => writable \/ asking # {}

(* The queue is freed last. *)
FreedLast == freed => Ended

Control ==
  Threads /\ Asking /\ Causes /\ CallbackIsDue /\ SleepersHaveNotHeard /\ FreedLast

(* What the threads may count on, wherever main is, is inductive.          *)
LEMMA ControlIsKept ==
  ASSUME Control, [Next]_vars
  PROVE  Control'
  <1> USE DEF Control, Threads, Asking, Causes, CallbackIsDue, SleepersHaveNotHeard,
              FreedLast, CrashesHaveACause, Served, Played, BeforeInput, MainAt,
              CleanUpFrom, HasAudio, NoInput, Ended, Suffers, Spend, lws, world, sound,
              queueVars
  <1>1. CASE ClientInit
    BY <1>1 DEF ClientInit
  <1>2. CASE AudioInit
    BY <1>2 DEF AudioInit
  <1>3. CASE OpenOutput
    BY <1>3 DEF OpenOutput
  <1>4. CASE Connect
    BY <1>4 DEF Connect
  <1>5. CASE Dialing
    BY <1>5 DEF Dialing
  <1>6. CASE DialEnds
    BY <1>6 DEF DialEnds, NotCreated
  <1>7. CASE Handshake
    BY <1>7 DEF Handshake, MainSends, MainWaits, Queues, BuildFails, Push
  <1>8. CASE BeginInput
    BY <1>8 DEF BeginInput, OpenInputFails, NotCreated
  <1>9. CASE SendFile
    BY <1>9 DEF SendFile, MainWaits, Queues, BuildFails, Push
  <1>10. CASE WaitForEnd
    BY <1>10 DEF WaitForEnd, MainWaits
  <1>11. CASE Goodbye
    BY <1>11 DEF Goodbye, MainSends, MainWaits, Queues, BuildFails, Push
  <1>12. CASE StopThreads
    BY <1>12 DEF StopThreads
  <1>13. CASE JoinService
    BY <1>13 DEF JoinService
  <1>14. CASE JoinInput
    BY <1>14 DEF JoinInput
  <1>15. CASE StopPlayer
    BY <1>15 DEF StopPlayer
  <1>16. CASE CleanUpAudio
    BY <1>16 DEF CleanUpAudio
  <1>17. CASE DestroyClient
    BY <1>17 DEF DestroyClient, FreeRest
  <1>18. CASE AskForWritable("main")
    BY <1>18 DEF AskForWritable
  <1>19. CASE Writeable
    <2>1. Threads' /\ Asking' /\ Causes' /\ SleepersHaveNotHeard' /\ FreedLast'
      BY <1>19 DEF Writeable, Serving, Pop
    <2>2. send_head' # send_tail' => writable'
      <3>1. CASE IsEmpty /\ UNCHANGED queueVars
        BY <3>1 DEF IsEmpty
      <3>2. CASE Pop /\ writable' = (send_head' # send_tail')
        BY <3>2, Zenon
      <3>3. QED
        BY <1>19, <3>1, <3>2 DEF Writeable
    <2>3. CallbackIsDue'
      BY <2>2 DEF CallbackIsDue
    <2>4. QED
      BY <2>1, <2>3
  <1>20. CASE Receive
    BY <1>20 DEF Receive, HandsOver, Serving, ReceiveOnly, Handle, HelloDone
  <1>21. CASE ServiceEnds
    BY <1>21 DEF ServiceEnds, Serving
  <1>22. CASE InputWaitsForHello
    BY <1>22 DEF InputWaitsForHello, InputAt, InputGoes
  <1>23. CASE InputLoops
    BY <1>23 DEF InputLoops, InputAt, InputGoes, IfRunning
  <1>24. CASE InputSends
    BY <1>24 DEF InputSends, InputAt, Queues, BuildFails, Push
  <1>25. CASE InputCancelled
    BY <1>25 DEF InputCancelled, InputAt, InputGoes
  <1>26. CASE AskForWritable("input")
    BY <1>26 DEF AskForWritable
  <1>27. CASE PlayerStep
    BY <1>27 DEF PlayerStep
  <1>28. CASE InputReads
    BY <1>28 DEF InputReads, InputAt, InputGoes, IfRunning
  <1>29. CASE WriteFails
    BY <1>29 DEF WriteFails, Serving, LinkLost, Pop
  <1>30. CASE ConnectionClosed
    BY <1>30 DEF ConnectionClosed, Serving, LinkLost
  <1>31. CASE PieceLost
    <2>1. CASE HandsOver
      <3>1. /\ input' = input \/ (input = "asleep" /\ input' = "hello")
            /\ "hello_done" \in flags' => "hello_done" \in flags \/ input' # "asleep"
            /\ \A f \in Flag \ {"hello_done", "session_finished", "running"} :
                 f \in flags' <=> f \in flags
        BY <2>1 DEF HandsOver, Handle, HelloDone, Flag
      <3>2. "connected" \in flags' <=> "connected" \in flags
        BY <3>1 DEF Flag
      <3>3. "cancelled" \in flags' <=> "cancelled" \in flags
        BY <3>1 DEF Flag
      <3>4. /\ received' = "empty" /\ net' = <<>> /\ service = "loop"
            /\ main' = main /\ main \notin {"exited", "crashed"}
        BY <1>31, <2>1 DEF PieceLost, HandsOver, Serving
      <3>5. /\ UNCHANGED <<queueVars, mode, service, player, asking, writable, link, context, audio>>
            /\ trouble' = trouble \cup {"memory"}
        BY <1>31 DEF PieceLost, ReceiveOnly
      <3>6. Threads' /\ Asking'
        BY <3>1, <3>4, <3>5
      <3>7. Causes'
        BY <3>1, <3>2, <3>3, <3>4, <3>5
      <3>8. CallbackIsDue'
        BY <3>5
      <3>9. SleepersHaveNotHeard' /\ FreedLast'
        BY <3>1, <3>4, <3>5
      <3>10. QED
        BY <3>6, <3>7, <3>8, <3>9 DEF Control
    <2>2. CASE ~HandsOver
      BY <1>31, <2>2 DEF PieceLost, Serving, ReceiveOnly, Event
    <2>3. QED
      BY <2>1, <2>2
  <1>32. CASE CtrlC
    BY <1>32 DEF CtrlC
  <1>33. CASE LinkStalls
    BY <1>33 DEF LinkStalls, Serving
  <1>34. CASE \E event \in Event : ServerSays(event)
    BY <1>34 DEF ServerSays, Serving, Event
  <1>35. CASE UNCHANGED vars
    BY <1>35 DEF vars
  <1>36. QED
    BY <1>1, <1>2, <1>3, <1>4, <1>5, <1>6, <1>7, <1>8, <1>9, <1>10, <1>11,
       <1>12, <1>13, <1>14, <1>15, <1>16, <1>17, <1>18, <1>19, <1>20, <1>21,
       <1>22, <1>23, <1>24, <1>25, <1>26, <1>27, <1>28, <1>29, <1>30, <1>31,
       <1>32, <1>33, <1>34, <1>35
    DEF Next, MainStep, InputStep, Environment

LEMMA ControlStarts == Init => Control
  BY DEF Init, QueueInit, Control, Threads, Asking, Causes, CallbackIsDue,
         SleepersHaveNotHeard, FreedLast, CrashesHaveACause, Served, Played,
         BeforeInput, HasAudio, NoInput, Ended

LEMMA ControlAlways == Spec => []Control
  BY ControlStarts, ControlIsKept, PTL DEF Spec

-----------------------------------------------------------------------------
(* The queue of CClient is SendQueue's. *)

(* Every step is an operation of the queue, not freed yet, or leaves it    *)
(* alone.                                                                  *)
LEMMA StepIsOfQueue ==
  ASSUME FreedLast, [Next]_vars
  PROVE  [QueueNext]_queueVars
  <1> USE DEF FreedLast, QueueNext, Command, MainAt, CleanUpFrom, HasAudio, Ended,
              Suffers, Spend, lws, world, sound, queueVars
  <1>1. CASE ClientInit
    BY <1>1 DEF ClientInit
  <1>2. CASE AudioInit
    BY <1>2 DEF AudioInit
  <1>3. CASE OpenOutput
    BY <1>3 DEF OpenOutput
  <1>4. CASE Connect
    BY <1>4 DEF Connect
  <1>5. CASE Dialing
    BY <1>5 DEF Dialing
  <1>6. CASE DialEnds
    BY <1>6 DEF DialEnds, NotCreated
  <1>7. CASE Handshake
    BY <1>7, MessagesAssumption DEF Handshake, MainSends, MainWaits, Queues, BuildFails
  <1>8. CASE BeginInput
    BY <1>8 DEF BeginInput, OpenInputFails, NotCreated
  <1>9. CASE SendFile
    BY <1>9, MessagesAssumption DEF SendFile, MainWaits, Queues, BuildFails
  <1>10. CASE WaitForEnd
    BY <1>10 DEF WaitForEnd, MainWaits
  <1>11. CASE Goodbye
    BY <1>11, MessagesAssumption DEF Goodbye, MainSends, MainWaits, Queues, BuildFails
  <1>12. CASE StopThreads
    BY <1>12 DEF StopThreads
  <1>13. CASE JoinService
    BY <1>13 DEF JoinService
  <1>14. CASE JoinInput
    BY <1>14 DEF JoinInput
  <1>15. CASE StopPlayer
    BY <1>15 DEF StopPlayer
  <1>16. CASE CleanUpAudio
    BY <1>16 DEF CleanUpAudio
  <1>17. CASE DestroyClient
    BY <1>17 DEF DestroyClient, FreeRest
  <1>18. CASE AskForWritable("main")
    BY <1>18 DEF AskForWritable
  <1>19. CASE Writeable
    BY <1>19 DEF Writeable, Serving, IsEmpty, Pop
  <1>20. CASE Receive
    BY <1>20 DEF Receive, HandsOver, Serving, ReceiveOnly
  <1>21. CASE ServiceEnds
    BY <1>21 DEF ServiceEnds, Serving
  <1>22. CASE InputWaitsForHello
    BY <1>22 DEF InputWaitsForHello, InputAt, InputGoes
  <1>23. CASE InputLoops
    BY <1>23 DEF InputLoops, InputAt, InputGoes, IfRunning
  <1>24. CASE InputSends
    BY <1>24, MessagesAssumption DEF InputSends, InputAt, Queues, BuildFails
  <1>25. CASE InputCancelled
    BY <1>25 DEF InputCancelled, InputAt, InputGoes
  <1>26. CASE AskForWritable("input")
    BY <1>26 DEF AskForWritable
  <1>27. CASE PlayerStep
    BY <1>27 DEF PlayerStep
  <1>28. CASE InputReads
    BY <1>28 DEF InputReads, InputAt, InputGoes, IfRunning
  <1>29. CASE WriteFails
    BY <1>29 DEF WriteFails, Serving, LinkLost, Pop
  <1>30. CASE ConnectionClosed
    BY <1>30 DEF ConnectionClosed, Serving, LinkLost
  <1>31. CASE PieceLost
    BY <1>31 DEF PieceLost, HandsOver, Serving, ReceiveOnly
  <1>32. CASE CtrlC
    BY <1>32 DEF CtrlC
  <1>33. CASE LinkStalls
    BY <1>33 DEF LinkStalls, Serving
  <1>34. CASE \E event \in Event : ServerSays(event)
    BY <1>34 DEF ServerSays, Serving
  <1>35. CASE UNCHANGED vars
    BY <1>35 DEF vars
  <1>36. QED
    BY <1>1, <1>2, <1>3, <1>4, <1>5, <1>6, <1>7, <1>8, <1>9, <1>10, <1>11,
       <1>12, <1>13, <1>14, <1>15, <1>16, <1>17, <1>18, <1>19, <1>20, <1>21,
       <1>22, <1>23, <1>24, <1>25, <1>26, <1>27, <1>28, <1>29, <1>30, <1>31,
       <1>32, <1>33, <1>34, <1>35
    DEF Next, MainStep, InputStep, Environment

LEMMA QueueIsUsed == Spec => QueueSpec
  <1>1. Init => QueueInit
    BY DEF Init
  <1>2. Control /\ [Next]_vars => [QueueNext]_queueVars
    BY StepIsOfQueue DEF Control
  <1>3. QED
    BY <1>1, <1>2, ControlAlways, PTL DEF Spec, QueueSpec

(* The threads of the C client, main included, never touch the queue after *)
(* client_destroy, and between them the ring keeps what BoundedFifo says:  *)
(* no interleaving of client_send_raw and the WRITEABLE callback loses,    *)
(* repeats or reorders a command, and client_destroy ends it.              *)
THEOREM ClientImplementsFifo == Spec => ImplementsFifo
  BY QueueIsUsed, QueueImplementsFifo

(* No thread runs on a context, a stream or a codec that main's clean-up   *)
(* has destroyed, whichever path led to the clean-up.                      *)
THEOREM ThreadsKeepTheirResources == Spec => []ThreadsHaveTheirResources
  <1>1. Control => ThreadsHaveTheirResources
    BY DEF Control, Threads, ThreadsHaveTheirResources, Served, Played, Ended, HasAudio
  <1>2. QED
    BY <1>1, ControlAlways, PTL

(* The input thread that sleeps on hello_cond has not been told yet: the   *)
(* look at say_hello_done and the sleep are one step under state_mutex.    *)
THEOREM NoWakeupIsLost == Spec => []SleepersHaveNotHeard
  <1>1. Control => SleepersHaveNotHeard
    BY DEF Control
  <1>2. QED
    BY <1>1, ControlAlways, PTL

(* A message that waits on a connection that takes data has a request for  *)
(* LWS_CALLBACK_CLIENT_WRITEABLE pending or about to be made, although the *)
(* sender makes it after it has released the mutex.                        *)
THEOREM EveryMessageIsAskedFor == Spec => []NoMessageIsStranded
  <1>1. QueueTypeOK /\ Control => NoMessageIsStranded
    <2>1. QueueTypeOK /\ Waiting > 0 => send_head # send_tail
      BY WaitingSize DEF QueueTypeOK, Slot
    <2>2. QED
      BY <2>1 DEF Control, CallbackIsDue, NoMessageIsStranded
  <1>2. QED
    BY <1>1, ControlAlways, QueueIsUsed, QueueHoldsMessages, PTL

(* The undefined operations of the program need a connection that was      *)
(* lost, a missing recv_buf, a failed dial, speaker or pthread_create, or  *)
(* an input thread cancelled before it has heard of the greeting's end.    *)
THEOREM CrashNeedsACause == Spec => []CrashesHaveACause
  <1>1. Control => CrashesHaveACause
    BY DEF Control, Causes
  <1>2. QED
    BY <1>1, ControlAlways, PTL

-----------------------------------------------------------------------------
(* Types *)

ControlTypes ==
  /\ mode \in {"dialog", "audio_file"}
  /\ main \in MainPc
  /\ service \in {"none", "loop", "done"}
  /\ input \in {"none", "failed", "hello", "asleep", "loop", "read", "send", "done", "holding"}
  /\ player \in {"none", "loop", "done"}
  /\ link \in {"none", "dialing", "up", "stalled", "closed"}
  /\ context \in {"none", "live", "destroyed"}
  /\ audio \in {"none", "live", "destroyed"}
  /\ session \in {"none", "open", "closing"}

SetTypes ==
  /\ flags \subseteq Flag
  /\ asking \subseteq {"main", "input"}
  /\ trouble \subseteq {"closed", "buffer", "memory", "dial", "output", "thread", "other"}

DataTypes ==
  /\ written \in Seq(Command)
  /\ play_queue \in 0..MaxNodes
  /\ chunks \in 0..MaxChunks
  /\ outside \in 0..MaxOutside
  /\ net \in Seq(Event) /\ Len(net) <= 1
  /\ received \in {"empty", "missing"} \cup Event

(* What the WRITEABLE callback takes is a command. *)
LEMMA FrontIsCommand ==
  ASSUME QueueTypeOK, ~IsEmpty
  PROVE  Waiting # 0 /\ Pending[1] = send_queue[send_head] /\ Pending[1] \in Command
  <1>1. send_head \in Slot /\ send_tail \in Slot /\ send_head # send_tail
    BY DEF QueueTypeOK, IsEmpty
  <1>2. Waiting # 0 /\ 1 \in 1..Waiting
    BY <1>1, WaitingSize, QueueSizeAssumption DEF Slot
  <1>3. (send_head + 1 - 1) % QueueSize = send_head
    BY <1>1, Wrap, QueueSizeAssumption DEF Slot
  <1>4. QED
    BY <1>2, <1>3, MessagesAssumption DEF QueueTypeOK, Pending

LEMMA ControlIsTyped ==
  ASSUME ControlTypes, [Next]_vars
  PROVE  ControlTypes'
  <1> USE DEF ControlTypes, MainPc, MainAt, CleanUpFrom, HasAudio, Ended, Suffers,
              Spend, lws, world, sound, queueVars
  <1>1. CASE ClientInit
    BY <1>1 DEF ClientInit
  <1>2. CASE AudioInit
    BY <1>2 DEF AudioInit
  <1>3. CASE OpenOutput
    BY <1>3 DEF OpenOutput
  <1>4. CASE Connect
    BY <1>4 DEF Connect
  <1>5. CASE Dialing
    BY <1>5 DEF Dialing
  <1>6. CASE DialEnds
    BY <1>6 DEF DialEnds, NotCreated
  <1>7. CASE Handshake
    BY <1>7 DEF Handshake, MainSends, MainWaits, Queues, BuildFails
  <1>8. CASE BeginInput
    BY <1>8 DEF BeginInput, OpenInputFails, NotCreated
  <1>9. CASE SendFile
    BY <1>9 DEF SendFile, MainWaits, Queues, BuildFails
  <1>10. CASE WaitForEnd
    BY <1>10 DEF WaitForEnd, MainWaits
  <1>11. CASE Goodbye
    BY <1>11 DEF Goodbye, MainSends, MainWaits, Queues, BuildFails
  <1>12. CASE StopThreads
    BY <1>12 DEF StopThreads
  <1>13. CASE JoinService
    BY <1>13 DEF JoinService
  <1>14. CASE JoinInput
    BY <1>14 DEF JoinInput
  <1>15. CASE StopPlayer
    BY <1>15 DEF StopPlayer
  <1>16. CASE CleanUpAudio
    BY <1>16 DEF CleanUpAudio
  <1>17. CASE DestroyClient
    BY <1>17 DEF DestroyClient
  <1>18. CASE AskForWritable("main")
    BY <1>18 DEF AskForWritable
  <1>19. CASE Writeable
    BY <1>19 DEF Writeable, Serving, ServerTakes
  <1>20. CASE Receive
    BY <1>20 DEF Receive, HandsOver, Serving, ReceiveOnly, Handle, HelloDone
  <1>21. CASE ServiceEnds
    BY <1>21 DEF ServiceEnds, Serving
  <1>22. CASE InputWaitsForHello
    BY <1>22 DEF InputWaitsForHello, InputAt, InputGoes
  <1>23. CASE InputLoops
    BY <1>23 DEF InputLoops, InputAt, InputGoes, IfRunning
  <1>24. CASE InputSends
    BY <1>24 DEF InputSends, InputAt, Queues, BuildFails
  <1>25. CASE InputCancelled
    BY <1>25 DEF InputCancelled, InputAt, InputGoes
  <1>26. CASE AskForWritable("input")
    BY <1>26 DEF AskForWritable
  <1>27. CASE PlayerStep
    BY <1>27 DEF PlayerStep
  <1>28. CASE InputReads
    BY <1>28 DEF InputReads, InputAt, InputGoes, IfRunning
  <1>29. CASE WriteFails
    BY <1>29 DEF WriteFails, Serving, LinkLost
  <1>30. CASE ConnectionClosed
    BY <1>30 DEF ConnectionClosed, Serving, LinkLost
  <1>31. CASE PieceLost
    BY <1>31 DEF PieceLost, HandsOver, Serving, ReceiveOnly, Handle, HelloDone
  <1>32. CASE CtrlC
    BY <1>32 DEF CtrlC
  <1>33. CASE LinkStalls
    BY <1>33 DEF LinkStalls, Serving
  <1>34. CASE \E event \in Event : ServerSays(event)
    BY <1>34 DEF ServerSays, Serving
  <1>35. CASE UNCHANGED vars
    BY <1>35 DEF vars
  <1>36. QED
    BY <1>1, <1>2, <1>3, <1>4, <1>5, <1>6, <1>7, <1>8, <1>9, <1>10, <1>11,
       <1>12, <1>13, <1>14, <1>15, <1>16, <1>17, <1>18, <1>19, <1>20, <1>21,
       <1>22, <1>23, <1>24, <1>25, <1>26, <1>27, <1>28, <1>29, <1>30, <1>31,
       <1>32, <1>33, <1>34, <1>35
    DEF Next, MainStep, InputStep, Environment

LEMMA WritableIsTyped ==
  ASSUME writable \in BOOLEAN, [Next]_vars
  PROVE  (writable \in BOOLEAN)'
  <1> USE DEF MainAt, CleanUpFrom, HasAudio, Ended, Suffers, Spend, lws, world, sound,
              queueVars
  <1>1. CASE ClientInit
    BY <1>1 DEF ClientInit
  <1>2. CASE AudioInit
    BY <1>2 DEF AudioInit
  <1>3. CASE OpenOutput
    BY <1>3 DEF OpenOutput
  <1>4. CASE Connect
    BY <1>4 DEF Connect
  <1>5. CASE Dialing
    BY <1>5, Zenon DEF Dialing
  <1>6. CASE DialEnds
    BY <1>6 DEF DialEnds, NotCreated
  <1>7. CASE Handshake
    BY <1>7 DEF Handshake, MainSends, MainWaits, Queues, BuildFails
  <1>8. CASE BeginInput
    BY <1>8 DEF BeginInput, OpenInputFails, NotCreated
  <1>9. CASE SendFile
    BY <1>9 DEF SendFile, MainWaits, Queues, BuildFails
  <1>10. CASE WaitForEnd
    BY <1>10 DEF WaitForEnd, MainWaits
  <1>11. CASE Goodbye
    BY <1>11 DEF Goodbye, MainSends, MainWaits, Queues, BuildFails
  <1>12. CASE StopThreads
    BY <1>12 DEF StopThreads
  <1>13. CASE JoinService
    BY <1>13 DEF JoinService
  <1>14. CASE JoinInput
    BY <1>14 DEF JoinInput
  <1>15. CASE StopPlayer
    BY <1>15 DEF StopPlayer
  <1>16. CASE CleanUpAudio
    BY <1>16 DEF CleanUpAudio
  <1>17. CASE DestroyClient
    BY <1>17 DEF DestroyClient
  <1>18. CASE AskForWritable("main")
    BY <1>18, Zenon DEF AskForWritable
  <1>19. CASE Writeable
    BY <1>19, Zenon DEF Writeable, Serving
  <1>20. CASE Receive
    BY <1>20 DEF Receive, HandsOver, Serving, ReceiveOnly, Handle, HelloDone
  <1>21. CASE ServiceEnds
    BY <1>21 DEF ServiceEnds, Serving
  <1>22. CASE InputWaitsForHello
    BY <1>22 DEF InputWaitsForHello, InputAt, InputGoes
  <1>23. CASE InputLoops
    BY <1>23 DEF InputLoops, InputAt, InputGoes, IfRunning
  <1>24. CASE InputSends
    BY <1>24 DEF InputSends, InputAt, Queues, BuildFails
  <1>25. CASE InputCancelled
    BY <1>25 DEF InputCancelled, InputAt, InputGoes
  <1>26. CASE AskForWritable("input")
    BY <1>26, Zenon DEF AskForWritable
  <1>27. CASE PlayerStep
    BY <1>27 DEF PlayerStep
  <1>28. CASE InputReads
    BY <1>28 DEF InputReads, InputAt, InputGoes, IfRunning
  <1>29. CASE WriteFails
    BY <1>29, Zenon DEF WriteFails, Serving, LinkLost
  <1>30. CASE ConnectionClosed
    BY <1>30, Zenon DEF ConnectionClosed, Serving, LinkLost
  <1>31. CASE PieceLost
    BY <1>31 DEF PieceLost, HandsOver, Serving, ReceiveOnly, Handle, HelloDone
  <1>32. CASE CtrlC
    BY <1>32 DEF CtrlC
  <1>33. CASE LinkStalls
    BY <1>33 DEF LinkStalls, Serving
  <1>34. CASE \E event \in Event : ServerSays(event)
    BY <1>34 DEF ServerSays, Serving
  <1>35. CASE UNCHANGED vars
    BY <1>35 DEF vars
  <1>36. QED
    BY <1>1, <1>2, <1>3, <1>4, <1>5, <1>6, <1>7, <1>8, <1>9, <1>10, <1>11,
       <1>12, <1>13, <1>14, <1>15, <1>16, <1>17, <1>18, <1>19, <1>20, <1>21,
       <1>22, <1>23, <1>24, <1>25, <1>26, <1>27, <1>28, <1>29, <1>30, <1>31,
       <1>32, <1>33, <1>34, <1>35
    DEF Next, MainStep, InputStep, Environment

LEMMA SetsAreTyped ==
  ASSUME SetTypes, [Next]_vars
  PROVE  SetTypes'
  <1> USE DEF SetTypes, Flag, MainAt, CleanUpFrom, HasAudio, Ended, Suffers, Spend, lws,
              world, sound, queueVars
  <1>1. CASE ClientInit
    BY <1>1 DEF ClientInit
  <1>2. CASE AudioInit
    BY <1>2 DEF AudioInit
  <1>3. CASE OpenOutput
    BY <1>3 DEF OpenOutput
  <1>4. CASE Connect
    BY <1>4 DEF Connect
  <1>5. CASE Dialing
    BY <1>5 DEF Dialing
  <1>6. CASE DialEnds
    BY <1>6 DEF DialEnds, NotCreated
  <1>7. CASE Handshake
    BY <1>7 DEF Handshake, MainSends, MainWaits, Queues, BuildFails
  <1>8. CASE BeginInput
    BY <1>8 DEF BeginInput, OpenInputFails, NotCreated
  <1>9. CASE SendFile
    BY <1>9 DEF SendFile, MainWaits, Queues, BuildFails
  <1>10. CASE WaitForEnd
    BY <1>10 DEF WaitForEnd, MainWaits
  <1>11. CASE Goodbye
    BY <1>11 DEF Goodbye, MainSends, MainWaits, Queues, BuildFails
  <1>12. CASE StopThreads
    BY <1>12 DEF StopThreads
  <1>13. CASE JoinService
    BY <1>13 DEF JoinService
  <1>14. CASE JoinInput
    BY <1>14 DEF JoinInput
  <1>15. CASE StopPlayer
    BY <1>15 DEF StopPlayer
  <1>16. CASE CleanUpAudio
    BY <1>16 DEF CleanUpAudio
  <1>17. CASE DestroyClient
    BY <1>17 DEF DestroyClient
  <1>18. CASE AskForWritable("main")
    BY <1>18 DEF AskForWritable
  <1>19. CASE Writeable
    BY <1>19 DEF Writeable, Serving
  <1>20. CASE Receive
    BY <1>20 DEF Receive, HandsOver, Serving, ReceiveOnly, Handle, HelloDone
  <1>21. CASE ServiceEnds
    BY <1>21 DEF ServiceEnds, Serving
  <1>22. CASE InputWaitsForHello
    BY <1>22 DEF InputWaitsForHello, InputAt, InputGoes
  <1>23. CASE InputLoops
    BY <1>23 DEF InputLoops, InputAt, InputGoes, IfRunning
  <1>24. CASE InputSends
    BY <1>24 DEF InputSends, InputAt, Queues, BuildFails
  <1>25. CASE InputCancelled
    BY <1>25 DEF InputCancelled, InputAt, InputGoes
  <1>26. CASE AskForWritable("input")
    BY <1>26 DEF AskForWritable
  <1>27. CASE PlayerStep
    BY <1>27 DEF PlayerStep
  <1>28. CASE InputReads
    BY <1>28 DEF InputReads, InputAt, InputGoes, IfRunning
  <1>29. CASE WriteFails
    BY <1>29 DEF WriteFails, Serving, LinkLost
  <1>30. CASE ConnectionClosed
    BY <1>30 DEF ConnectionClosed, Serving, LinkLost
  <1>31. CASE PieceLost
    BY <1>31 DEF PieceLost, HandsOver, Serving, ReceiveOnly, Handle, HelloDone
  <1>32. CASE CtrlC
    BY <1>32 DEF CtrlC
  <1>33. CASE LinkStalls
    BY <1>33 DEF LinkStalls, Serving
  <1>34. CASE \E event \in Event : ServerSays(event)
    BY <1>34 DEF ServerSays, Serving
  <1>35. CASE UNCHANGED vars
    BY <1>35 DEF vars
  <1>36. QED
    BY <1>1, <1>2, <1>3, <1>4, <1>5, <1>6, <1>7, <1>8, <1>9, <1>10, <1>11,
       <1>12, <1>13, <1>14, <1>15, <1>16, <1>17, <1>18, <1>19, <1>20, <1>21,
       <1>22, <1>23, <1>24, <1>25, <1>26, <1>27, <1>28, <1>29, <1>30, <1>31,
       <1>32, <1>33, <1>34, <1>35
    DEF Next, MainStep, InputStep, Environment

LEMMA DataIsTyped ==
  ASSUME DataTypes, QueueTypeOK, [Next]_vars
  PROVE  DataTypes'
  <1> USE OutsideAssumption, ChunksAssumption, NodesAssumption
      DEF DataTypes, MainAt, CleanUpFrom, HasAudio, Ended, Suffers, Spend, lws, world,
          sound, queueVars
  <1>1. CASE ClientInit
    BY <1>1 DEF ClientInit
  <1>2. CASE AudioInit
    BY <1>2 DEF AudioInit
  <1>3. CASE OpenOutput
    BY <1>3 DEF OpenOutput
  <1>4. CASE Connect
    BY <1>4 DEF Connect
  <1>5. CASE Dialing
    BY <1>5 DEF Dialing
  <1>6. CASE DialEnds
    BY <1>6 DEF DialEnds, NotCreated
  <1>7. CASE Handshake
    BY <1>7 DEF Handshake, MainSends, MainWaits, Queues, BuildFails
  <1>8. CASE BeginInput
    BY <1>8 DEF BeginInput, OpenInputFails, NotCreated
  <1>9. CASE SendFile
    BY <1>9 DEF SendFile, MainWaits, Queues, BuildFails
  <1>10. CASE WaitForEnd
    BY <1>10 DEF WaitForEnd, MainWaits
  <1>11. CASE Goodbye
    BY <1>11 DEF Goodbye, MainSends, MainWaits, Queues, BuildFails
  <1>12. CASE StopThreads
    BY <1>12 DEF StopThreads
  <1>13. CASE JoinService
    BY <1>13 DEF JoinService
  <1>14. CASE JoinInput
    BY <1>14 DEF JoinInput
  <1>15. CASE StopPlayer
    BY <1>15 DEF StopPlayer
  <1>16. CASE CleanUpAudio
    BY <1>16 DEF CleanUpAudio
  <1>17. CASE DestroyClient
    BY <1>17 DEF DestroyClient
  <1>18. CASE AskForWritable("main")
    BY <1>18 DEF AskForWritable
  <1>19. CASE Writeable
    <2>1. UNCHANGED <<play_queue, chunks, outside, net, received>>
      BY <1>19 DEF Writeable
    <2>2. written' \in Seq(Command)
      <3>1. CASE UNCHANGED written
        BY <3>1
      <3>2. CASE ~IsEmpty /\ Goes(send_queue[send_head])
        <4>1. PICK cmd \in Command : cmd = send_queue[send_head]
          BY <3>2, FrontIsCommand
        <4>2. written' = written \/ written' = Append(written, cmd)
          BY <3>2, <4>1 DEF Goes
        <4>3. QED
          BY <4>1, <4>2
      <3>3. QED
        BY <1>19, <3>1, <3>2 DEF Writeable, Pop
    <2>3. QED
      BY <2>1, <2>2
  <1>20. CASE Receive
    BY <1>20 DEF Receive, HandsOver, Serving, ReceiveOnly, Handle, HelloDone, QueuePop, QueueClear,
       DecodeOggOpus
  <1>21. CASE ServiceEnds
    BY <1>21 DEF ServiceEnds, Serving
  <1>22. CASE InputWaitsForHello
    BY <1>22 DEF InputWaitsForHello, InputAt, InputGoes
  <1>23. CASE InputLoops
    BY <1>23 DEF InputLoops, InputAt, InputGoes, IfRunning
  <1>24. CASE InputSends
    BY <1>24 DEF InputSends, InputAt, Queues, BuildFails
  <1>25. CASE InputCancelled
    BY <1>25 DEF InputCancelled, InputAt, InputGoes
  <1>26. CASE AskForWritable("input")
    BY <1>26 DEF AskForWritable
  <1>27. CASE PlayerStep
    BY <1>27 DEF PlayerStep, QueuePop
  <1>28. CASE InputReads
    BY <1>28 DEF InputReads, InputAt, InputGoes, IfRunning
  <1>29. CASE WriteFails
    BY <1>29 DEF WriteFails, Serving, LinkLost
  <1>30. CASE ConnectionClosed
    BY <1>30 DEF ConnectionClosed, Serving, LinkLost
  <1>31. CASE PieceLost
    BY <1>31 DEF PieceLost, HandsOver, Serving, ReceiveOnly, Handle, HelloDone,
       QueuePop, QueueClear, DecodeOggOpus
  <1>32. CASE CtrlC
    BY <1>32 DEF CtrlC
  <1>33. CASE LinkStalls
    BY <1>33 DEF LinkStalls, Serving
  <1>34. CASE \E event \in Event : ServerSays(event)
    BY <1>34 DEF ServerSays, Serving
  <1>35. CASE UNCHANGED vars
    BY <1>35 DEF vars
  <1>36. QED
    BY <1>1, <1>2, <1>3, <1>4, <1>5, <1>6, <1>7, <1>8, <1>9, <1>10, <1>11,
       <1>12, <1>13, <1>14, <1>15, <1>16, <1>17, <1>18, <1>19, <1>20, <1>21,
       <1>22, <1>23, <1>24, <1>25, <1>26, <1>27, <1>28, <1>29, <1>30, <1>31,
       <1>32, <1>33, <1>34, <1>35
    DEF Next, MainStep, InputStep, Environment

(* Every variable of the C client keeps its type: the ring its messages,   *)
(* what was written commands only, recv_buf at most one message's front.   *)
THEOREM ClientIsTyped == Spec => []TypeOK
  <1> DEFINE Typed == ControlTypes /\ writable \in BOOLEAN /\ SetTypes /\ DataTypes
  <1>1. Init => Typed
    <2>1. Init => ControlTypes
      BY DEF Init, ControlTypes, MainPc
    <2>2. Init => writable \in BOOLEAN
      BY Zenon DEF Init
    <2>3. Init => SetTypes
      BY DEF Init, SetTypes, Flag
    <2>4. Init => DataTypes
      BY OutsideAssumption, ChunksAssumption, NodesAssumption DEF Init, DataTypes
    <2>5. QED
      BY <2>1, <2>2, <2>3, <2>4
  <1>2. QueueTypeOK /\ Typed /\ [Next]_vars => Typed'
    BY ControlIsTyped, WritableIsTyped, SetsAreTyped, DataIsTyped
  <1>3. QueueTypeOK /\ Typed => TypeOK
    BY DEF TypeOK, ControlTypes, SetTypes, DataTypes
  <1> HIDE DEF Typed
  <1>4. QED
    BY <1>1, <1>2, <1>3, QueueIsUsed, QueueHoldsMessages, PTL DEF Spec

-----------------------------------------------------------------------------
(* What is written, and what waits to be *)

(* Where main is before its first command is queued, before the second,    *)
(* and once the second should be on its way.                               *)
BeforeDial == {"init", "audio_init", "open_output", "connect"}
NothingSent == BeforeDial \cup {"dial", "start_connection"}
OneSent == {"connection_delay", "start_session"}
SessionStarted == (Served \ ({"start_connection"} \cup OneSent)) \cup {"join_input"}

(* The rank of the last control command that main may have queued. *)
Due ==
  IF main \in NothingSent THEN 0
  ELSE IF main \in OneSent THEN 1
  ELSE IF main \in {"session_delay", "say_hello"} THEN 2
  ELSE IF main \in {"begin_input", "file", "file_delay", "wait", "finish_session"} THEN 3
  ELSE IF main \in {"finishing", "finish_connection"} THEN 4
  ELSE 5

(* Commands wait in the order of the protocol, after those written. *)
QueueOrdered ==
  /\ \A i, j \in 1..Waiting :
        i < j /\ Pending[i] # "Input" /\ Pending[j] # "Input" =>
          Rank[Pending[i]] < Rank[Pending[j]]
  /\ \A i \in DOMAIN written, j \in 1..Waiting :
        written[i] # "Input" /\ Pending[j] # "Input" =>
          Rank[written[i]] < Rank[Pending[j]]

Below(rank) ==
  /\ \A i \in DOMAIN written : written[i] # "Input" => Rank[written[i]] <= rank
  /\ \A i \in 1..Waiting : Pending[i] # "Input" => Rank[Pending[i]] <= rank

SessionWritten == \E i \in DOMAIN written : written[i] = "StartSession"

(* StartSession is on its way to the server, unless memory failed. *)
Started ==
  \/ "memory" \in trouble
  \/ SessionWritten
  \/ \E i \in 1..Waiting : Pending[i] = "StartSession"

(* Input waits behind StartSession. *)
InputBehindSession ==
  "memory" \notin trouble =>
    \A j \in 1..Waiting :
      Pending[j] = "Input" =>
        SessionWritten \/ \E i \in 1..(j - 1) : Pending[i] = "StartSession"

QueueFollows ==
  /\ QueueOrdered /\ Below(Due) /\ InputBehindSession
  /\ main \in NothingSent => Waiting = 0
  /\ main \in OneSent => Waiting <= 1
  /\ main \in SessionStarted => Started

(* What waits matters as long as it can be written. *)
Wire ==
  /\ WireFollowsProtocol
  /\ main \in BeforeDial => link = "none"
  /\ link # "closed" => QueueFollows

LEMMA Ranks ==
  /\ Rank["StartConnection"] = 1 /\ Rank["StartSession"] = 2 /\ Rank["SayHello"] = 3
  /\ Rank["FinishSession"] = 4 /\ Rank["FinishConnection"] = 5
  /\ \A cmd \in Command \ {"Input"} : Rank[cmd] \in 1..5
  BY DEF Rank, Command

(* The queue as a sequence, and its length. *)
LEMMA PendingIsSequence ==
  ASSUME QueueTypeOK
  PROVE  /\ Waiting \in Nat /\ Pending \in Seq(Command) /\ Len(Pending) = Waiting
         /\ IsFull => Waiting = QueueSize - 1
  <1>1. send_head \in Slot /\ send_tail \in Slot
    BY DEF QueueTypeOK
  <1>2. /\ Waiting \in Nat
        /\ Waiting = IF send_tail < send_head THEN send_tail - send_head + QueueSize
                     ELSE send_tail - send_head
    BY <1>1, WaitingSize, QueueSizeAssumption
  <1>3. \A i \in 1..Waiting : send_queue[(send_head + i - 1) % QueueSize] \in Command
    BY MessagesAssumption DEF QueueTypeOK
  <1>4. Pending \in Seq(Command) /\ Len(Pending) = Waiting
    BY <1>2, <1>3 DEF Pending
  <1>5. IsFull => Waiting = QueueSize - 1
    BY <1>1, <1>2, NextSlot, QueueSizeAssumption DEF IsFull, Slot
  <1>6. QED
    BY <1>2, <1>4, <1>5

(* A command enters behind the others. *)
LEMMA PushFollows ==
  ASSUME QueueTypeOK, written \in Seq(Command), NEW cmd \in Command, Push(cmd),
         UNCHANGED written, "memory" \in trouble => "memory" \in trouble',
         QueueOrdered, InputBehindSession,
         cmd # "Input" => Below(Rank[cmd] - 1),
         cmd = "Input" => Started
  PROVE  /\ QueueOrdered' /\ InputBehindSession'
         /\ Waiting' = Waiting + 1
         /\ Started \/ cmd = "StartSession" => Started'
         /\ \A d \in 0..5 : Below(d) /\ (cmd # "Input" => Rank[cmd] <= d) => Below(d)'
  <1>1. /\ Waiting' = Waiting + 1 /\ Waiting \in Nat /\ Pending \in Seq(Command)
        /\ Len(Pending) = Waiting /\ Pending' = Append(Pending, cmd)
    BY PushAppends, PendingIsSequence, MessagesAssumption
  <1>2. /\ \A i \in 1..Waiting : Pending'[i] = Pending[i] /\ Pending[i] \in Command
        /\ Pending'[Waiting + 1] = cmd
    BY <1>1
  <1>3. \A i \in 1..Waiting' : i \in 1..Waiting \/ i = Waiting + 1
    BY <1>1
  <1>4. \A i \in DOMAIN written : written[i] \in Command
    OBVIOUS
  <1>ints. /\ \A i \in DOMAIN written : written[i] # "Input" => Rank[written[i]] \in 1..5
           /\ \A i \in 1..Waiting : Pending[i] # "Input" => Rank[Pending[i]] \in 1..5
           /\ cmd # "Input" => Rank[cmd] \in 1..5
    BY <1>2, <1>4, Ranks
  <1>5. QueueOrdered'
    <2>1. ASSUME NEW i \in 1..Waiting', NEW j \in 1..Waiting', i < j,
                 Pending'[i] # "Input", Pending'[j] # "Input"
          PROVE  Rank[Pending'[i]] < Rank[Pending'[j]]
      <3>1. i \in 1..Waiting
        BY <1>1, <2>1
      <3>2. CASE j \in 1..Waiting
        BY <1>2, <2>1, <3>1, <3>2 DEF QueueOrdered
      <3>3. CASE j = Waiting + 1
        BY <1>2, <1>ints, <2>1, <3>1, <3>3 DEF Below
      <3>4. QED
        BY <1>3, <3>2, <3>3
    <2>2. ASSUME NEW i \in DOMAIN written, NEW j \in 1..Waiting',
                 written[i] # "Input", Pending'[j] # "Input"
          PROVE  Rank[written[i]] < Rank[Pending'[j]]
      <3>1. CASE j \in 1..Waiting
        BY <1>2, <2>2, <3>1 DEF QueueOrdered
      <3>2. CASE j = Waiting + 1
        BY <1>2, <1>ints, <2>2, <3>2 DEF Below
      <3>3. QED
        BY <1>3, <3>1, <3>2
    <2>3. QED
      BY <2>1, <2>2 DEF QueueOrdered
  <1>6. Started \/ cmd = "StartSession" => Started'
    <2>1. Waiting + 1 \in 1..Waiting' /\ \A i \in 1..Waiting : i \in 1..Waiting'
      BY <1>1
    <2>2. QED
      BY <1>2, <2>1 DEF Started, SessionWritten
  <1>7. InputBehindSession'
    <2> SUFFICES ASSUME "memory" \notin trouble', NEW j \in 1..Waiting',
                        Pending'[j] = "Input"
                 PROVE  \/ SessionWritten
                        \/ \E i \in 1..(j - 1) : Pending'[i] = "StartSession"
      BY DEF InputBehindSession, SessionWritten
    <2>1. CASE j \in 1..Waiting
      <3>1. SessionWritten \/ \E i \in 1..(j - 1) : Pending[i] = "StartSession"
        BY <1>2, <2>1 DEF InputBehindSession
      <3>2. \A i \in 1..(j - 1) : i \in 1..Waiting
        BY <1>1, <2>1
      <3>3. QED
        BY <1>2, <3>1, <3>2
    <2>2. CASE j = Waiting + 1
      <3>1. SessionWritten \/ \E i \in 1..Waiting : Pending[i] = "StartSession"
        BY <1>2, <2>2 DEF Started
      <3>2. j - 1 = Waiting
        BY <1>1, <2>2
      <3>3. QED
        BY <1>2, <3>1, <3>2
    <2>3. QED
      BY <1>3, <2>1, <2>2
  <1>8. ASSUME NEW d \in 0..5, Below(d), cmd # "Input" => Rank[cmd] <= d
        PROVE  Below(d)'
    BY <1>2, <1>3, <1>8 DEF Below
  <1>9. QED
    BY <1>1, <1>5, <1>6, <1>7, <1>8

(* The first of the queue is written, or joins the run of input before it. *)
LEMMA PopFollows ==
  ASSUME QueueTypeOK, written \in Seq(Command), Pop, Goes(send_queue[send_head]),
         UNCHANGED trouble, WireFollowsProtocol, QueueOrdered, InputBehindSession
  PROVE  /\ WireFollowsProtocol' /\ QueueOrdered' /\ InputBehindSession'
         /\ Waiting' = Waiting - 1 /\ Waiting \in Nat
         /\ Started => Started'
         /\ \A d \in 0..5 : Below(d) => Below(d)'
  <1> DEFINE cmd == Pending[1]
             merged == cmd = "Input" /\ written # <<>> /\ written[Len(written)] = "Input"
  <1>1. /\ Waiting \in Nat /\ Waiting # 0 /\ Pending \in Seq(Command)
        /\ Len(Pending) = Waiting /\ Pending' = Tail(Pending) /\ QueueTypeOK'
    BY PopTakesFirst, PendingIsSequence
  <1>2. send_queue[send_head] = cmd /\ cmd \in Command
    BY FrontIsCommand DEF Pop
  <1>3. Waiting' = Waiting - 1
    BY PopTakesFirst
  <1>4. /\ 1 \in 1..Waiting
        /\ \A i \in 1..Waiting' : /\ i + 1 \in 1..Waiting /\ i \in 1..Waiting
                                  /\ Pending'[i] = Pending[i + 1]
        /\ \A i \in 1..Waiting :
              i # 1 => i - 1 \in 1..Waiting' /\ Pending'[i - 1] = Pending[i]
    BY <1>1, <1>3
  <1>later. \A i, j \in 1..Waiting' : i < j => i + 1 < j + 1
    BY <1>1, <1>3
  <1> HIDE DEF cmd
  <1>5. written' = IF merged THEN written ELSE Append(written, cmd)
    BY <1>2 DEF Goes
  <1>6. /\ DOMAIN written = 1..Len(written) /\ Len(written) \in Nat
        /\ \A i \in DOMAIN written : written[i] \in Command
    OBVIOUS
  <1>ints. /\ \A i \in DOMAIN written : written[i] # "Input" => Rank[written[i]] \in 1..5
           /\ \A i \in 1..Waiting : Pending[i] # "Input" => Rank[Pending[i]] \in 1..5
           /\ \A i \in 1..Waiting : Pending[i] \in Command
    BY <1>1, <1>6, Ranks
  <1>7. CASE merged
    <2>1. written' = written /\ cmd = "Input"
      BY <1>5, <1>7
    <2>2. WireFollowsProtocol' /\ SessionWritten' = SessionWritten
      <3>1. WireFollowsProtocol'
        BY <2>1 DEF WireFollowsProtocol
      <3>2. SessionWritten' = SessionWritten
        BY <2>1 DEF SessionWritten
      <3>3. QED
        BY <3>1, <3>2
    <2>3. QueueOrdered'
      <3>1. \A i, j \in 1..Waiting' :
              i < j /\ Pending'[i] # "Input" /\ Pending'[j] # "Input" =>
                Rank[Pending'[i]] < Rank[Pending'[j]]
        BY <1>4, <1>later DEF QueueOrdered
      <3>2. \A i \in DOMAIN written, j \in 1..Waiting' :
              written[i] # "Input" /\ Pending'[j] # "Input" =>
                Rank[written[i]] < Rank[Pending'[j]]
        BY <1>4 DEF QueueOrdered
      <3>3. QED
        BY <2>1, <3>1, <3>2 DEF QueueOrdered
    <2>4. InputBehindSession'
      <3> SUFFICES ASSUME "memory" \notin trouble, NEW j \in 1..Waiting',
                          Pending'[j] = "Input"
                   PROVE  \/ SessionWritten
                          \/ \E i \in 1..(j - 1) : Pending'[i] = "StartSession"
        BY <2>2 DEF InputBehindSession
      <3>1. SessionWritten
        <4>1. PICK i \in DOMAIN written : written[i] = "Input"
          BY <1>6, <1>7
        <4>2. QED
          BY <1>6, <4>1 DEF WireFollowsProtocol, SessionWritten
      <3>2. QED
        BY <3>1
    <2>5. Started => Started'
      BY <1>4, <2>1, <2>2 DEF Started, cmd
    <2>6. \A d \in 0..5 : Below(d) => Below(d)'
      BY <1>4, <2>1 DEF Below
    <2>7. QED
      BY <1>1, <1>3, <2>2, <2>3, <2>4, <2>5, <2>6
  <1>8. CASE ~merged
    <2>1. written' = Append(written, cmd)
      BY <1>5, <1>8
    <2>2. /\ DOMAIN written' = 1..(Len(written) + 1)
          /\ \A i \in DOMAIN written : i \in DOMAIN written' /\ written'[i] = written[i]
          /\ written'[Len(written) + 1] = cmd
          /\ \A i \in DOMAIN written' : i \in DOMAIN written \/ i = Len(written) + 1
      BY <1>2, <1>6, <2>1
    <2>3. SessionWritten' <=> SessionWritten \/ cmd = "StartSession"
      BY <1>6, <2>2 DEF SessionWritten
    <2>4. WireFollowsProtocol'
      <3> SUFFICES ASSUME NEW j \in DOMAIN written'
                   PROVE  /\ written'[j] # "Input" =>
                               \A i \in 1..(j - 1) :
                                  written'[i] # "Input" => Rank[written'[i]] <
                                  Rank[written'[j]]
                          /\ written'[j] = "Input" /\ "memory" \notin trouble =>
                               \E i \in 1..(j - 1) : written'[i] = "StartSession"
        BY DEF WireFollowsProtocol
      <3>1. CASE j \in DOMAIN written
        <4>1. \A i \in 1..(j - 1) : i \in DOMAIN written
          BY <1>6, <3>1
        <4>2. QED
          BY <2>2, <3>1, <4>1 DEF WireFollowsProtocol
      <3>2. CASE j = Len(written) + 1
        <4>1. 1..(j - 1) = DOMAIN written /\ written'[j] = cmd
          BY <1>6, <2>2, <3>2
        <4>2. cmd # "Input" =>
                \A i \in DOMAIN written :
                   written[i] # "Input" => Rank[written[i]] < Rank[cmd]
          BY <1>4 DEF QueueOrdered, cmd
        <4>3. cmd = "Input" /\ "memory" \notin trouble => SessionWritten
          BY <1>4 DEF InputBehindSession, cmd
        <4>4. QED
          BY <2>2, <4>1, <4>2, <4>3 DEF SessionWritten
      <3>3. QED
        BY <2>2, <3>1, <3>2
    <2>5. QueueOrdered'
      <3>1. ASSUME NEW i \in DOMAIN written', NEW j \in 1..Waiting',
                   written'[i] # "Input", Pending'[j] # "Input"
            PROVE  Rank[written'[i]] < Rank[Pending'[j]]
        <4>1. CASE i \in DOMAIN written
          BY <1>4, <2>2, <3>1, <4>1 DEF QueueOrdered
        <4>2. CASE i = Len(written) + 1
          <5>1. 1 < j + 1 /\ j + 1 \in 1..Waiting /\ Pending'[j] = Pending[j + 1]
            BY <1>4
          <5>2. QED
            BY <1>4, <2>2, <3>1, <4>2, <5>1 DEF QueueOrdered, cmd
        <4>3. QED
          BY <2>2, <4>1, <4>2
      <3>2. \A i, j \in 1..Waiting' :
              i < j /\ Pending'[i] # "Input" /\ Pending'[j] # "Input" =>
                Rank[Pending'[i]] < Rank[Pending'[j]]
        BY <1>4, <1>later DEF QueueOrdered
      <3>3. QED
        BY <3>1, <3>2 DEF QueueOrdered
    <2>6. InputBehindSession'
      <3> SUFFICES ASSUME "memory" \notin trouble, NEW j \in 1..Waiting',
                          Pending'[j] = "Input"
                   PROVE  \/ SessionWritten'
                          \/ \E i \in 1..(j - 1) : Pending'[i] = "StartSession"
        BY DEF InputBehindSession
      <3>1. SessionWritten \/ \E i \in 1..((j + 1) - 1) : Pending[i] = "StartSession"
        BY <1>4 DEF InputBehindSession
      <3>2. ASSUME NEW i \in 1..((j + 1) - 1), Pending[i] = "StartSession", i # 1
            PROVE  i - 1 \in 1..(j - 1) /\ Pending'[i - 1] = "StartSession"
        BY <1>1, <1>3, <1>4, <3>2
      <3>3. QED
        BY <2>3, <3>1, <3>2 DEF cmd
    <2>7. Started => Started'
      BY <1>4, <2>3 DEF Started, cmd
    <2>8. \A d \in 0..5 : Below(d) => Below(d)'
      BY <1>4, <2>2 DEF Below, cmd
    <2>9. QED
      BY <1>1, <1>3, <2>4, <2>5, <2>6, <2>7, <2>8
  <1>9. QED
    BY <1>7, <1>8

(* What every step does: main only goes forward, and a connection that was *)
(* closed stays so.                                                        *)
Onward ==
  /\ "memory" \in trouble => "memory" \in trouble'
  /\ link' # "closed" => link # "closed"
  /\ main' \in BeforeDial => link' = "none"
  /\ Due <= Due'
  /\ main' \in NothingSent => main \in NothingSent
  /\ main' \in OneSent => main \in OneSent \cup {"start_connection"}

(* A bound on the ranks may grow. *)
LEMMA BelowGrows ==
  ASSUME QueueTypeOK, written \in Seq(Command),
         NEW d \in 0..5, NEW e \in 0..5, d <= e, Below(d)
  PROVE  Below(e)
  <1>1. Waiting \in Nat /\ Pending \in Seq(Command) /\ Len(Pending) = Waiting
    BY PendingIsSequence
  <1>2. /\ \A i \in DOMAIN written : written[i] # "Input" => Rank[written[i]] \in 1..5
        /\ \A i \in 1..Waiting : Pending[i] # "Input" => Rank[Pending[i]] \in 1..5
    BY <1>1, Ranks
  <1>3. QED
    BY <1>2 DEF Below

(* A step that neither queues nor writes. *)
LEMMA QuietKeepsWire ==
  ASSUME Wire, QueueTypeOK, written \in Seq(Command), Onward,
         UNCHANGED <<send_queue, send_head, send_tail, written>>,
         main' \in OneSent /\ link # "closed" => Waiting <= 1,
         main' \in SessionStarted /\ link # "closed" => Started \/ "memory" \in trouble'
  PROVE  Wire'
  <1>1. Waiting' = Waiting /\ Pending' = Pending
    BY DEF Waiting, Pending
  <1>2. WireFollowsProtocol' /\ (main \in BeforeDial => link = "none")'
    BY DEF Wire, WireFollowsProtocol, Onward
  <1>3. ASSUME link' # "closed" PROVE QueueFollows'
    <2>1. QueueFollows /\ link # "closed"
      BY <1>3 DEF Wire, Onward
    <2>2. SessionWritten' = SessionWritten
      BY DEF SessionWritten
    <2>3. QueueOrdered'
      BY <1>1, <2>1 DEF QueueFollows, QueueOrdered
    <2>4. InputBehindSession'
      BY <1>1, <2>1, <2>2 DEF QueueFollows, InputBehindSession, Onward
    <2>5. Below(Due)'
      <3>1. Due \in 0..5 /\ Due' \in 0..5
        BY DEF Due
      <3>2. Below(Due')
        BY <2>1, <3>1, BelowGrows DEF QueueFollows, Onward
      <3>3. QED
        BY <1>1, <3>2 DEF Below
    <2>6. Started \/ "memory" \in trouble' => Started'
      BY <1>1, <2>2 DEF Started, Onward
    <2>7. QED
      BY <1>1, <2>1, <2>3, <2>4, <2>5, <2>6 DEF QueueFollows, Onward
  <1>4. QED
    BY <1>2, <1>3 DEF Wire

(* A command is queued, or is not because the queue is full or memory      *)
(* failed.                                                                 *)
LEMMA QueuesKeepsWire ==
  ASSUME Wire, QueueTypeOK, QueueSize >= 3, written \in Seq(Command), Onward,
         NEW t, NEW cmd \in Command, Queues(t, cmd), UNCHANGED <<written, link>>,
         cmd # "Input" => Due + 1 <= Rank[cmd] /\ Rank[cmd] <= Due',
         cmd = "Input" => main \in SessionStarted /\ main' \in SessionStarted,
         main' \notin NothingSent,
         main' \in OneSent => main \in NothingSent,
         main' \in SessionStarted =>
           main \in SessionStarted \/ (main \in OneSent /\ cmd = "StartSession")
  PROVE  Wire'
  <1> USE QueueSizeAssumption
  <1>1. CASE link # "closed" /\ Push(cmd)
    <2>1. QueueFollows /\ WireFollowsProtocol
      BY <1>1 DEF Wire
    <2>2. Due \in 0..5 /\ Due' \in 0..5
      BY DEF Due
    <2>3. cmd # "Input" => Below(Rank[cmd] - 1)
      <3>1. cmd # "Input" => Rank[cmd] - 1 \in 0..5 /\ Due <= Rank[cmd] - 1
        BY <2>2, Ranks
      <3>2. QED
        BY <2>1, <2>2, <3>1, BelowGrows DEF QueueFollows
    <2>4. cmd = "Input" => Started
      BY <2>1 DEF QueueFollows
    <2>5. /\ QueueOrdered' /\ InputBehindSession' /\ Waiting' = Waiting + 1
          /\ Started \/ cmd = "StartSession" => Started'
          /\ \A d \in 0..5 : Below(d) /\ (cmd # "Input" => Rank[cmd] <= d) => Below(d)'
      BY <1>1, <2>1, <2>3, <2>4, PushFollows DEF QueueFollows, Onward
    <2>6. Below(Due)'
      <3>1. Below(Due')
        BY <2>1, <2>2, BelowGrows DEF QueueFollows, Onward
      <3>2. PICK d \in 0..5 : d = Due'
        BY <2>2
      <3>3. Below(d)'
        BY <2>5, <3>1, <3>2
      <3>4. QED
        BY <3>2, <3>3 DEF Below
    <2>7. WireFollowsProtocol'
      BY <2>1 DEF WireFollowsProtocol, Onward
    <2>8. QED
      BY <1>1, <2>1, <2>5, <2>6, <2>7, PendingIsSequence DEF Wire, QueueFollows, Onward
  <1>2. CASE link = "closed"
    BY <1>2 DEF Wire, WireFollowsProtocol, Onward
  <1>3. CASE link # "closed" /\ IsFull /\ UNCHANGED queueVars
    <2>1. Waiting = QueueSize - 1
      BY <1>3, PendingIsSequence
    <2>2. QueueFollows
      BY <1>3 DEF Wire
    <2>3. main \notin NothingSent \cup OneSent
      BY <2>1, <2>2 DEF QueueFollows
    <2>4. QED
      BY <1>3, <2>2, <2>3, QuietKeepsWire DEF queueVars, QueueFollows
  <1>4. CASE link # "closed" /\ BuildFails /\ UNCHANGED queueVars
    <2>1. main' \in OneSent => Waiting <= 1
      BY <1>4 DEF Wire, QueueFollows
    <2>2. main' \in SessionStarted => "memory" \in trouble'
      BY <1>4 DEF BuildFails, Suffers
    <2>3. QED
      BY <1>4, <2>1, <2>2, QuietKeepsWire DEF queueVars
  <1>5. QED
    BY <1>1, <1>2, <1>3, <1>4 DEF Queues

LEMMA StepGoesOnward ==
  ASSUME Threads, main \in BeforeDial => link = "none", [Next]_vars
  PROVE  Onward
  <1> USE DEF Onward, Due, Threads, BeforeInput, BeforeDial, NothingSent, OneSent,
              Served, MainAt, CleanUpFrom, HasAudio, Ended, Suffers, Spend, lws, world,
              sound, queueVars
  <1>1. CASE ClientInit
    BY <1>1 DEF ClientInit
  <1>2. CASE AudioInit
    BY <1>2 DEF AudioInit
  <1>3. CASE OpenOutput
    BY <1>3 DEF OpenOutput
  <1>4. CASE Connect
    BY <1>4 DEF Connect
  <1>5. CASE Dialing
    BY <1>5 DEF Dialing
  <1>6. CASE DialEnds
    BY <1>6 DEF DialEnds, NotCreated
  <1>7. CASE Handshake
    BY <1>7 DEF Handshake, MainSends, MainWaits, Queues, BuildFails
  <1>8. CASE BeginInput
    BY <1>8 DEF BeginInput, OpenInputFails, NotCreated
  <1>9. CASE SendFile
    BY <1>9 DEF SendFile, MainWaits, Queues, BuildFails
  <1>10. CASE WaitForEnd
    BY <1>10 DEF WaitForEnd, MainWaits
  <1>11. CASE Goodbye
    BY <1>11 DEF Goodbye, MainSends, MainWaits, Queues, BuildFails
  <1>12. CASE StopThreads
    BY <1>12 DEF StopThreads
  <1>13. CASE JoinService
    BY <1>13 DEF JoinService
  <1>14. CASE JoinInput
    BY <1>14 DEF JoinInput
  <1>15. CASE StopPlayer
    BY <1>15 DEF StopPlayer
  <1>16. CASE CleanUpAudio
    BY <1>16 DEF CleanUpAudio
  <1>17. CASE DestroyClient
    BY <1>17 DEF DestroyClient
  <1>18. CASE AskForWritable("main")
    BY <1>18 DEF AskForWritable
  <1>19. CASE Writeable
    BY <1>19 DEF Writeable, Serving
  <1>20. CASE Receive
    BY <1>20 DEF Receive, HandsOver, Serving, ReceiveOnly, Handle, HelloDone
  <1>21. CASE ServiceEnds
    BY <1>21 DEF ServiceEnds, Serving
  <1>22. CASE InputWaitsForHello
    BY <1>22 DEF InputWaitsForHello, InputAt, InputGoes
  <1>23. CASE InputLoops
    BY <1>23 DEF InputLoops, InputAt, InputGoes, IfRunning
  <1>24. CASE InputSends
    BY <1>24 DEF InputSends, InputAt, Queues, BuildFails
  <1>25. CASE InputCancelled
    BY <1>25 DEF InputCancelled, InputAt, InputGoes
  <1>26. CASE AskForWritable("input")
    BY <1>26 DEF AskForWritable
  <1>27. CASE PlayerStep
    BY <1>27 DEF PlayerStep
  <1>28. CASE InputReads
    BY <1>28 DEF InputReads, InputAt, InputGoes, IfRunning
  <1>29. CASE WriteFails
    BY <1>29 DEF WriteFails, Serving, LinkLost
  <1>30. CASE ConnectionClosed
    BY <1>30 DEF ConnectionClosed, Serving, LinkLost
  <1>31. CASE PieceLost
    BY <1>31 DEF PieceLost, HandsOver, Serving, ReceiveOnly, Handle, HelloDone
  <1>32. CASE CtrlC
    BY <1>32 DEF CtrlC
  <1>33. CASE LinkStalls
    BY <1>33 DEF LinkStalls, Serving
  <1>34. CASE \E event \in Event : ServerSays(event)
    BY <1>34 DEF ServerSays, Serving
  <1>35. CASE UNCHANGED vars
    BY <1>35 DEF vars
  <1>36. QED
    BY <1>1, <1>2, <1>3, <1>4, <1>5, <1>6, <1>7, <1>8, <1>9, <1>10, <1>11,
       <1>12, <1>13, <1>14, <1>15, <1>16, <1>17, <1>18, <1>19, <1>20, <1>21,
       <1>22, <1>23, <1>24, <1>25, <1>26, <1>27, <1>28, <1>29, <1>30, <1>31,
       <1>32, <1>33, <1>34, <1>35
    DEF Next, MainStep, InputStep, Environment

(* Every step but those of the senders, of the WRITEABLE callback and of   *)
(* client_destroy leaves the queue and what was written alone.             *)
Quiet ==
  /\ UNCHANGED <<send_queue, send_head, send_tail, written>>
  /\ main' \in OneSent => main \in OneSent
  /\ main' \in SessionStarted => main \in SessionStarted

LEMMA OtherStepsAreQuiet ==
  ASSUME Threads, [Next]_vars
  PROVE  \/ Quiet
         \/ Handshake \/ SendFile \/ Goodbye \/ InputSends
         \/ Writeable \/ WriteFails \/ DestroyClient
  <1> USE DEF Quiet, Threads, BeforeInput, BeforeDial, NothingSent, OneSent,
              SessionStarted, Served, MainAt, CleanUpFrom, HasAudio, Ended, Suffers,
              Spend, lws, world, sound, queueVars
  <1>1. CASE ClientInit
    BY <1>1 DEF ClientInit
  <1>2. CASE AudioInit
    BY <1>2 DEF AudioInit
  <1>3. CASE OpenOutput
    BY <1>3 DEF OpenOutput
  <1>4. CASE Connect
    BY <1>4 DEF Connect
  <1>5. CASE Dialing
    BY <1>5 DEF Dialing
  <1>6. CASE DialEnds
    BY <1>6 DEF DialEnds, NotCreated
  <1>7. CASE BeginInput
    BY <1>7 DEF BeginInput, OpenInputFails, NotCreated
  <1>8. CASE WaitForEnd
    BY <1>8 DEF WaitForEnd, MainWaits
  <1>9. CASE StopThreads
    BY <1>9 DEF StopThreads
  <1>10. CASE JoinService
    BY <1>10 DEF JoinService
  <1>11. CASE JoinInput
    BY <1>11 DEF JoinInput
  <1>12. CASE StopPlayer
    BY <1>12 DEF StopPlayer
  <1>13. CASE CleanUpAudio
    BY <1>13 DEF CleanUpAudio
  <1>14. CASE AskForWritable("main")
    BY <1>14 DEF AskForWritable
  <1>15. CASE Receive
    BY <1>15 DEF Receive, HandsOver, Serving, ReceiveOnly, Handle, HelloDone
  <1>16. CASE ServiceEnds
    BY <1>16 DEF ServiceEnds, Serving
  <1>17. CASE InputWaitsForHello
    BY <1>17 DEF InputWaitsForHello, InputAt, InputGoes
  <1>18. CASE InputLoops
    BY <1>18 DEF InputLoops, InputAt, InputGoes, IfRunning
  <1>19. CASE InputCancelled
    BY <1>19 DEF InputCancelled, InputAt, InputGoes
  <1>20. CASE AskForWritable("input")
    BY <1>20 DEF AskForWritable
  <1>21. CASE PlayerStep
    BY <1>21 DEF PlayerStep
  <1>22. CASE InputReads
    BY <1>22 DEF InputReads, InputAt, InputGoes, IfRunning
  <1>23. CASE ConnectionClosed
    BY <1>23 DEF ConnectionClosed, Serving, LinkLost
  <1>24. CASE PieceLost
    BY <1>24 DEF PieceLost, HandsOver, Serving, ReceiveOnly, Handle, HelloDone
  <1>25. CASE CtrlC
    BY <1>25 DEF CtrlC
  <1>26. CASE LinkStalls
    BY <1>26 DEF LinkStalls, Serving
  <1>27. CASE \E event \in Event : ServerSays(event)
    BY <1>27 DEF ServerSays, Serving
  <1>28. CASE UNCHANGED vars
    BY <1>28 DEF vars
  <1>29. QED
    BY <1>1, <1>2, <1>3, <1>4, <1>5, <1>6, <1>7, <1>8, <1>9, <1>10, <1>11,
       <1>12, <1>13, <1>14, <1>15, <1>16, <1>17, <1>18, <1>19, <1>20, <1>21,
       <1>22, <1>23, <1>24, <1>25, <1>26, <1>27, <1>28
    DEF Next, MainStep, InputStep, Environment

(* Every step keeps Wire: a quiet one, each that queues, the callback that *)
(* writes, the one that fails, and the end.                                *)
LEMMA StepKeepsWire ==
  ASSUME TypeOK, Control, Wire, QueueSize >= 3, [Next]_vars
  PROVE  Wire'
  <1>types. QueueTypeOK /\ written \in Seq(Command)
    BY DEF TypeOK
  <1>controls. Threads /\ (main \in BeforeDial => link = "none")
    BY DEF Control, Wire
  <1>onward. Onward
    BY <1>controls, StepGoesOnward
  <1>pos. link # "closed" =>
            /\ main \in OneSent => Waiting <= 1
            /\ main \in SessionStarted => Started
    BY DEF Wire, QueueFollows
  <1>quiet. CASE Quiet
    BY <1>types, <1>onward, <1>pos, <1>quiet, QuietKeepsWire DEF Quiet
  <1> USE DEF NothingSent, OneSent, BeforeDial, SessionStarted, Served
  <1>sends. ASSUME NEW label, NEW cmd \in Command, NEW next, MainSends(label, cmd, next),
                   <<label, cmd, next>> \in
                     {<<"start_connection", "StartConnection", "connection_delay">>,
                      <<"start_session", "StartSession", "session_delay">>,
                      <<"say_hello", "SayHello", "begin_input">>,
                      <<"finish_session", "FinishSession", "finishing">>,
                      <<"finish_connection", "FinishConnection", "last_delay">>}
            PROVE  Wire'
    <2>1. main = label /\ main' = next /\ Queues("main", cmd) /\ UNCHANGED <<written, link>>
      BY <1>sends DEF MainSends, MainAt
    <2>2. cmd # "Input" /\ Due + 1 <= Rank[cmd] /\ Rank[cmd] <= Due'
      BY <1>sends, <2>1, Ranks DEF Due
    <2>3. /\ main' \notin NothingSent
          /\ main' \in OneSent => main \in NothingSent
          /\ main' \in SessionStarted =>
               main \in SessionStarted \/ (main \in OneSent /\ cmd = "StartSession")
      BY <1>sends, <2>1
    <2>4. QED
      BY <1>types, <1>onward, <2>1, <2>2, <2>3, QueuesKeepsWire
  <1>commands. {"StartConnection", "StartSession", "SayHello", "FinishSession",
                "FinishConnection", "Input"} \subseteq Command
    BY DEF Command
  <1>waits. ASSUME NEW label, NEW next, MainWaits(label, next),
                   next \notin OneSent \/ label \in OneSent,
                   next \notin SessionStarted \/ label \in SessionStarted
            PROVE  Wire'
    <2>1. Quiet
      BY <1>waits DEF MainWaits, MainAt, Quiet, queueVars, world
    <2>2. QED
      BY <1>quiet, <2>1
  <1>1. CASE Handshake
    <2>1. CASE \/ MainSends("start_connection", "StartConnection", "connection_delay")
               \/ MainSends("start_session", "StartSession", "session_delay")
               \/ MainSends("say_hello", "SayHello", "begin_input")
      BY <1>sends, <1>commands, <2>1
    <2>2. CASE \/ MainWaits("connection_delay", "start_session")
               \/ MainWaits("session_delay",
                            IF HasAudio THEN "say_hello" ELSE "begin_input")
      BY <1>waits, <2>2
    <2>3. QED
      BY <1>1, <2>1, <2>2 DEF Handshake
  <1>input. ASSUME NEW t, Queues(t, "Input"), UNCHANGED <<written, link>>,
                   main \in SessionStarted, main' \in SessionStarted
            PROVE  Wire'
    BY <1>types, <1>onward, <1>commands, <1>input, QueuesKeepsWire
  <1>2. CASE SendFile
    <2>1. CASE MainWaits("file_delay", "file") \/ MainWaits("file", "wait")
      BY <1>waits, <2>1
    <2>2. CASE MainAt("file") /\ main' = "file_delay" /\ Queues("main", "Input")
               /\ UNCHANGED <<written, link>>
      BY <1>input, <2>2 DEF MainAt
    <2>3. QED
      BY <1>2, <2>1, <2>2 DEF SendFile
  <1>3. CASE Goodbye
    <2>1. CASE \/ MainSends("finish_session", "FinishSession", "finishing")
               \/ MainSends("finish_connection", "FinishConnection", "last_delay")
      BY <1>sends, <1>commands, <2>1
    <2>2. CASE \/ MainWaits("finishing", "finish_connection")
               \/ MainWaits("last_delay", "stop")
      BY <1>waits, <2>2
    <2>3. QED
      BY <1>3, <2>1, <2>2 DEF Goodbye
  <1>4. CASE InputSends
    <2>1. Queues("input", "Input") /\ main' = main /\ UNCHANGED <<written, link>>
      BY <1>4 DEF InputSends
    <2>2. main \in SessionStarted
      BY <1>4, <1>controls DEF InputSends, InputAt, NoInput, Ended, Threads, BeforeInput
    <2>3. QED
      BY <1>input, <2>1, <2>2
  <1>5. CASE Writeable
    <2>1. CASE UNCHANGED queueVars /\ UNCHANGED written
      <3>1. Quiet
        BY <1>5, <2>1 DEF Writeable, Quiet, queueVars
      <3>2. QED
        BY <1>quiet, <3>1
    <2>2. CASE Pop /\ Goes(send_queue[send_head])
      <3>1. link = "up" /\ UNCHANGED <<link, main, trouble>>
        BY <1>5 DEF Writeable
      <3>2. WireFollowsProtocol /\ QueueFollows
        BY <3>1 DEF Wire
      <3>3. /\ WireFollowsProtocol' /\ QueueOrdered' /\ InputBehindSession'
            /\ Waiting' = Waiting - 1 /\ Waiting \in Nat
            /\ Started => Started'
            /\ \A d \in 0..5 : Below(d) => Below(d)'
        BY <1>types, <2>2, <3>1, <3>2, PopFollows DEF QueueFollows
      <3>4. Due' = Due /\ Due \in 0..5
        BY <3>1 DEF Due
      <3>5. Below(Due)'
        <4>1. PICK d \in 0..5 : d = Due
          BY <3>4
        <4>2. Below(d)'
          BY <3>2, <3>3, <4>1 DEF QueueFollows
        <4>3. QED
          BY <3>4, <4>1, <4>2 DEF Below
      <3>waits. Waiting # 0
        BY <1>types, <2>2, PopTakesFirst
      <3>6. QED
        BY <3>1, <3>2, <3>3, <3>5, <3>waits DEF Wire, QueueFollows
    <2>3. QED
      BY <1>5, <2>1, <2>2 DEF Writeable
  <1>6. CASE WriteFails
    <2>1. link' = "closed" /\ written' = written
      BY <1>6 DEF WriteFails, LinkLost
    <2>2. QED
      BY <1>onward, <2>1 DEF Wire, WireFollowsProtocol, Onward
  <1>7. CASE DestroyClient
    <2>1. FreeRest /\ written' = written /\ main' \in {"exited", "crashed"}
      BY <1>7 DEF DestroyClient, MainAt, world
    <2>2. WireFollowsProtocol'
      BY <1>onward, <2>1 DEF Wire, WireFollowsProtocol, Onward
    <2>3. Waiting' = 0
      BY <1>types, <2>1, FreeEmpties
    <2>4. ASSUME link' # "closed" PROVE QueueFollows'
      <3>1. Below(Due) /\ Due \in 0..5 /\ Due' \in 0..5 /\ Due <= Due'
        BY <1>onward, <2>4 DEF Wire, QueueFollows, Onward, Due
      <3>2. Below(Due')
        BY <1>types, <3>1, BelowGrows
      <3>3. Below(Due)'
        BY <2>1, <2>3, <3>2 DEF Below
      <3>4. QueueOrdered' /\ InputBehindSession'
        BY <2>3 DEF QueueOrdered, InputBehindSession
      <3>5. QED
        BY <2>1, <2>3, <3>3, <3>4 DEF QueueFollows
    <2>5. QED
      BY <2>1, <2>2, <2>4 DEF Wire
  <1>8. QED
    BY <1>controls, <1>quiet, <1>1, <1>2, <1>3, <1>4, <1>5, <1>6, <1>7, OtherStepsAreQuiet

(* What the server sees is the protocol, however main, the input and the   *)
(* service thread interleave, for every size of the queue from three slots *)
(* on: each control command at most once and in its order, and input only  *)
(* after StartSession, unless an allocation has failed.  With two slots a  *)
(* stalled connection could keep StartConnection waiting and StartSession  *)
(* out of the queue.                                                       *)
THEOREM WireIsTheProtocol ==
  ASSUME QueueSize >= 3
  PROVE  Spec => []WireFollowsProtocol
  <1>1. TypeOK /\ Init => Wire
    <2> SUFFICES ASSUME TypeOK, Init PROVE Wire
      OBVIOUS
    <2>1. Waiting = 0 /\ written = <<>> /\ main = "init" /\ link = "none"
      BY Wrap, QueueSizeAssumption DEF Init, QueueInit, Waiting
    <2>2. QED
      BY <2>1 DEF Wire, WireFollowsProtocol, QueueFollows, QueueOrdered, Below,
                  InputBehindSession, OneSent, SessionStarted, Served
  <1>2. TypeOK /\ Control /\ Wire /\ [Next]_vars => Wire'
    BY StepKeepsWire
  <1>3. Wire => WireFollowsProtocol
    BY DEF Wire
  <1>4. QED
    BY <1>1, <1>2, <1>3, ClientIsTyped, ControlAlways, PTL DEF Spec

-----------------------------------------------------------------------------
(* The goodbye of a run that nothing disturbs *)

LeaveTaken == {"join_service", "join_input", "cleanup_audio", "join_player",
               "destroy", "exited", "crashed"}

(* Without trouble the connection and the service thread are there until   *)
(* main stops them.                                                        *)
Calm ==
  trouble = {} =>
    /\ main \in {"audio_init", "open_output", "connect"} => "client_running" \in flags
    /\ main = "dial" /\ (link = "dialing" \/ "connected" \in flags) =>
         "client_running" \in flags
    /\ main \in BeforeDial \cup {"dial"} => service = "none"
    /\ main \in Served \cup {"join_input"} => link = "up"
    /\ main \in Served \ {"join_service"} => service = "loop" /\ "client_running" \in flags
    /\ service = "done" => main \in LeaveTaken

LEMMA CalmIsKept ==
  ASSUME Control, Calm, [Next]_vars
  PROVE  Calm'
  <1> USE DEF Control, Causes, Threads, Asking, BeforeInput, Served, BeforeDial, Calm,
              LeaveTaken, MainAt, CleanUpFrom, HasAudio, Ended, Suffers, Spend, lws,
              world, sound, queueVars
  <1>1. CASE ClientInit
    BY <1>1 DEF ClientInit
  <1>2. CASE AudioInit
    BY <1>2 DEF AudioInit
  <1>3. CASE OpenOutput
    BY <1>3 DEF OpenOutput
  <1>4. CASE Connect
    BY <1>4 DEF Connect
  <1>5. CASE Dialing
    BY <1>5 DEF Dialing
  <1>6. CASE DialEnds
    BY <1>6 DEF DialEnds, NotCreated
  <1>7. CASE Handshake
    BY <1>7 DEF Handshake, MainSends, MainWaits, Queues, BuildFails
  <1>8. CASE BeginInput
    BY <1>8 DEF BeginInput, OpenInputFails, NotCreated
  <1>9. CASE SendFile
    BY <1>9 DEF SendFile, MainWaits, Queues, BuildFails
  <1>10. CASE WaitForEnd
    BY <1>10 DEF WaitForEnd, MainWaits
  <1>11. CASE Goodbye
    BY <1>11 DEF Goodbye, MainSends, MainWaits, Queues, BuildFails
  <1>12. CASE StopThreads
    BY <1>12 DEF StopThreads
  <1>13. CASE JoinService
    BY <1>13 DEF JoinService
  <1>14. CASE JoinInput
    BY <1>14 DEF JoinInput
  <1>15. CASE StopPlayer
    BY <1>15 DEF StopPlayer
  <1>16. CASE CleanUpAudio
    BY <1>16 DEF CleanUpAudio
  <1>17. CASE DestroyClient
    BY <1>17 DEF DestroyClient
  <1>18. CASE AskForWritable("main")
    BY <1>18 DEF AskForWritable
  <1>19. CASE Writeable
    BY <1>19 DEF Writeable, Serving
  <1>20. CASE Receive
    BY <1>20 DEF Receive, HandsOver, Serving, ReceiveOnly, Handle, HelloDone
  <1>21. CASE ServiceEnds
    BY <1>21 DEF ServiceEnds, Serving
  <1>22. CASE InputWaitsForHello
    BY <1>22 DEF InputWaitsForHello, InputAt, InputGoes
  <1>23. CASE InputLoops
    BY <1>23 DEF InputLoops, InputAt, InputGoes, IfRunning
  <1>24. CASE InputSends
    BY <1>24 DEF InputSends, InputAt, Queues, BuildFails
  <1>25. CASE InputCancelled
    BY <1>25 DEF InputCancelled, InputAt, InputGoes
  <1>26. CASE AskForWritable("input")
    BY <1>26 DEF AskForWritable
  <1>27. CASE PlayerStep
    BY <1>27 DEF PlayerStep
  <1>28. CASE InputReads
    BY <1>28 DEF InputReads, InputAt, InputGoes, IfRunning
  <1>29. CASE WriteFails
    BY <1>29 DEF WriteFails, Serving, LinkLost
  <1>30. CASE ConnectionClosed
    BY <1>30 DEF ConnectionClosed, Serving, LinkLost
  <1>31. CASE PieceLost
    BY <1>31 DEF PieceLost, HandsOver, Serving, ReceiveOnly, Handle, HelloDone
  <1>32. CASE CtrlC
    BY <1>32 DEF CtrlC
  <1>33. CASE LinkStalls
    BY <1>33 DEF LinkStalls, Serving
  <1>34. CASE \E event \in Event : ServerSays(event)
    BY <1>34 DEF ServerSays, Serving
  <1>35. CASE UNCHANGED vars
    BY <1>35 DEF vars
  <1>36. QED
    BY <1>1, <1>2, <1>3, <1>4, <1>5, <1>6, <1>7, <1>8, <1>9, <1>10, <1>11,
       <1>12, <1>13, <1>14, <1>15, <1>16, <1>17, <1>18, <1>19, <1>20, <1>21,
       <1>22, <1>23, <1>24, <1>25, <1>26, <1>27, <1>28, <1>29, <1>30, <1>31,
       <1>32, <1>33, <1>34, <1>35
    DEF Next, MainStep, InputStep, Environment

Farewells == {"finishing", "finish_connection", "last_delay", "stop"}

(* Every step but main's own queueing leads main nowhere near the goodbye, *)
(* unless it is there.                                                     *)
Apart ==
  trouble' = {} =>
    /\ trouble = {}
    /\ main' \in Farewells => main' = main /\ service' = service
    /\ main' \in LeaveTaken /\ service' # "none" =>
         main \in {"stop"} \cup LeaveTaken /\ service # "none"

LEMMA OtherStepsStayApart ==
  ASSUME Control, Calm, [Next]_vars
  PROVE  Apart \/ Goodbye
  <1> USE DEF Control, Causes, Threads, Asking, BeforeInput, Served, BeforeDial, Calm,
              LeaveTaken, Farewells, Apart, MainAt, CleanUpFrom, HasAudio, NoInput, Ended,
              Suffers, Spend, lws, world, sound, queueVars
  <1>1. CASE ClientInit
    BY <1>1 DEF ClientInit
  <1>2. CASE AudioInit
    BY <1>2 DEF AudioInit
  <1>3. CASE OpenOutput
    BY <1>3 DEF OpenOutput
  <1>4. CASE Connect
    BY <1>4 DEF Connect
  <1>5. CASE Dialing
    BY <1>5 DEF Dialing
  <1>6. CASE DialEnds
    BY <1>6 DEF DialEnds, NotCreated
  <1>7. CASE Handshake
    BY <1>7 DEF Handshake, MainSends, MainWaits, Queues, BuildFails
  <1>8. CASE BeginInput
    BY <1>8 DEF BeginInput, OpenInputFails, NotCreated
  <1>9. CASE SendFile
    BY <1>9 DEF SendFile, MainWaits, Queues, BuildFails
  <1>10. CASE WaitForEnd
    BY <1>10 DEF WaitForEnd, MainWaits
  <1>11. CASE StopThreads
    BY <1>11 DEF StopThreads
  <1>12. CASE JoinService
    BY <1>12 DEF JoinService
  <1>13. CASE JoinInput
    BY <1>13 DEF JoinInput
  <1>14. CASE StopPlayer
    BY <1>14 DEF StopPlayer
  <1>15. CASE CleanUpAudio
    BY <1>15 DEF CleanUpAudio
  <1>16. CASE DestroyClient
    BY <1>16 DEF DestroyClient
  <1>17. CASE AskForWritable("main")
    BY <1>17 DEF AskForWritable
  <1>18. CASE Writeable
    BY <1>18 DEF Writeable, Serving
  <1>19. CASE Receive
    BY <1>19 DEF Receive, HandsOver, Serving, ReceiveOnly, Handle, HelloDone
  <1>20. CASE ServiceEnds
    BY <1>20 DEF ServiceEnds, Serving
  <1>21. CASE InputWaitsForHello
    BY <1>21 DEF InputWaitsForHello, InputAt, InputGoes
  <1>22. CASE InputLoops
    BY <1>22 DEF InputLoops, InputAt, InputGoes, IfRunning
  <1>23. CASE InputSends
    BY <1>23 DEF InputSends, InputAt, Queues, BuildFails
  <1>24. CASE InputCancelled
    BY <1>24 DEF InputCancelled, InputAt, InputGoes
  <1>25. CASE AskForWritable("input")
    BY <1>25 DEF AskForWritable
  <1>26. CASE PlayerStep
    BY <1>26 DEF PlayerStep
  <1>27. CASE InputReads
    BY <1>27 DEF InputReads, InputAt, InputGoes, IfRunning
  <1>28. CASE WriteFails
    BY <1>28 DEF WriteFails, Serving, LinkLost
  <1>29. CASE ConnectionClosed
    BY <1>29 DEF ConnectionClosed, Serving, LinkLost
  <1>30. CASE PieceLost
    BY <1>30 DEF PieceLost, HandsOver, Serving, ReceiveOnly, Handle, HelloDone
  <1>31. CASE CtrlC
    BY <1>31 DEF CtrlC
  <1>32. CASE LinkStalls
    BY <1>32 DEF LinkStalls, Serving
  <1>33. CASE \E event \in Event : ServerSays(event)
    BY <1>33 DEF ServerSays, Serving
  <1>34. CASE UNCHANGED vars
    BY <1>34 DEF vars
  <1>35. QED
    BY <1>1, <1>2, <1>3, <1>4, <1>5, <1>6, <1>7, <1>8, <1>9, <1>10, <1>11,
       <1>12, <1>13, <1>14, <1>15, <1>16, <1>17, <1>18, <1>19, <1>20, <1>21,
       <1>22, <1>23, <1>24, <1>25, <1>26, <1>27, <1>28, <1>29, <1>30, <1>31,
       <1>32, <1>33, <1>34
    DEF Next, MainStep, InputStep, Environment

Said(cmd) == \E i \in DOMAIN written : written[i] = cmd
OnItsWay(cmd) == Said(cmd) \/ \E i \in 1..Waiting : Pending[i] = cmd

(* Each farewell that main has left behind was said, or waits to be. *)
Goodbyes ==
  trouble = {} =>
    /\ main \in {"finishing", "finish_connection", "last_delay"} =>
         OnItsWay("FinishSession")
    /\ main = "last_delay" => OnItsWay("FinishConnection")
    /\ main \in {"stop"} \cup LeaveTaken /\ service # "none" =>
         Said("FinishSession") /\ Said("FinishConnection")

(* A command that is on its way stays so until it is written. *)
LEMMA PushKeepsOnItsWay ==
  ASSUME QueueTypeOK, NEW cmd \in Command, Push(cmd), UNCHANGED written
  PROVE  \A c \in Command : (Said(c) => Said(c)') /\ (OnItsWay(c) \/ c = cmd =>
  OnItsWay(c)')
  <1>1. /\ Waiting' = Waiting + 1 /\ Waiting \in Nat /\ Pending \in Seq(Command)
        /\ Len(Pending) = Waiting /\ Pending' = Append(Pending, cmd)
    BY PushAppends, PendingIsSequence, MessagesAssumption
  <1>2. /\ \A i \in 1..Waiting : i \in 1..Waiting' /\ Pending'[i] = Pending[i]
        /\ Waiting + 1 \in 1..Waiting' /\ Pending'[Waiting + 1] = cmd
    BY <1>1
  <1>3. QED
    BY <1>2 DEF OnItsWay, Said

LEMMA PopKeepsOnItsWay ==
  ASSUME QueueTypeOK, written \in Seq(Command), Pop, Goes(send_queue[send_head]),
         NEW c \in Command \ {"Input"}
  PROVE  (Said(c) => Said(c)') /\ (OnItsWay(c) => OnItsWay(c)')
  <1> DEFINE cmd == send_queue[send_head]
  <1>1. /\ Waiting \in Nat /\ Waiting # 0 /\ Pending \in Seq(Command)
        /\ Len(Pending) = Waiting /\ Pending' = Tail(Pending) /\ Waiting' = Waiting - 1
    BY PopTakesFirst, PendingIsSequence
  <1>2. Pending[1] = cmd /\ cmd \in Command
    BY FrontIsCommand DEF Pop
  <1>3. \A i \in 1..Waiting : i # 1 => i - 1 \in 1..Waiting' /\ Pending'[i - 1] = Pending[i]
    BY <1>1
  <1> HIDE DEF cmd
  <1>4. (written' = written /\ cmd = "Input") \/ written' = Append(written, cmd)
    BY DEF Goes, cmd
  <1>5. /\ \A i \in DOMAIN written : i \in DOMAIN written' /\ written'[i] = written[i]
        /\ cmd # "Input" => \E i \in DOMAIN written' : written'[i] = cmd
    <2>1. CASE written' = written /\ cmd = "Input"
      BY <2>1
    <2>2. CASE written' = Append(written, cmd)
      <3>1. /\ Len(written) \in Nat /\ DOMAIN written = 1..Len(written)
            /\ DOMAIN written' = 1..(Len(written) + 1)
            /\ written'[Len(written) + 1] = cmd
            /\ \A i \in DOMAIN written : written'[i] = written[i]
        BY <1>2, <2>2
      <3>2. QED
        BY <3>1
    <2>3. QED
      BY <1>4, <2>1, <2>2
  <1>6. Said(c) => Said(c)'
    BY <1>5 DEF Said
  <1>7. (\E i \in 1..Waiting : Pending[i] = c) =>
          Said(c)' \/ \E i \in 1..Waiting' : Pending'[i] = c
    BY <1>2, <1>3, <1>5 DEF Said
  <1>8. QED
    BY <1>6, <1>7 DEF OnItsWay

(* Every step keeps Goodbyes: main's own by the order of Goodbye, the      *)
(* others because they keep what is on its way.                            *)
LEMMA StepKeepsGoodbyes ==
  ASSUME TypeOK, Control, Calm, Calm', Goodbyes, [Next]_vars
  PROVE  Goodbyes'
  <1> SUFFICES ASSUME trouble' = {} PROVE Goodbyes'
    BY DEF Goodbyes
  <1>types. QueueTypeOK /\ written \in Seq(Command)
    BY DEF TypeOK
  <1>commands. {"StartConnection", "StartSession", "SayHello", "FinishSession",
                "FinishConnection", "Input"} \subseteq Command
    BY DEF Command
  <1> DEFINE Finish == {"FinishSession", "FinishConnection"}
             Kept == \A c \in Finish :
                       (Said(c) => Said(c)') /\ (OnItsWay(c) => OnItsWay(c)')
  <1>still. ASSUME UNCHANGED <<send_queue, send_head, send_tail, written>> PROVE Kept
    BY <1>still DEF Said, OnItsWay, Waiting, Pending
  <1>push. ASSUME NEW cmd \in Command, NEW t, Queues(t, cmd), UNCHANGED written
           PROVE  Kept /\ trouble = {} /\ (cmd \in Finish => OnItsWay(cmd)')
    <2>1. Push(cmd) /\ trouble = {}
      BY <1>push DEF Queues, BuildFails, Suffers
    <2>2. QED
      BY <1>types, <1>commands, <1>push, <2>1, PushKeepsOnItsWay
  <1>pop. ASSUME Pop, Goes(send_queue[send_head]) PROVE Kept
    BY <1>types, <1>commands, <1>pop, PopKeepsOnItsWay
  <1>apart. ASSUME Kept, Apart PROVE Goodbyes'
    BY <1>apart DEF Goodbyes, Apart, Farewells, LeaveTaken
  <1>1. CASE Goodbye
    <2>1. CASE MainSends("finish_session", "FinishSession", "finishing")
      <3>1. main' = "finishing" /\ OnItsWay("FinishSession")'
        BY <1>push, <1>commands, <2>1 DEF MainSends
      <3>2. QED
        BY <3>1 DEF Goodbyes, LeaveTaken
    <2>2. CASE MainWaits("finishing", "finish_connection")
      <3>1. main = "finishing" /\ main' = "finish_connection" /\ Kept /\ trouble = {}
        BY <1>still, <2>2 DEF MainWaits, MainAt, queueVars, world
      <3>2. QED
        BY <3>1 DEF Goodbyes, LeaveTaken
    <2>3. CASE MainSends("finish_connection", "FinishConnection", "last_delay")
      <3>1. /\ main = "finish_connection" /\ main' = "last_delay" /\ Kept /\ trouble = {}
            /\ OnItsWay("FinishConnection")'
        BY <1>push, <1>commands, <2>3 DEF MainSends, MainAt
      <3>2. QED
        BY <3>1 DEF Goodbyes, LeaveTaken
    <2>4. CASE TimePasses /\ MainWaits("last_delay", "stop")
      <3>1. /\ main = "last_delay" /\ main' = "stop" /\ Kept /\ trouble = {}
            /\ written' = written /\ "main" \notin asking
        BY <1>still, <2>4 DEF MainWaits, MainAt, queueVars, world
      <3>2. service = "loop" /\ link = "up"
        BY <3>1 DEF Calm, Served
      <3>3. ~writable /\ asking = {}
        BY <2>4, <3>1, <3>2 DEF TimePasses, ServiceIdle, TypeOK
      <3>4. send_head = send_tail
        BY <3>2, <3>3 DEF Control, CallbackIsDue
      <3>5. Waiting = 0
        BY <1>types, <3>4, WaitingSize, QueueSizeAssumption DEF QueueTypeOK, Slot
      <3>6. Said("FinishSession") /\ Said("FinishConnection")
        BY <3>1, <3>5 DEF Goodbyes, OnItsWay
      <3>7. QED
        BY <3>1, <3>6 DEF Goodbyes, LeaveTaken
    <2>5. QED
      BY <1>1, <2>1, <2>2, <2>3, <2>4 DEF Goodbye
  <1>2. CASE Apart
    <2>1. CASE Quiet
      BY <1>apart, <1>still, <1>2, <2>1 DEF Quiet
    <2>2. CASE Handshake \/ SendFile \/ InputSends
      <3>1. CASE UNCHANGED <<send_queue, send_head, send_tail, written>>
        BY <1>apart, <1>still, <1>2, <3>1
      <3>2. CASE \E t \in {"main", "input"}, cmd \in Command :
                   Queues(t, cmd) /\ UNCHANGED written
        BY <1>apart, <1>push, <1>2, <3>2
      <3>3. QED
        BY <2>2, <3>1, <3>2, <1>commands
        DEF Handshake, SendFile, InputSends, MainSends, MainWaits, queueVars, world
    <2>3. CASE Writeable
      BY <1>apart, <1>still, <1>pop, <1>2, <2>3 DEF Writeable, queueVars
    <2>4. CASE WriteFails
      BY <2>4 DEF WriteFails, LinkLost, Suffers
    <2>5. CASE DestroyClient
      <3>1. /\ main \in LeaveTaken /\ main' \in LeaveTaken /\ written' = written
            /\ service' = service /\ trouble = {}
        BY <2>5 DEF DestroyClient, MainAt, LeaveTaken, world
      <3>2. QED
        BY <3>1 DEF Goodbyes, LeaveTaken, Said
    <2>6. QED
      BY <1>1, <2>1, <2>2, <2>3, <2>4, <2>5, OtherStepsAreQuiet DEF Control
  <1>3. QED
    BY <1>1, <1>2, OtherStepsStayApart

(* A run without Ctrl+C, stall, failure or full queue leaves the server    *)
(* with the session and the connection finished: main does not look        *)
(* whether its last commands were sent, but its delays are long enough for *)
(* the WRITEABLE callback, which is never missing.                         *)
THEOREM UndisturbedRunSaysGoodbye == Spec => []GoodbyeIsSaid
  <1>1. Init => Calm /\ Goodbyes
    BY DEF Init, Calm, Goodbyes, LeaveTaken, Served, BeforeDial
  <1>2. Control /\ Calm /\ [Next]_vars => Calm'
    BY CalmIsKept
  <1>3. TypeOK /\ Control /\ Calm /\ Calm' /\ Goodbyes /\ [Next]_vars => Goodbyes'
    BY StepKeepsGoodbyes
  <1>4. Goodbyes => GoodbyeIsSaid
    BY DEF Goodbyes, GoodbyeIsSaid, LeaveTaken, Said
  <1>5. QED
    BY <1>1, <1>2, <1>3, <1>4, ClientIsTyped, ControlAlways, PTL DEF Spec

=============================================================================
