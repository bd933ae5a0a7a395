------------------------------ MODULE SendQueue ------------------------------
(***************************************************************************)
(* The send queue of doubao_c_version/client.c: a ring of slots between    *)
(* the threads that send and the thread that serves the WebSocket.  Every  *)
(* access is one step, as it runs under send_mutex.                        *)
(***************************************************************************)
EXTENDS Integers, Sequences

CONSTANTS
  QueueSize,   (* CLIENT_SEND_QUEUE_SIZE                                   *)
  Msg,         (* what can be queued                                       *)
  NoMsg        (* the data pointer of a slot that was freed, or never used *)

ASSUME QueueSizeAssumption == QueueSize \in Nat /\ QueueSize >= 2
ASSUME NoMsgAssumption == NoMsg \notin Msg

VARIABLES
  send_queue, send_head, send_tail,
  freed   (* client_destroy has been here                                  *)

queueVars == <<send_queue, send_head, send_tail, freed>>

Slot == 0..(QueueSize - 1)

QueueInit ==
  /\ send_queue = [i \in Slot |-> NoMsg]
  /\ send_head = 0
  /\ send_tail = 0
  /\ freed = FALSE

(* Mutant: the index does not wrap around. *)
AfterWithoutWrap(i) == i + 1

After(i) == (i + 1) % QueueSize

IsEmpty == send_head = send_tail

(* Mutant: every slot is used. *)
IsFullNever == FALSE

IsFull == After(send_tail) = send_head

(* client_send_raw, when there is room and memory for the copy *)
Push(m) ==
  /\ ~IsFull
  /\ send_queue' = [send_queue EXCEPT ![send_tail] = m]
  /\ send_tail' = After(send_tail)
  /\ UNCHANGED <<send_head, freed>>

(* LWS_CALLBACK_CLIENT_WRITEABLE: the message is freed, written or not. *)
Pop ==
  /\ ~IsEmpty
  /\ send_queue' = [send_queue EXCEPT ![send_head] = NoMsg]
  /\ send_head' = After(send_head)
  /\ UNCHANGED <<send_tail, freed>>

(* client_destroy frees what is left, and leaves the pointers. *)
FreeRest ==
  /\ send_head' = send_tail
  /\ freed' = TRUE
  /\ UNCHANGED <<send_queue, send_tail>>

(* Nobody uses the queue after client_destroy: main has joined the threads *)
(* that do (ThreadsHaveTheirResources of CClient).                         *)
QueueNext == ~freed /\ ((\E m \in Msg : Push(m)) \/ Pop \/ FreeRest)

QueueSpec == QueueInit /\ [][QueueNext]_queueVars

-----------------------------------------------------------------------------
(* The messages that wait, oldest first. *)
Waiting == (send_tail - send_head) % QueueSize
Pending == [i \in 1..Waiting |-> send_queue[(send_head + i - 1) % QueueSize]]

QueueTypeOK ==
  /\ send_queue \in [Slot -> Msg \cup {NoMsg}]
  /\ send_head \in Slot
  /\ send_tail \in Slot
  /\ freed \in BOOLEAN
  /\ \A i \in 1..Waiting : send_queue[(send_head + i - 1) % QueueSize] \in Msg

(* The ring keeps the promise of BoundedFifo: one slot is never used, and  *)
(* neither wrapping around nor a full ring loses, repeats or reorders a    *)
(* message.                                                                *)
Fifo == INSTANCE BoundedFifo WITH queue <- Pending, thrown <- freed, Capacity <- QueueSize - 1,
                              Message <- Msg
ImplementsFifo == Fifo!FifoSpec

=============================================================================
