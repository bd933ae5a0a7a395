-------------------------- MODULE AudioUplinkProofs --------------------------
(***************************************************************************)
(* Proofs about AudioUplink, for every size of chunk, result and buffer    *)
(* and any number of results and of interventions of the dialog.  The      *)
(* argument is about three pieces of audio that follow each other: what    *)
(* ws_tx_task has copied (chunk), what capture_rb stores, and what         *)
(* afe_fetch_task is about to store (fetched).  The types come last, for   *)
(* the last byte sent is one of a chunk that is not empty.                 *)
(***************************************************************************)
EXTENDS AudioUplink, TLAPS

Before(s, t) == \A i \in 1..Len(s), j \in 1..Len(t) : s[i] < t[j]

After(s, n) == \A i \in 1..Len(s) : n < s[i]

UpTo(s, n) == \A i \in 1..Len(s) : s[i] <= n

(* The last moment that has been picked up. *)
Said == items * FetchBytes

-----------------------------------------------------------------------------
(* Pieces of audio *)

LEMMA Joined ==
  ASSUME NEW s \in Seq(Nat), NEW t \in Seq(Nat)
  PROVE  /\ s \o t \in Seq(Nat)
         /\ Len(s \o t) = Len(s) + Len(t)
         /\ \A i \in 1..Len(s) : (s \o t)[i] = s[i]
         /\ \A i \in 1..(Len(s) + Len(t)) : i > Len(s) => (s \o t)[i] = t[i - Len(s)]
  OBVIOUS

LEMMA Part ==
  ASSUME NEW s \in Seq(Nat), NEW m \in Nat \ {0}, NEW n \in Nat, n <= Len(s)
  PROVE  /\ SubSeq(s, m, n) \in Seq(Nat)
         /\ Len(SubSeq(s, m, n)) = IF m <= n THEN n - m + 1 ELSE 0
         /\ \A i \in 1..Len(SubSeq(s, m, n)) :
              m + i - 1 \in 1..Len(s) /\ SubSeq(s, m, n)[i] = s[m + i - 1]
  OBVIOUS

LEMMA JoinedInOrder ==
  ASSUME NEW s \in Seq(Nat), NEW t \in Seq(Nat),
         Increasing(s), Increasing(t), Before(s, t)
  PROVE  Increasing(s \o t)
  <1> SUFFICES ASSUME NEW i \in 1..Len(s \o t), NEW j \in 1..Len(s \o t), i < j
               PROVE (s \o t)[i] < (s \o t)[j]
    BY DEF Increasing
  <1>1. CASE j <= Len(s)
    BY <1>1, Joined DEF Increasing
  <1>2. CASE i <= Len(s) /\ j > Len(s)
    <2>1. j - Len(s) \in 1..Len(t)
      BY <1>2, Joined
    <2>2. QED
      BY <1>2, <2>1, Joined DEF Before
  <1>3. CASE i > Len(s)
    <2>1. i - Len(s) \in 1..Len(t) /\ j - Len(s) \in 1..Len(t) /\ i - Len(s) < j - Len(s)
      BY <1>3, Joined
    <2>2. (s \o t)[i] = t[i - Len(s)] /\ (s \o t)[j] = t[j - Len(s)]
      BY <1>3, Joined
    <2>3. \A p, q \in 1..Len(t) : p < q => t[p] < t[q]
      BY DEF Increasing
    <2>4. QED
      BY <2>1, <2>2, <2>3
  <1>4. QED
    BY <1>1, <1>2, <1>3, Joined

(* A bound from below or from above that both pieces keep is kept by them  *)
(* together.                                                               *)
LEMMA JoinedBounds ==
  ASSUME NEW s \in Seq(Nat), NEW t \in Seq(Nat), NEW u \in Seq(Nat), NEW n \in Nat
  PROVE  /\ Before(s, u) /\ Before(t, u) => Before(s \o t, u)
         /\ Before(u, s) /\ Before(u, t) => Before(u, s \o t)
         /\ After(s, n) /\ After(t, n) => After(s \o t, n)
         /\ UpTo(s, n) /\ UpTo(t, n) => UpTo(s \o t, n)
  <1>1. \A i \in 1..Len(s \o t) :
          \/ i \in 1..Len(s) /\ (s \o t)[i] = s[i]
          \/ i - Len(s) \in 1..Len(t) /\ (s \o t)[i] = t[i - Len(s)]
    BY Joined
  <1>2. QED
    BY <1>1 DEF Before, After, UpTo

LEMMA PartInOrder ==
  ASSUME NEW s \in Seq(Nat), NEW m \in Nat \ {0}, NEW n \in Nat, n <= Len(s),
         NEW u \in Seq(Nat), NEW k \in Nat
  PROVE  /\ Increasing(s) => Increasing(SubSeq(s, m, n))
         /\ Before(s, u) => Before(SubSeq(s, m, n), u)
         /\ Before(u, s) => Before(u, SubSeq(s, m, n))
         /\ After(s, k) => After(SubSeq(s, m, n), k)
         /\ UpTo(s, k) => UpTo(SubSeq(s, m, n), k)
  <1> DEFINE p == SubSeq(s, m, n)
  <1>1. Len(p) \in Nat /\ \A i \in 1..Len(p) : m + i - 1 \in 1..Len(s) /\ p[i] = s[m + i - 1]
    BY Part
  <1> HIDE DEF p
  <1>2. ASSUME Increasing(s) PROVE Increasing(p)
    <2> SUFFICES ASSUME NEW i \in 1..Len(p), NEW j \in 1..Len(p), i < j PROVE p[i] < p[j]
      BY DEF Increasing
    <2>1. m + i - 1 \in 1..Len(s) /\ m + j - 1 \in 1..Len(s) /\ m + i - 1 < m + j - 1
      BY <1>1
    <2>2. QED
      BY <1>1, <1>2, <2>1 DEF Increasing
  <1>3. /\ Before(s, u) => Before(p, u)
        /\ Before(u, s) => Before(u, p)
        /\ After(s, k) => After(p, k)
        /\ UpTo(s, k) => UpTo(p, k)
    BY <1>1 DEF Before, After, UpTo
  <1>4. QED
    BY <1>2, <1>3 DEF p

LEMMA HeadBeforeRest ==
  ASSUME NEW s \in Seq(Nat), Increasing(s), NEW m \in Nat, NEW n \in Nat,
         m <= n, n <= Len(s)
  PROVE  Before(SubSeq(s, 1, m), SubSeq(s, n + 1, Len(s)))
  <1>1. \A i \in 1..Len(SubSeq(s, 1, m)) : i \in 1..m /\ SubSeq(s, 1, m)[i] = s[i]
    BY Part
  <1>2. \A j \in 1..Len(SubSeq(s, n + 1, Len(s))) :
          /\ n + j \in 1..Len(s)
          /\ SubSeq(s, n + 1, Len(s))[j] = s[n + j]
    BY Part
  <1> DEFINE p == SubSeq(s, 1, m)
             q == SubSeq(s, n + 1, Len(s))
  <1> SUFFICES ASSUME NEW i \in 1..Len(p), NEW j \in 1..Len(q) PROVE p[i] < q[j]
    BY DEF Before
  <1>3. i \in 1..m /\ p[i] = s[i] /\ n + j \in 1..Len(s) /\ q[j] = s[n + j]
    BY <1>1, <1>2
  <1> HIDE DEF p, q
  <1>4. j \in Nat \ {0}
    BY <1>3
  <1>5. i \in 1..Len(s) /\ i < n + j
    BY <1>3, <1>4
  <1>6. QED
    BY <1>3, <1>5 DEF Increasing

-----------------------------------------------------------------------------
(* The invariant *)

Shape ==
  /\ chunk \in Seq(Nat)
  /\ fetched \in Seq(Nat)
  /\ capture \in [bytes : Seq(Nat), start : 0..(CaptureSize - 1), held : Nat]
  /\ capture.held <= Len(capture.bytes)
  /\ lastSent \in Nat
  /\ items \in Nat

(* A chunk is complete exactly where it is sent. *)
Filled ==
  /\ tx = "send" => Len(chunk) = ChunkBytes
  /\ tx # "send" => Len(chunk) < ChunkBytes

(* The three pieces follow what was sent and each other. *)
Ordered ==
  /\ Increasing(chunk) /\ Increasing(capture.bytes) /\ Increasing(fetched)
  /\ Before(chunk, capture.bytes) /\ Before(chunk, fetched)
  /\ Before(capture.bytes, fetched)
  /\ After(chunk, lastSent) /\ After(capture.bytes, lastSent) /\ After(fetched, lastSent)
  /\ UpTo(chunk, Said) /\ UpTo(capture.bytes, Said) /\ UpTo(fetched, Said)
  /\ lastSent <= Said

IInv == Shape /\ Filled /\ Ordered

LEMMA SaidIsNat == Shape => Said \in Nat
  BY UplinkSizes DEF Shape, Said

(* Handing bytes out, taking them back and storing more (audio_hal.c). *)
LEMMA HandOut ==
  ASSUME Shape
  PROVE  /\ Contiguous(capture, CaptureSize) \in Nat
         /\ Contiguous(capture, CaptureSize) <= Len(capture.bytes)
         /\ Received(capture, CaptureSize).bytes = capture.bytes
         /\ Received(capture, CaptureSize).start = capture.start
         /\ Received(capture, CaptureSize).held = Contiguous(capture, CaptureSize)
         /\ Received(capture, CaptureSize)
              \in [bytes : Seq(Nat), start : 0..(CaptureSize - 1), held : Nat]
  <1> DEFINE n == Contiguous(capture, CaptureSize)
  <1>1. Len(capture.bytes) \in Nat /\ capture.start \in 0..(CaptureSize - 1)
    BY DEF Shape
  <1>2. n \in Nat /\ n <= Len(capture.bytes)
    BY <1>1, UplinkSizes DEF Contiguous
  <1> HIDE DEF n
  <1>3. Received(capture, CaptureSize) = [capture EXCEPT !.held = n]
    BY DEF Received, n
  <1>4. QED
    BY <1>2, <1>3 DEF Shape, n

LEMMA TakeBack ==
  ASSUME NEW rb \in [bytes : Seq(Nat), start : 0..(CaptureSize - 1), held : Nat],
         rb.held <= Len(rb.bytes)
  PROVE  /\ Returned(rb, CaptureSize)
              \in [bytes : Seq(Nat), start : 0..(CaptureSize - 1), held : Nat]
         /\ Returned(rb, CaptureSize).bytes = SubSeq(rb.bytes, rb.held + 1, Len(rb.bytes))
         /\ Returned(rb, CaptureSize).held = 0
  <1>1. SubSeq(rb.bytes, rb.held + 1, Len(rb.bytes)) \in Seq(Nat)
    BY Part
  <1>2. (rb.start + rb.held) % CaptureSize \in 0..(CaptureSize - 1)
    BY UplinkSizes
  <1>3. QED
    BY <1>1, <1>2 DEF Returned

(* Giving bytes back keeps the order of what is left. *)
LEMMA RestIsOrdered ==
  ASSUME Shape, Ordered, NEW n \in Nat, n <= Len(capture.bytes)
  PROVE  LET rest == SubSeq(capture.bytes, n + 1, Len(capture.bytes)) IN
         /\ rest \in Seq(Nat)
         /\ Increasing(rest) /\ Before(chunk, rest) /\ Before(rest, fetched)
         /\ After(rest, lastSent) /\ UpTo(rest, Said)
  BY SaidIsNat, Part, PartInOrder DEF Shape, Ordered

LEMMA InitHolds == Init => IInv
  BY UplinkSizes DEF Init, IInv, Shape, Filled, Ordered, EmptyRing, Increasing, Before,
     After, UpTo, Said

-----------------------------------------------------------------------------
LEMMA DrainKeeps == IInv /\ HandlerDrains => IInv'
  <1> SUFFICES ASSUME IInv, HandlerDrains PROVE IInv'
    OBVIOUS
  <1> DEFINE n == Contiguous(capture, CaptureSize)
             out == Received(capture, CaptureSize)
  <1>1. UNCHANGED <<items, fetched, tx, chunk, lastSent>>
    BY DEF HandlerDrains, Do
  <1>2. CASE capture' = capture
    BY <1>1, <1>2 DEF IInv, Shape, Filled, Ordered, Said
  <1>3. CASE capture' = Returned(out, CaptureSize)
    <2>1. /\ out \in [bytes : Seq(Nat), start : 0..(CaptureSize - 1), held : Nat]
          /\ out.bytes = capture.bytes /\ out.held = n
          /\ n \in Nat /\ n <= Len(capture.bytes)
      BY HandOut DEF IInv
    <2>2. /\ capture' \in [bytes : Seq(Nat), start : 0..(CaptureSize - 1), held : Nat]
          /\ capture'.bytes = SubSeq(capture.bytes, n + 1, Len(capture.bytes))
          /\ capture'.held = 0
      <3> HIDE DEF n, out
      <3>1. QED
        BY <1>3, <2>1, TakeBack
    <2> HIDE DEF n, out
    <2>3. Ordered'
      BY <1>1, <2>1, <2>2, RestIsOrdered DEF IInv, Ordered, Said
    <2>4. Shape' /\ Filled'
      <3>1. capture'.bytes \in Seq(Nat)
        BY <2>1, <2>2, RestIsOrdered DEF IInv
      <3>2. capture'.held <= Len(capture'.bytes)
        BY <2>2, <3>1
      <3>3. QED
        BY <1>1, <2>2, <3>1, <3>2 DEF IInv, Shape, Filled
    <2>5. QED
      BY <2>3, <2>4 DEF IInv
  <1>4. QED
    BY <1>2, <1>3 DEF HandlerDrains

LEMMA FetchKeeps == IInv /\ Fetch => IInv'
  <1> SUFFICES ASSUME IInv, Fetch PROVE IInv'
    OBVIOUS
  <1> DEFINE result == [i \in 1..FetchBytes |-> items * FetchBytes + i]
  <1>1. Said' = Said + FetchBytes /\ Said \in Nat /\ items' \in Nat
    BY UplinkSizes DEF Fetch, IInv, Shape, Said
  <1>2. UNCHANGED <<capture, tx, chunk, lastSent>>
    BY DEF Fetch
  <1>3. /\ result \in Seq(Nat) /\ Len(result) = FetchBytes
        /\ \A i \in 1..FetchBytes : result[i] = Said + i
    BY <1>1, UplinkSizes DEF Said
  <1>4. fetched' \in Seq(Nat) /\ (fetched' = <<>> \/ fetched' = result)
    BY <1>3 DEF Fetch
  <1> HIDE DEF result
  <1>5. /\ Increasing(fetched') /\ Before(chunk, fetched') /\ Before(capture.bytes, fetched')
        /\ After(fetched', lastSent) /\ UpTo(fetched', Said + FetchBytes)
    <2>1. CASE fetched' = <<>>
      BY <2>1 DEF Increasing, Before, After, UpTo
    <2>2. CASE fetched' = result
      <3>1. \A i \in 1..Len(fetched') : i \in Nat /\ fetched'[i] = Said + i /\ i <= FetchBytes
        BY <1>3, <2>2, UplinkSizes
      <3>2. Increasing(fetched')
        BY <1>1, <3>1 DEF Increasing
      <3>3. After(fetched', lastSent) /\ UpTo(fetched', Said + FetchBytes)
        BY <1>1, <3>1, UplinkSizes DEF IInv, Shape, Ordered, After, UpTo
      <3>4. /\ \A i \in 1..Len(chunk) : chunk[i] \in Nat /\ chunk[i] <= Said
            /\ \A i \in 1..Len(capture.bytes) :
                 capture.bytes[i] \in Nat /\ capture.bytes[i] <= Said
        BY DEF IInv, Shape, Ordered, UpTo
      <3>5. Before(chunk, fetched') /\ Before(capture.bytes, fetched')
        <4>1. \A n \in Nat, j \in 1..Len(fetched') : n <= Said => n < fetched'[j]
          BY <1>1, <3>1
        <4>2. QED
          BY <3>4, <4>1 DEF Before
      <3>6. QED
        BY <3>2, <3>3, <3>4, <3>5
    <2>3. QED
      BY <1>4, <2>1, <2>2
  <1>6. UpTo(chunk, Said + FetchBytes) /\ UpTo(capture.bytes, Said + FetchBytes)
        /\ lastSent <= Said + FetchBytes
    BY <1>1, UplinkSizes DEF IInv, Shape, Ordered, UpTo
  <1>7. QED
    BY <1>1, <1>2, <1>4, <1>5, <1>6 DEF IInv, Shape, Filled, Ordered

LEMMA StoreKeeps == IInv /\ StoreFetched => IInv'
  <1> SUFFICES ASSUME IInv, StoreFetched PROVE IInv'
    OBVIOUS
  <1>1. UNCHANGED <<items, tx, chunk, lastSent>> /\ fetched' = <<>>
    BY DEF StoreFetched
  <1>2. Said' = Said /\ Said \in Nat
    BY <1>1, SaidIsNat DEF IInv, Said
  <1>3. /\ Increasing(fetched') /\ Before(chunk, fetched') /\ Before(capture'.bytes, fetched')
        /\ After(fetched', lastSent) /\ UpTo(fetched', Said)
    BY <1>1 DEF Increasing, Before, After, UpTo
  <1>4. CASE capture' = capture
    BY <1>1, <1>2, <1>3, <1>4 DEF IInv, Shape, Filled, Ordered
  <1>5. CASE capture' = Sent(capture, fetched)
    <2> DEFINE all == capture.bytes \o fetched
    <2>1. capture'.bytes = all /\ capture'.start = capture.start
          /\ capture'.held = capture.held
      BY <1>5 DEF Sent, IInv, Shape
    <2>2. all \in Seq(Nat) /\ Len(all) >= Len(capture.bytes)
      BY Joined DEF IInv, Shape
    <2>3. Increasing(all)
      BY JoinedInOrder DEF IInv, Shape, Ordered
    <2>4. Before(chunk, all) /\ After(all, lastSent) /\ UpTo(all, Said)
      BY <1>2, JoinedBounds DEF IInv, Shape, Ordered
    <2>5. capture' \in [bytes : Seq(Nat), start : 0..(CaptureSize - 1), held : Nat]
      BY <1>5, <2>2 DEF Sent, IInv, Shape
    <2> HIDE DEF all
    <2>6. Shape' /\ Filled'
      BY <1>1, <2>1, <2>2, <2>5 DEF IInv, Shape, Filled
    <2>7. Ordered'
      BY <1>1, <1>2, <1>3, <2>1, <2>3, <2>4 DEF IInv, Ordered
    <2>8. QED
      BY <2>6, <2>7 DEF IInv
  <1>6. QED
    BY <1>4, <1>5 DEF StoreFetched

(* The only step that makes the chunk longer. *)
LEMMA CopyKeeps == IInv /\ TxCopy => IInv'
  <1> SUFFICES ASSUME IInv, TxCopy PROVE IInv'
    OBVIOUS
  <1> DEFINE part == SubSeq(capture.bytes, 1, ToCopy)
             rest == SubSeq(capture.bytes, capture.held + 1, Len(capture.bytes))
  <1>1. /\ UNCHANGED <<items, fetched, lastSent>> /\ chunk' = chunk \o part
        /\ tx = "copy" /\ tx' = IF Len(chunk') >= ChunkBytes THEN "send" ELSE "loop"
    BY DEF TxCopy, TxOnly
  <1>2. ToCopy \in Nat /\ ToCopy <= capture.held /\ Len(chunk) + ToCopy <= ChunkBytes
    BY <1>1, UplinkSizes DEF IInv, Shape, Filled, ToCopy
  <1>3. /\ capture' \in [bytes : Seq(Nat), start : 0..(CaptureSize - 1), held : Nat]
        /\ capture'.bytes = rest /\ capture'.held = 0
    BY TakeBack DEF TxCopy, IInv, Shape
  <1>4. /\ rest \in Seq(Nat) /\ Increasing(rest) /\ Before(chunk, rest)
        /\ Before(rest, fetched) /\ After(rest, lastSent) /\ UpTo(rest, Said)
    BY RestIsOrdered DEF IInv, Shape
  <1>5. part \in Seq(Nat) /\ Len(part) = ToCopy
    BY <1>2, Part DEF IInv, Shape
  <1>6. /\ Increasing(part) /\ Before(chunk, part) /\ Before(part, fetched)
        /\ After(part, lastSent) /\ UpTo(part, Said)
    <2>1. ToCopy <= Len(capture.bytes) /\ 1 \in Nat \ {0} /\ Said \in Nat
      BY <1>2, SaidIsNat DEF IInv, Shape
    <2> DEFINE s == capture.bytes
    <2>2. s \in Seq(Nat) /\ chunk \in Seq(Nat) /\ fetched \in Seq(Nat) /\ lastSent \in Nat
      BY DEF IInv, Shape
    <2> HIDE DEF s
    <2>3. /\ Increasing(s) => Increasing(SubSeq(s, 1, ToCopy))
          /\ Before(chunk, s) => Before(chunk, SubSeq(s, 1, ToCopy))
          /\ Before(s, fetched) => Before(SubSeq(s, 1, ToCopy), fetched)
          /\ After(s, lastSent) => After(SubSeq(s, 1, ToCopy), lastSent)
          /\ UpTo(s, Said) => UpTo(SubSeq(s, 1, ToCopy), Said)
      BY <1>2, <2>1, <2>2, PartInOrder DEF s
    <2>4. QED
      BY <2>3 DEF s, IInv, Ordered
  <1>7. Before(part, rest)
    BY <1>2, HeadBeforeRest DEF IInv, Shape, Ordered
  <1> HIDE DEF part, rest
  <1>8. chunk \in Seq(Nat) /\ fetched \in Seq(Nat) /\ lastSent \in Nat /\ Said \in Nat
    BY SaidIsNat DEF IInv, Shape
  <1>9. chunk' \in Seq(Nat) /\ Len(chunk') = Len(chunk) + ToCopy
    BY <1>1, <1>5, <1>8, Joined
  <1>10. Increasing(chunk')
    BY <1>1, <1>5, <1>6, <1>8, JoinedInOrder DEF IInv, Ordered
  <1>11. /\ Before(chunk', rest) /\ Before(chunk', fetched)
         /\ After(chunk', lastSent) /\ UpTo(chunk', Said)
    BY <1>1, <1>4, <1>5, <1>6, <1>7, <1>8, JoinedBounds DEF IInv, Ordered
  <1>12. Filled'
    BY <1>1, <1>2, <1>8, <1>9, UplinkSizes DEF Filled
  <1>13. Shape'
    BY <1>1, <1>3, <1>4, <1>9 DEF IInv, Shape
  <1>14. Ordered'
    BY <1>1, <1>3, <1>4, <1>10, <1>11 DEF IInv, Ordered, Said
  <1>15. QED
    BY <1>12, <1>13, <1>14 DEF IInv

LEMMA SendKeeps == IInv /\ TxSend => IInv'
  <1> SUFFICES ASSUME IInv, TxSend PROVE IInv'
    OBVIOUS
  <1>1. UNCHANGED <<items, fetched, capture>> /\ chunk' = <<>> /\ tx' = "loop"
    BY DEF TxSend, TxOnly
  <1>2. Increasing(chunk') /\ Before(chunk', capture.bytes) /\ Before(chunk', fetched)
        /\ After(chunk', lastSent') /\ UpTo(chunk', Said)
    BY <1>1 DEF Increasing, Before, After, UpTo
  <1>3. Len(chunk) \in 1..Len(chunk) /\ chunk[Len(chunk)] \in Nat
    BY UplinkSizes DEF TxSend, IInv, Shape, Filled
  <1>4. lastSent' = lastSent \/ lastSent' = chunk[Len(chunk)]
    BY DEF TxSend
  <1>5. /\ lastSent' \in Nat /\ After(capture.bytes, lastSent') /\ After(fetched, lastSent')
        /\ lastSent' <= Said
    BY <1>3, <1>4 DEF IInv, Shape, Ordered, Before, After, UpTo
  <1>6. Filled' /\ Shape'
    BY <1>1, <1>5, UplinkSizes DEF IInv, Shape, Filled
  <1>7. QED
    BY <1>1, <1>2, <1>5, <1>6 DEF IInv, Ordered, Said

LEMMA ReceiveKeeps == IInv /\ TxReceive => IInv'
  <1> SUFFICES ASSUME IInv, TxReceive PROVE IInv'
    OBVIOUS
  <1>1. UNCHANGED <<items, fetched, chunk, lastSent>> /\ tx = "receive" /\ tx' # "send"
    BY DEF TxReceive, TxOnly
  <1>2. capture' \in [bytes : Seq(Nat), start : 0..(CaptureSize - 1), held : Nat]
        /\ capture'.bytes = capture.bytes /\ capture'.held <= Len(capture.bytes)
    BY HandOut DEF TxReceive, IInv
  <1>3. QED
    BY <1>1, <1>2 DEF IInv, Shape, Filled, Ordered, Said

LEMMA LoopKeeps == IInv /\ TxLoop => IInv'
  <1> SUFFICES ASSUME IInv, TxLoop PROVE IInv'
    OBVIOUS
  <1>1. UNCHANGED <<items, fetched, capture, lastSent>> /\ tx = "loop" /\ tx' # "send"
    BY DEF TxLoop, TxOnly
  <1>2. CASE UNCHANGED chunk
    BY <1>1, <1>2 DEF IInv, Shape, Filled, Ordered, Said
  <1>3. CASE chunk' = <<>>
    BY <1>1, <1>3, UplinkSizes
    DEF IInv, Shape, Filled, Ordered, Said, Increasing, Before, After, UpTo
  <1>4. QED
    BY <1>2, <1>3 DEF TxLoop

LEMMA StepKeeps == IInv /\ [Next]_vars => IInv'
  <1> SUFFICES ASSUME IInv, [Next]_vars PROVE IInv'
    OBVIOUS
  <1>1. CASE UNCHANGED <<items, fetched, capture, tx, chunk, lastSent>>
    BY <1>1 DEF IInv, Shape, Filled, Ordered, Said
  <1>2. CASE Dialog
    BY <1>1, <1>2, DrainKeeps DEF Dialog, HandlerEnters, HandlerSwitches,
       HandlerElsewhere, Do
  <1>3. CASE Fetch \/ StoreFetched
    BY <1>3, FetchKeeps, StoreKeeps
  <1>4. CASE Tx
    BY <1>4, LoopKeeps, ReceiveKeeps, CopyKeeps, SendKeeps DEF Tx
  <1>5. CASE HandlerStarts \/ LinkChanges \/ UNCHANGED vars
    BY <1>1, <1>5 DEF HandlerStarts, LinkChanges, vars
  <1>6. QED
    BY <1>2, <1>3, <1>4, <1>5 DEF Next

LEMMA AlwaysOrdered == Spec => []IInv
  <1>1. QED
    BY InitHolds, StepKeeps, PTL DEF Spec

-----------------------------------------------------------------------------
(* The memcpy into pcm_chunk stays inside its chunk_bytes, and only a full *)
(* chunk is sent, for every size of result, buffer and chunk               *)
(* (ws_tx_task).                                                           *)
THEOREM ChunkFits == Spec => []ChunkNeverOverflows
  <1>1. IInv => ChunkNeverOverflows
    BY UplinkSizes DEF IInv, Shape, Filled, ChunkNeverOverflows
  <1>2. QED
    BY <1>1, AlwaysOrdered, PTL

(* Audio reaches the server in the order it was picked up and no part of   *)
(* it twice, whatever the dialog drains, switches and refuses meanwhile.   *)
THEOREM SpeechStaysInOrder == Spec => []SpokenOrder
  <1>1. IInv => SpokenOrder
    BY DEF IInv, Shape, Ordered, SpokenOrder, Before, After
  <1>2. QED
    BY <1>1, AlwaysOrdered, PTL

-----------------------------------------------------------------------------
(* Types *)

(* The states this part of the dialog is in; its handlers enter no other.  *)
Talking == {"CONNECTED_IDLE", "HANDSHAKING", "LISTENING", "SPEAKING"}

TalkOp == {op \in Op : op.op = "enter" => op.state \in Talking}

Types == TypeOK /\ app \in Talking /\ script \in Seq(TalkOp)

LEMMA HandlersTalk == app \in Talking => Handlers \subseteq Seq(TalkOp)
  <1> USE DEF TalkOp, Op, Raise, Drop, Enter, Clear, Send, Delay, Flag, AppState, Buffer,
              Command, Talking
  <1>1. /\ StartListening \in Seq(TalkOp)
        /\ OnUserQueryEnd \in Seq(TalkOp)
        /\ OnClearCache \in Seq(TalkOp)
    BY DEF StartListening, OnUserQueryEnd, OnClearCache
  <1>2. /\ ButtonEnds \in Seq(TalkOp)
        /\ OnFatalError \in Seq(TalkOp)
        /\ BargeIn \in Seq(TalkOp)
    BY DEF ButtonEnds, OnFatalError, BargeIn
  <1>3. /\ OnTurnEnded \in Seq(TalkOp)
        /\ OnSessionFinished \in Seq(TalkOp)
    BY DEF OnTurnEnded, ClearForTurn, OnSessionFinished
  <1> HIDE DEF TalkOp
  <1>4. QED
    BY <1>1, <1>2, <1>3 DEF Handlers

LEMMA HeadAndTail ==
  ASSUME NEW S, NEW s \in Seq(S), s # <<>>
  PROVE  Head(s) \in S /\ Tail(s) \in Seq(S)
  OBVIOUS

(* The ring buffer, whatever its bytes are. *)
LEMMA RingHandsOut ==
  ASSUME NEW S, NEW size \in Nat \ {0}, NEW rb \in Ring(S, size), InBounds(rb, size)
  PROVE  /\ Contiguous(rb, size) \in 0..Len(rb.bytes)
         /\ Received(rb, size) \in Ring(S, size) /\ InBounds(Received(rb, size), size)
         /\ Received(rb, size).held = Contiguous(rb, size)
  <1> DEFINE n == Contiguous(rb, size)
  <1>1. /\ rb.bytes \in Seq(S) /\ Len(rb.bytes) \in Nat /\ rb.start \in 0..(size - 1)
        /\ rb.held \in Nat /\ Len(rb.bytes) <= size
    BY DEF Ring, InBounds
  <1>2. n \in 0..Len(rb.bytes)
    BY <1>1 DEF Contiguous
  <1> HIDE DEF n
  <1>3. Received(rb, size) = [rb EXCEPT !.held = n]
    BY DEF Received, n
  <1>4. /\ Received(rb, size) \in Ring(S, size) /\ Received(rb, size).held = n
        /\ Received(rb, size).bytes = rb.bytes
    BY <1>1, <1>2, <1>3 DEF Ring
  <1>5. QED
    BY <1>1, <1>2, <1>4 DEF InBounds, n

LEMMA RingTakesBack ==
  ASSUME NEW S, NEW size \in Nat \ {0}, NEW rb \in Ring(S, size), InBounds(rb, size)
  PROVE  /\ Returned(rb, size) \in Ring(S, size) /\ InBounds(Returned(rb, size), size)
         /\ Returned(rb, size).held = 0
  <1>1. /\ rb.bytes \in Seq(S) /\ Len(rb.bytes) \in Nat /\ rb.start \in 0..(size - 1)
        /\ rb.held \in Nat /\ rb.held <= Len(rb.bytes) /\ Len(rb.bytes) <= size
    BY DEF Ring, InBounds
  <1> DEFINE rest == SubSeq(rb.bytes, rb.held + 1, Len(rb.bytes))
  <1>2. rest \in Seq(S) /\ Len(rest) \in Nat /\ Len(rest) <= size
    BY <1>1
  <1>3. (rb.start + rb.held) % size \in 0..(size - 1)
    BY <1>1
  <1> HIDE DEF rest
  <1>4. Returned(rb, size)
          = [bytes |-> rest, start |-> (rb.start + rb.held) % size, held |-> 0]
    BY DEF Returned, rest
  <1>5. /\ Returned(rb, size) \in Ring(S, size)
        /\ Returned(rb, size).bytes = rest /\ Returned(rb, size).held = 0
    BY <1>2, <1>3, <1>4 DEF Ring
  <1>6. QED
    BY <1>2, <1>5 DEF InBounds

LEMMA RingStores ==
  ASSUME NEW S, NEW size \in Nat \ {0}, NEW rb \in Ring(S, size), InBounds(rb, size),
         NEW data \in Seq(S), Fits(rb, data, size)
  PROVE  /\ Sent(rb, data) \in Ring(S, size) /\ InBounds(Sent(rb, data), size)
         /\ Sent(rb, data).held = rb.held
  <1>1. /\ rb.bytes \in Seq(S) /\ Len(rb.bytes) \in Nat
        /\ rb.held \in Nat /\ rb.held <= Len(rb.bytes) /\ Len(rb.bytes) <= size
    BY DEF Ring, InBounds
  <1> DEFINE all == rb.bytes \o data
  <1>2. all \in Seq(S) /\ Len(all) = Len(rb.bytes) + Len(data) /\ Len(data) \in Nat
    BY <1>1
  <1> HIDE DEF all
  <1>3. Sent(rb, data) = [rb EXCEPT !.bytes = all]
    BY DEF Sent, all
  <1>4. Sent(rb, data) \in Ring(S, size) /\ Sent(rb, data).bytes = all
        /\ Sent(rb, data).held = rb.held
    BY <1>1, <1>2, <1>3 DEF Ring
  <1>5. QED
    BY <1>1, <1>2, <1>4 DEF InBounds, Fits

LEMMA MomentsAreNat == Moment \subseteq Nat
  BY DEF Moment

(* The n-th result of the front end is within the moments.                 *)
LEMMA ResultOfMoments ==
  ASSUME NEW n \in 0..(MaxItems - 1)
  PROVE  [i \in 1..FetchBytes |-> n * FetchBytes + i] \in Seq(Moment)
  <1>1. \A a, b, c \in Nat : a <= b => a * c <= b * c
    BY SMT
  <1>2. n \in Nat /\ n + 1 \in Nat /\ n + 1 <= MaxItems /\ FetchBytes \in Nat /\ MaxItems \in Nat
    BY UplinkSizes, UplinkBounds
  <1>3. (n + 1) * FetchBytes <= MaxItems * FetchBytes
    BY <1>1, <1>2
  <1>4. (n + 1) * FetchBytes = n * FetchBytes + FetchBytes /\ n * FetchBytes \in Nat
        /\ MaxItems * FetchBytes \in Nat
    BY <1>2
  <1>5. \A i \in 1..FetchBytes : n * FetchBytes + i \in Moment
    <2> DEFINE low == n * FetchBytes
               top == MaxItems * FetchBytes
    <2>1. low \in Nat /\ top \in Nat /\ low + FetchBytes <= top
      BY <1>3, <1>4
    <2> HIDE DEF low, top
    <2>2. \A i \in 1..FetchBytes : low + i \in 1..top
      BY <1>2, <2>1
    <2>3. QED
      BY <2>2 DEF low, top, Moment
  <1> DEFINE f == [i \in 1..FetchBytes |-> n * FetchBytes + i]
  <1>6. f \in [1..FetchBytes -> Moment]
    BY <1>5
  <1> HIDE DEF f
  <1>7. f \in Seq(Moment)
    BY <1>2, <1>6
  <1>8. QED
    BY <1>7 DEF f

LEMMA InitTypes == Init => Types
  <1> SUFFICES ASSUME Init PROVE Types
    OBVIOUS
  <1>1. EmptyRing \in Ring(Moment, CaptureSize) /\ InBounds(EmptyRing, CaptureSize)
        /\ EmptyRing.held = 0
    BY UplinkSizes DEF EmptyRing, Ring, InBounds
  <1>2. QED
    BY <1>1, UplinkSizes, UplinkBounds DEF Init, Types, TypeOK, Talking, AppState

(* What the dialog does leaves the copy that is under way alone. *)
LEMMA DialogTypes == Types /\ Dialog => Types'
  <1> SUFFICES ASSUME Types, Dialog PROVE Types'
    OBVIOUS
  <1>1. /\ script # <<>> /\ Head(script) \in TalkOp /\ Tail(script) \in Seq(TalkOp)
        /\ script' \in {script, Tail(script)}
        /\ UNCHANGED <<items, fetched, tx, chunk, lastSent, outside>>
        /\ expected' \in Nat
    <2>1. /\ script # <<>> /\ script' \in {script, Tail(script)}
          /\ UNCHANGED <<items, fetched, tx, chunk, lastSent, outside>>
          /\ expected' \in {expected, 0}
      BY DEF Dialog, HandlerEnters, HandlerSwitches, HandlerDrains, HandlerElsewhere, Do
    <2>2. QED
      BY <2>1, HeadAndTail DEF Types, TypeOK
  <1>2. script' \in Seq(TalkOp) /\ script' \in Seq(Op)
    <2>1. TalkOp \subseteq Op
      BY DEF TalkOp
    <2>2. script' \in Seq(TalkOp)
      BY <1>1 DEF Types
    <2>3. QED
      BY <2>1, <2>2
  <1>3. app' \in Talking /\ app' \in AppState
    <2>1. HandlerEnters => Head(script).state \in Talking
      BY <1>1 DEF HandlerEnters, Do, TalkOp
    <2>2. app' \in Talking
      BY <2>1 DEF Dialog, HandlerEnters, HandlerSwitches, HandlerDrains,
                  HandlerElsewhere, Types
    <2>3. QED
      BY <2>2 DEF Talking, AppState
  <1>4. on' \subseteq {"running", "streaming", "connected"}
    <2>1. HandlerSwitches => Head(script).flag \in {"running", "streaming"}
      BY DEF HandlerSwitches, Do, OnUplink
    <2>2. QED
      BY <2>1 DEF Dialog, HandlerEnters, HandlerSwitches, HandlerDrains,
                  HandlerElsewhere, Types, TypeOK
  <1>5. /\ capture' \in Ring(Moment, CaptureSize) /\ InBounds(capture', CaptureSize)
        /\ tx' = "copy" <=> capture'.held # 0
    <2>1. CASE UNCHANGED capture
      BY <1>1, <2>1 DEF Types, TypeOK
    <2>2. CASE /\ Contiguous(capture, CaptureSize) > 0
               /\ capture' = Returned(Received(capture, CaptureSize), CaptureSize)
      <3>1. /\ Received(capture, CaptureSize) \in Ring(Moment, CaptureSize)
            /\ InBounds(Received(capture, CaptureSize), CaptureSize)
        BY RingHandsOut, UplinkSizes DEF Types, TypeOK
      <3>2. /\ capture' \in Ring(Moment, CaptureSize) /\ InBounds(capture', CaptureSize)
            /\ capture'.held = 0
        BY <2>2, <3>1, RingTakesBack, UplinkSizes
      <3>3. capture.held = 0
        BY <2>2 DEF Contiguous
      <3>4. QED
        BY <1>1, <3>2, <3>3 DEF Types, TypeOK
    <2>3. QED
      BY <2>1, <2>2 DEF Dialog, HandlerEnters, HandlerSwitches, HandlerDrains,
                        HandlerElsewhere
  <1>6. QED
    BY <1>1, <1>2, <1>3, <1>4, <1>5 DEF Types, TypeOK

LEMMA MicrophoneTypes == Types /\ (Fetch \/ StoreFetched) => Types'
  <1>1. ASSUME Types, Fetch PROVE Types'
    <2>1. items \in 0..(MaxItems - 1) /\ items + 1 \in 0..MaxItems
      BY <1>1, UplinkBounds DEF Fetch, Types, TypeOK
    <2>2. fetched' \in Seq(Moment)
      BY <1>1, <2>1, ResultOfMoments DEF Fetch
    <2>3. expected' \in Nat
      BY <1>1 DEF Fetch, Types, TypeOK
    <2>4. QED
      BY <1>1, <2>1, <2>2, <2>3 DEF Fetch, Types, TypeOK
  <1>2. ASSUME Types, StoreFetched PROVE Types'
    <2>1. /\ capture' \in Ring(Moment, CaptureSize) /\ InBounds(capture', CaptureSize)
          /\ capture'.held = capture.held
      BY <1>2, RingStores, UplinkSizes DEF StoreFetched, Types, TypeOK
    <2>2. fetched' \in Seq(Moment) /\ expected' \in Nat
      BY <1>2 DEF StoreFetched, Types, TypeOK
    <2>3. QED
      BY <1>2, <2>1, <2>2 DEF StoreFetched, Types, TypeOK
  <1>3. QED
    BY <1>1, <1>2

LEMMA TxTypes == Types /\ IInv /\ Tx => Types'
  <1> SUFFICES ASSUME Types, IInv, Tx PROVE Types'
    OBVIOUS
  <1>1. UNCHANGED <<app, on, script, items, fetched, outside>>
    BY DEF Tx, TxLoop, TxReceive, TxCopy, TxSend, TxOnly
  <1>2. CASE TxLoop
    <2>1. UNCHANGED <<capture, lastSent, expected>> /\ tx = "loop"
          /\ tx' \in {"loop", "ended", "receive"} /\ chunk' \in {chunk, <<>>}
      BY <1>2 DEF TxLoop
    <2>2. chunk \in Seq(Moment) /\ <<>> \in Seq(Moment)
      BY DEF Types, TypeOK
    <2>3. chunk' \in Seq(Moment)
      BY <2>1, <2>2
    <2>4. QED
      BY <1>1, <2>1, <2>3 DEF Types, TypeOK
  <1>3. CASE TxReceive
    <2>1. /\ capture' \in Ring(Moment, CaptureSize) /\ InBounds(capture', CaptureSize)
          /\ capture'.held = Contiguous(capture, CaptureSize)
          /\ Contiguous(capture, CaptureSize) \in Nat
      BY <1>3, RingHandsOut, UplinkSizes DEF TxReceive, Types, TypeOK, Ring
    <2>2. UNCHANGED <<chunk, lastSent, expected>>
          /\ tx' = IF Contiguous(capture, CaptureSize) > 0 THEN "copy" ELSE "loop"
      BY <1>3 DEF TxReceive
    <2>3. QED
      BY <1>1, <2>1, <2>2 DEF Types, TypeOK
  <1>4. CASE TxCopy
    <2>1. /\ capture' \in Ring(Moment, CaptureSize) /\ InBounds(capture', CaptureSize)
          /\ capture'.held = 0
      BY <1>4, RingTakesBack, UplinkSizes DEF TxCopy, Types, TypeOK
    <2>2. /\ UNCHANGED <<lastSent, expected>> /\ tx' \in {"send", "loop"}
          /\ chunk' = chunk \o SubSeq(capture.bytes, 1, ToCopy)
      BY <1>4 DEF TxCopy
    <2>3. ToCopy \in Nat /\ ToCopy <= Len(capture.bytes)
      BY <1>4, UplinkSizes DEF TxCopy, ToCopy, IInv, Shape, Filled
    <2>4. capture.bytes \in Seq(Moment) /\ chunk \in Seq(Moment)
      BY DEF Types, TypeOK, Ring
    <2>5. SubSeq(capture.bytes, 1, ToCopy) \in Seq(Moment)
      BY <2>3, <2>4
    <2>6. chunk' \in Seq(Moment)
      BY <2>2, <2>4, <2>5
    <2>7. QED
      BY <1>1, <2>1, <2>2, <2>6 DEF Types, TypeOK
  <1>5. CASE TxSend
    <2>1. Len(chunk) \in 1..Len(chunk) /\ chunk \in Seq(Moment)
      BY <1>5, UplinkSizes DEF TxSend, IInv, Shape, Filled, Types, TypeOK
    <2>2. chunk[Len(chunk)] \in Moment
      BY <2>1
    <2>3. lastSent' \in Moment \cup {0}
      BY <1>5, <2>2 DEF TxSend, Types, TypeOK
    <2>4. lastSent' \in Nat
      BY <2>3, MomentsAreNat
    <2>5. expected' \in Nat
      BY <1>5, <2>4 DEF TxSend
    <2>6. UNCHANGED capture /\ tx = "send" /\ tx' = "loop" /\ chunk' = <<>>
      BY <1>5 DEF TxSend
    <2>7. QED
      BY <1>1, <2>3, <2>5, <2>6 DEF Types, TypeOK
  <1>6. QED
    BY <1>2, <1>3, <1>4, <1>5 DEF Tx

LEMMA TypesKept == Types /\ IInv /\ [Next]_vars => Types'
  <1> SUFFICES ASSUME Types, IInv, [Next]_vars PROVE Types'
    OBVIOUS
  <1>1. CASE HandlerStarts
    <2>1. script' \in Seq(TalkOp) /\ script' \in Seq(Op)
      <3>1. TalkOp \subseteq Op
        BY DEF TalkOp
      <3>2. script' \in Seq(TalkOp)
        BY <1>1, HandlersTalk DEF HandlerStarts, Types
      <3>3. QED
        BY <3>1, <3>2
    <2>2. outside' \in 0..MaxOutside
      BY <1>1, UplinkBounds DEF HandlerStarts, Types, TypeOK
    <2>3. QED
      BY <1>1, <2>1, <2>2 DEF HandlerStarts, Types, TypeOK
  <1>2. CASE LinkChanges
    <2>1. outside' \in 0..MaxOutside
      BY <1>2, UplinkBounds DEF LinkChanges, Types, TypeOK
    <2>2. on' \subseteq {"running", "streaming", "connected"}
      BY <1>2 DEF LinkChanges, Types, TypeOK
    <2>3. QED
      BY <1>2, <2>1, <2>2 DEF LinkChanges, Types, TypeOK
  <1>3. CASE UNCHANGED vars
    BY <1>3 DEF vars, Types, TypeOK
  <1>4. QED
    BY <1>1, <1>2, <1>3, DialogTypes, MicrophoneTypes, TxTypes DEF Next

(* Capture, chunk and result keep their types, capture_rb its bounds, and  *)
(* an item of it is out exactly while ws_tx_task copies it, however many   *)
(* handlers drain the buffer meanwhile: drain_ringbuf never takes the item *)
(* from under the memcpy.                                                  *)
THEOREM TypeCorrect == Spec => []TypeOK
  <1>1. Types => TypeOK
    BY DEF Types
  <1>2. QED
    BY <1>1, InitHolds, InitTypes, StepKeeps, TypesKept, PTL DEF Spec

=============================================================================
