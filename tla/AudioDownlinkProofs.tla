-------------------------- MODULE AudioDownlinkProofs -------------------------
(***************************************************************************)
(* Proofs about AudioDownlink, for every number of replies and of pages,   *)
(* every size of the buffers and every bound on what is in flight and on   *)
(* what happens from outside.  The types come first, those of the ring     *)
(* buffers among them.  Then the order: the fragments in ogg_sync and in   *)
(* flight form one line, each before the next, all of them behind what the *)
(* demultiplexer has taken; what was taken is past, and nothing past comes *)
(* again.  Of a stream that nothing comes before the page that is due      *)
(* follows that two headers go before the first audio.  Last the halves of *)
(* the pages: a reply arrives without a gap from its first half that is    *)
(* still on its way, so that a stream that was not reset always meets the  *)
(* page it expects, and what is thrown away is of another reply or was the *)
(* last of its own.                                                        *)
(***************************************************************************)
EXTENDS AudioDownlink, TLAPS

-----------------------------------------------------------------------------
(* Sequences and rings *)

(* A part of a sequence, what remains of it, and what it grows to.         *)
LEMMA Part ==
  ASSUME NEW S, NEW s \in Seq(S), NEW m \in Nat \ {0}, NEW n \in Nat, n <= Len(s)
  PROVE  /\ SubSeq(s, m, n) \in Seq(S)
         /\ Len(SubSeq(s, m, n)) = IF m <= n THEN n - m + 1 ELSE 0
         /\ \A i \in 1..Len(SubSeq(s, m, n)) :
              m + i - 1 \in 1..Len(s) /\ SubSeq(s, m, n)[i] = s[m + i - 1]
  OBVIOUS

LEMMA Ends ==
  ASSUME NEW S, NEW s \in Seq(S), s # <<>>
  PROVE  /\ Head(s) \in S /\ Head(s) = s[1] /\ 1 \in 1..Len(s)
         /\ Tail(s) \in Seq(S) /\ Len(Tail(s)) = Len(s) - 1
         /\ \A i \in 1..Len(Tail(s)) : i + 1 \in 1..Len(s) /\ Tail(s)[i] = s[i + 1]
  OBVIOUS

LEMMA Appended ==
  ASSUME NEW S, NEW s \in Seq(S), NEW x \in S
  PROVE  /\ Append(s, x) \in Seq(S) /\ Len(Append(s, x)) = Len(s) + 1
         /\ \A i \in 1..Len(s) : Append(s, x)[i] = s[i]
         /\ Append(s, x)[Len(s) + 1] = x
  OBVIOUS

LEMMA Joined ==
  ASSUME NEW S, NEW s \in Seq(S), NEW t \in Seq(S)
  PROVE  /\ s \o t \in Seq(S)
         /\ Len(s \o t) = Len(s) + Len(t)
         /\ \A i \in 1..Len(s) : (s \o t)[i] = s[i]
         /\ \A i \in 1..Len(t) : (s \o t)[Len(s) + i] = t[i]
  OBVIOUS

(* Handing bytes out, taking them back and storing more (audio_hal.c). *)
LEMMA HandOut ==
  ASSUME NEW S, NEW size \in Nat \ {0}, NEW rb \in Ring(S, size), InBounds(rb, size)
  PROVE  /\ Contiguous(rb, size) \in 0..Len(rb.bytes)
         /\ Received(rb, size) \in Ring(S, size) /\ InBounds(Received(rb, size), size)
         /\ Received(rb, size).bytes = rb.bytes
         /\ Received(rb, size).held = Contiguous(rb, size)
         /\ Item(rb, size) \in Seq(S)
  <1> DEFINE n == Contiguous(rb, size)
  <1>1. /\ rb.bytes \in Seq(S) /\ Len(rb.bytes) \in Nat /\ rb.start \in 0..(size - 1)
        /\ rb.held \in Nat /\ Len(rb.bytes) <= size
    BY DEF Ring, InBounds
  <1>2. n \in 0..Len(rb.bytes)
    BY <1>1 DEF Contiguous
  <1> HIDE DEF n
  <1>3. Received(rb, size) = [rb EXCEPT !.held = n]
    BY DEF Received, n
  <1>4. Received(rb, size) \in Ring(S, size) /\ Received(rb, size).bytes = rb.bytes
        /\ Received(rb, size).held = n
    BY <1>1, <1>2, <1>3 DEF Ring
  <1>5. Item(rb, size) \in Seq(S)
    BY <1>1, <1>2, Part DEF Item, n
  <1>6. QED
    BY <1>1, <1>2, <1>4, <1>5 DEF InBounds, n

(* What is returned leaves the buffer.                                     *)
LEMMA TakeBack ==
  ASSUME NEW S, NEW size \in Nat \ {0}, NEW rb \in Ring(S, size), InBounds(rb, size)
  PROVE  /\ Returned(rb, size) \in Ring(S, size) /\ InBounds(Returned(rb, size), size)
         /\ Returned(rb, size).bytes = SubSeq(rb.bytes, rb.held + 1, Len(rb.bytes))
  <1>1. /\ rb.bytes \in Seq(S) /\ Len(rb.bytes) \in Nat /\ rb.start \in 0..(size - 1)
        /\ rb.held \in Nat /\ rb.held <= Len(rb.bytes) /\ Len(rb.bytes) <= size
    BY DEF Ring, InBounds
  <1> DEFINE rest == SubSeq(rb.bytes, rb.held + 1, Len(rb.bytes))
  <1>2. rest \in Seq(S) /\ Len(rest) <= size
    BY <1>1, Part
  <1>3. (rb.start + rb.held) % size \in 0..(size - 1)
    BY <1>1
  <1> HIDE DEF rest
  <1>4. Returned(rb, size)
          = [bytes |-> rest, start |-> (rb.start + rb.held) % size, held |-> 0]
    BY DEF Returned, rest
  <1>5. /\ Returned(rb, size) \in Ring(S, size)
        /\ Returned(rb, size).bytes = rest /\ Returned(rb, size).held = 0
    BY <1>2, <1>3, <1>4 DEF Ring
  <1>6. Len(rest) \in Nat
    BY <1>2
  <1>7. QED
    BY <1>2, <1>5, <1>6 DEF InBounds, rest

(* What is sent comes after what the buffer holds.                         *)
LEMMA PutIn ==
  ASSUME NEW S, NEW size \in Nat \ {0}, NEW rb \in Ring(S, size), InBounds(rb, size),
         NEW data \in Seq(S), Fits(rb, data, size)
  PROVE  /\ Sent(rb, data) \in Ring(S, size) /\ InBounds(Sent(rb, data), size)
         /\ Sent(rb, data).bytes = rb.bytes \o data
  <1>1. /\ rb.bytes \in Seq(S) /\ Len(rb.bytes) \in Nat /\ rb.start \in 0..(size - 1)
        /\ rb.held \in Nat /\ rb.held <= Len(rb.bytes) /\ Len(rb.bytes) <= size
    BY DEF Ring, InBounds
  <1> DEFINE all == rb.bytes \o data
  <1>2. all \in Seq(S) /\ Len(all) = Len(rb.bytes) + Len(data) /\ Len(data) \in Nat
    BY <1>1, Joined
  <1> HIDE DEF all
  <1>3. Sent(rb, data) = [rb EXCEPT !.bytes = all]
    BY DEF Sent, all
  <1>4. Sent(rb, data) \in Ring(S, size) /\ Sent(rb, data).bytes = all
        /\ Sent(rb, data).held = rb.held
    BY <1>1, <1>2, <1>3 DEF Ring
  <1>5. QED
    BY <1>1, <1>2, <1>4 DEF InBounds, Fits, all

-----------------------------------------------------------------------------
(* Types *)

(* What the network and the tasks do to the control, what the demultiplexer *)
(* does to the stream, and the rings: the parts of TypeOK.                  *)
LineTypes ==
  /\ server \in [reply : 0..MaxReplies, page : 0..(LastPage + 2), front : BOOLEAN]
  /\ server.reply = 0 => server.page = LastPage + 2
  /\ net \in Seq(Message)
  /\ sync \in Seq(Fragment)

TaskTypes ==
  /\ app \in {"CONNECTED_IDLE", "HANDSHAKING", "LISTENING", "SPEAKING"}
  /\ running \in BOOLEAN
  /\ ws \in {"idle", "copy", "pages", "packets", "parse", "ruined"} \cup HasPage \cup HasPacket
  /\ todo \in [{"ws", "afe"} -> Seq(Step)]

StreamTypes ==
  /\ stream \in [serial : 0..MaxReplies, next : 0..(LastPage + 1),
                 packets : Seq(Page \cup {Hole})]
  /\ count \in 0..2 /\ seen \in 0..2
  /\ item \in Page \cup {Hole}
  /\ ws \in HasPage \cup HasPacket => item \in Page
  /\ due \in 0..(LastPage + 1)

FlagTypes ==
  inited \in BOOLEAN /\ parsed \in BOOLEAN /\ freed \in BOOLEAN /\ intact \in BOOLEAN

RingTypes ==
  /\ playback \in Ring(Page, PlaybackSize) /\ InBounds(playback, PlaybackSize)
  /\ ref \in Ring(Page, RefSize) /\ InBounds(ref, RefSize)
  /\ collected \in 0..RefBytes

CountTypes == outside \in 0..MaxOutside

Types == LineTypes /\ TaskTypes /\ StreamTypes /\ FlagTypes /\ RingTypes /\ CountTypes

(* The typed parts are the type invariant of the module, and more: where   *)
(* the task has a page or a packet at hand it is one, and before the first *)
(* reply there is no page to send.                                         *)
LEMMA TypesAreTypeOK == Types => TypeOK
  BY DEF Types, LineTypes, TaskTypes, StreamTypes, FlagTypes, RingTypes, CountTypes, TypeOK

LEMMA HoleIsNoPage == Hole \notin Page
  BY DEF Hole, Page

(* The fields of fragments.                                                *)
LEMMA FragmentFields ==
  \A f \in Fragment : f.page \in Page /\ f.part \in {"all", "front", "back"}
  BY DEF Fragment

(* A message of audio carries a fragment.                                  *)
LEMMA SentFragments ==
  ASSUME NEW m \in Message
  PROVE  m.kind = "audio" => m.data \in Fragment
  BY DEF Message

(* Where the server is after its step. *)
LEMMA ServerMoves ==
  ASSUME LineTypes
  PROVE  /\ ServerReplies =>
              /\ server'.reply = server.reply + 1 /\ server'.page = 0 /\ server'.front = FALSE
              /\ server'.reply \in 1..MaxReplies
         /\ ServerEnds =>
              /\ server'.reply = server.reply /\ server'.front = server.front
              /\ server'.page = LastPage + 2
         /\ ServerBreaksOff \/ NetDrops =>
              /\ server'.reply = server.reply /\ server'.front = FALSE
              /\ server'.page = LastPage + 2
         /\ ServerReplies \/ ServerEnds \/ ServerBreaksOff \/ NetDrops =>
              server' \in [reply : 0..MaxReplies, page : 0..(LastPage + 2), front : BOOLEAN]
  <1> USE DownlinkBounds DEF LineTypes
  <1>1. /\ server.reply \in 0..MaxReplies /\ server.page \in 0..(LastPage + 2)
        /\ server.front \in BOOLEAN /\ LastPage + 2 \in 0..(LastPage + 2)
    OBVIOUS
  <1>2. ASSUME ServerBreaksOff \/ NetDrops
        PROVE  /\ server'.reply = server.reply /\ server'.front = FALSE
               /\ server'.page = LastPage + 2
               /\ server' \in [reply : 0..MaxReplies, page : 0..(LastPage + 2), front : BOOLEAN]
    <2>1. server' = [server EXCEPT !.page = LastPage + 2, !.front = FALSE]
      BY <1>2 DEF ServerBreaksOff, NetDrops
    <2>2. QED
      BY <1>1, <2>1
  <1>3. ASSUME ServerReplies
        PROVE  /\ server'.reply = server.reply + 1 /\ server'.page = 0
               /\ server'.front = FALSE /\ server'.reply \in 1..MaxReplies
               /\ server' \in [reply : 0..MaxReplies, page : 0..(LastPage + 2), front : BOOLEAN]
    <2>1. server' = [reply |-> server.reply + 1, page |-> 0, front |-> FALSE]
      BY <1>3 DEF ServerReplies
    <2>2. server.reply + 1 \in 1..MaxReplies
      BY <1>1, <1>3 DEF ServerReplies
    <2>3. QED
      BY <2>1, <2>2
  <1>4. ASSUME ServerEnds
        PROVE  /\ server'.reply = server.reply /\ server'.front = server.front
               /\ server'.page = LastPage + 2
               /\ server' \in [reply : 0..MaxReplies, page : 0..(LastPage + 2), front : BOOLEAN]
    <2>1. server' = [server EXCEPT !.page = LastPage + 2]
      BY <1>1, <1>4 DEF ServerEnds
    <2>2. QED
      BY <1>1, <2>1
  <1>5. QED
    BY <1>2, <1>3, <1>4

(* The fragment the server sends next, whole or by halves. *)
Sends(part) ==
  [page |-> [reply |-> server.reply, no |-> server.page], part |-> part]

(* The part of a page the server sends, and the part it sends next.        *)
LEMMA ServerSends ==
  ASSUME LineTypes, ServerSendsPage
  PROVE  \E part \in {"all", "front", "back"} :
           /\ part = "back" <=> server.front
           /\ Says([kind |-> "audio", data |-> Sends(part)])
           /\ Sends(part) \in Fragment
           /\ [kind |-> "audio", data |-> Sends(part)] \in Message
           /\ server' \in [reply : 0..MaxReplies, page : 0..(LastPage + 2), front : BOOLEAN]
           /\ server'.reply = server.reply
           /\ server.reply \in 1..MaxReplies /\ server.page \in 0..LastPage
           /\ part = "front" => server'.page = server.page /\ server'.front
           /\ part # "front" => server'.page = server.page + 1 /\ ~server'.front
  <1> USE DownlinkBounds DEF LineTypes
  <1>1. /\ server.reply \in 1..MaxReplies /\ server.page \in 0..LastPage
        /\ server.front \in BOOLEAN
    BY DEF ServerSendsPage
  <1>2. PICK part \in IF server.front THEN {"back"} ELSE {"all", "front"} :
          /\ Says([kind |-> "audio", data |-> Sends(part)])
          /\ server' = IF part = "front" THEN [server EXCEPT !.front = TRUE]
                       ELSE [server EXCEPT !.page = @ + 1, !.front = FALSE]
    BY DEF ServerSendsPage, Sends
  <1>3. part \in {"all", "front", "back"} /\ (part = "back" <=> server.front)
    BY <1>1, <1>2
  <1>4. [reply |-> server.reply, no |-> server.page] \in Page
    BY <1>1 DEF Page
  <1>5. Sends(part) \in Fragment
    BY <1>3, <1>4 DEF Fragment, Sends
  <1>6. [kind |-> "audio", data |-> Sends(part)] \in Message
    BY <1>5 DEF Message
  <1>7. CASE part = "front"
    <2>1. server' = [server EXCEPT !.front = TRUE]
      BY <1>2, <1>7
    <2>2. QED
      BY <1>1, <1>2, <1>3, <1>5, <1>6, <1>7, <2>1
  <1>8. CASE part # "front"
    <2>1. server' = [server EXCEPT !.page = server.page + 1, !.front = FALSE]
      BY <1>2, <1>8
    <2>2. server.page + 1 \in 0..(LastPage + 2)
      BY <1>1
    <2>3. QED
      BY <1>1, <1>2, <1>3, <1>5, <1>6, <1>8, <2>1, <2>2
  <1>9. QED
    BY <1>7, <1>8

(* What is sent leaves the line in its types.                              *)
LEMMA ServerKeepsLine ==
  ASSUME LineTypes,
         \/ ServerReplies \/ ServerSendsPage \/ ServerEnds \/ ServerBreaksOff \/ NetDrops
  PROVE  LineTypes'
  <1>1. ASSUME NEW m \in Message, Says(m) PROVE net' \in Seq(Message) /\ sync' = sync
    BY <1>1, Appended DEF Says, device, LineTypes
  <1>2. \A k \in {"query_end", "tts_ended", "clear_cache", "fatal"} : [kind |-> k] \in Message
    BY DEF Message
  <1>3. server.reply \in 0..MaxReplies
    BY DEF LineTypes
  <1>4. CASE ServerSendsPage
    <2>1. /\ net' \in Seq(Message) /\ sync' = sync
          /\ server' \in [reply : 0..MaxReplies, page : 0..(LastPage + 2), front : BOOLEAN]
          /\ server'.reply # 0
      BY <1>1, <1>4, ServerSends
    <2>2. QED
      BY <2>1 DEF LineTypes
  <1>5. CASE ~ServerSendsPage
    <2>1. net' \in Seq(Message) /\ sync' = sync
      <3>1. CASE NetDrops
        BY <3>1 DEF NetDrops, device, LineTypes
      <3>2. CASE ServerReplies
        BY <1>1, <1>2, <3>2 DEF ServerReplies
      <3>3. CASE ServerEnds
        BY <1>1, <1>2, <3>3 DEF ServerEnds
      <3>4. CASE ServerBreaksOff
        BY <1>1, <1>2, <3>4 DEF ServerBreaksOff
      <3>5. QED
        BY <1>5, <3>1, <3>2, <3>3, <3>4
    <2>2. /\ server' \in [reply : 0..MaxReplies, page : 0..(LastPage + 2), front : BOOLEAN]
          /\ server'.reply # 0 \/ server'.page = LastPage + 2
      <3>1. \A n \in 1..MaxReplies : n # 0
        BY DownlinkBounds
      <3>2. QED
        BY <1>5, <3>1, ServerMoves
    <2>3. QED
      BY <2>1, <2>2 DEF LineTypes
  <1>6. QED
    BY <1>4, <1>5

(* What ogg_sync gives away goes from its front: the one or two fragments  *)
(* of a page, or a fragment that begins none.                              *)
SyncGone(n) ==
  /\ n <= Len(sync) /\ sync' = SubSeq(sync, n + 1, Len(sync))
  /\ UNCHANGED <<net, server>>

PageParts(n) ==
  \/ n = 1 /\ sync[1].part = "all"
  \/ /\ n = 2 /\ sync[1].part = "front"
     /\ sync[2].page = sync[1].page /\ sync[2].part = "back"

(* A page leaves ogg_sync with the one or two fragments it came in.        *)
LEMMA PageLeavesSync ==
  ASSUME sync \in Seq(Fragment), PageOut
  PROVE  \E n \in 1..2 : SyncGone(n) /\ PageParts(n)
  <1>1. sync # <<>> /\ UNCHANGED <<net, server>>
    BY DEF PageOut, WholePage, DecoderOnly
  <1>2. CASE sync[1].part = "all"
    <2>1. sync' = SubSeq(sync, 1 + 1, Len(sync)) /\ 1 <= Len(sync)
      BY <1>1, <1>2 DEF PageOut
    <2>2. QED
      BY <1>1, <1>2, <2>1 DEF SyncGone, PageParts
  <1>3. CASE sync[1].part # "all"
    <2>1. /\ sync[1].part = "front" /\ Len(sync) > 1
          /\ sync[2] = [sync[1] EXCEPT !.part = "back"]
          /\ sync' = Tail(Tail(sync))
      BY <1>3 DEF PageOut, WholePage
    <2>2. sync' = SubSeq(sync, 2 + 1, Len(sync)) /\ 2 <= Len(sync)
      BY <2>1
    <2>3. sync[1] \in Fragment
      BY <1>1, Ends
    <2>4. sync[2].page = sync[1].page /\ sync[2].part = "back"
      BY <2>1, <2>3 DEF Fragment
    <2>5. QED
      BY <1>1, <2>1, <2>2, <2>4 DEF SyncGone, PageParts
  <1>4. QED
    BY <1>2, <1>3

(* Where no page begins, one fragment leaves, or none.                     *)
LEMMA NoPageLeavesSync ==
  ASSUME sync \in Seq(Fragment), NoMorePages
  PROVE  \/ SyncGone(0)
         \/ /\ SyncGone(1)
            /\ \/ sync[1].part = "back"
               \/ /\ sync[1].part = "front" /\ Len(sync) > 1
                  /\ sync[2].page # sync[1].page \/ sync[2].part # "back"
  <1>1. UNCHANGED <<net, server>>
    BY DEF NoMorePages, DecoderOnly
  <1>2. CASE NoPageYet
    <2>1. sync' = SubSeq(sync, 0 + 1, Len(sync)) /\ 0 <= Len(sync)
      BY <1>2 DEF NoMorePages
    <2>2. QED
      BY <1>1, <2>1 DEF SyncGone
  <1>3. CASE ~NoPageYet
    <2>1. sync # <<>> /\ sync' = Tail(sync) /\ ~WholePage
      BY <1>3 DEF NoMorePages, NoPageYet
    <2>2. sync' = SubSeq(sync, 1 + 1, Len(sync)) /\ 1 <= Len(sync)
      BY <2>1
    <2>3. sync[1] \in Fragment
      BY <2>1, Ends
    <2>4. sync[1].part \in {"front", "back"}
      BY <2>1, <2>3 DEF WholePage, Fragment
    <2>5. ASSUME sync[1].part = "front"
          PROVE  Len(sync) > 1 /\ (sync[2].page # sync[1].page \/ sync[2].part # "back")
      <3>1. Len(sync) > 1 /\ sync[2] # [sync[1] EXCEPT !.part = "back"]
        <4>1. Len(sync) # 1
          BY <1>3, <2>5 DEF NoPageYet
        <4>2. Len(sync) \in Nat /\ 1 <= Len(sync)
          BY <2>2
        <4>3. \A n \in Nat : 1 <= n /\ n # 1 => n > 1
          OBVIOUS
        <4>4. QED
          BY <2>1, <2>5, <4>1, <4>2, <4>3 DEF WholePage
      <3>2. sync[2] \in Fragment
        BY <3>1
      <3>3. ASSUME sync[2].page = sync[1].page, sync[2].part = "back"
            PROVE  sync[2] = [sync[1] EXCEPT !.part = "back"]
        <4>1. PICK p \in Page, a \in {"all", "front", "back"} :
                sync[1] = [page |-> p, part |-> a]
          BY <2>3 DEF Fragment
        <4>2. sync[2] = [page |-> p, part |-> "back"]
          BY <3>2, <3>3, <4>1 DEF Fragment
        <4>3. [sync[1] EXCEPT !.part = "back"] = [page |-> p, part |-> "back"]
          BY <4>1
        <4>4. QED
          BY <4>2, <4>3
      <3>4. QED
        BY <3>1, <3>3
    <2>6. QED
      BY <1>1, <2>2, <2>4, <2>5 DEF SyncGone
  <1>4. QED
    BY <1>2, <1>3

(* What taking a message does, whatever its kind.                          *)
LEMMA MessageTaken ==
  ASSUME LineTypes, WsTakes
  PROVE  /\ net # <<>> /\ net' = Tail(net) /\ ws = "idle"
         /\ Head(net) \in Message
         /\ \/ /\ Head(net).kind = "audio" /\ Head(net).data \in Fragment
               /\ sync' = Append(sync, Head(net).data) /\ ws' = "copy"
               /\ UNCHANGED <<app, running, todo>>
            \/ /\ Head(net).kind # "audio" /\ sync' = sync /\ ws' = "idle"
               /\ app' \in {app, "SPEAKING"} /\ running' \in {running, FALSE}
               /\ \/ UNCHANGED todo
                  \/ \E last \in {"listening", "ready"} :
                       todo' = [todo EXCEPT !["ws"] = Clearing(last)]
         /\ UNCHANGED <<server, stream, inited, parsed, count, item, seen, freed,
                        playback, ref, collected, due, intact, outside>>
  <1>1. /\ ws = "idle" /\ net # <<>> /\ net' = Tail(net)
        /\ UNCHANGED <<server, stream, inited, parsed, count, item, seen, freed,
                       playback, ref, collected, due, intact, outside>>
    BY DEF WsTakes
  <1>2. Head(net) \in Message
    BY <1>1, Ends DEF LineTypes
  <1>3. Head(net).kind \in {"audio", "query_end", "tts_ended", "clear_cache", "fatal"}
    BY <1>2 DEF Message
  <1>4. CASE Head(net).kind = "audio"
    BY <1>1, <1>2, <1>4, SentFragments DEF WsTakes
  <1>5. CASE Head(net).kind = "query_end"
    BY <1>1, <1>2, <1>5 DEF WsTakes
  <1>6. CASE Head(net).kind \in {"tts_ended", "clear_cache"}
    BY <1>1, <1>2, <1>6 DEF WsTakes
  <1>7. CASE Head(net).kind = "fatal"
    BY <1>1, <1>2, <1>7 DEF WsTakes
  <1>8. QED
    BY <1>3, <1>4, <1>5, <1>6, <1>7

(* What a reset does, whichever of its steps it is at. *)
LEMMA ResetLeaves ==
  ASSUME NEW t \in {"ws", "afe"}, ResetOgg(t)
  PROVE  /\ UNCHANGED <<app, running, server, net, item, seen, playback, ref, collected, outside>>
         /\ ws' \in {ws, "ruined"} /\ sync' \in {sync, <<>>} /\ stream' \in {stream, NoStream}
         /\ inited' \in {inited, FALSE} /\ parsed' \in {parsed, FALSE} /\ count' \in {count, 0}
         /\ due' = 0 /\ intact' = FALSE
         /\ todo[t] # <<>>
         /\ \/ todo' = [todo EXCEPT ![t] = Tail(todo[t])]
            \/ todo' = [todo EXCEPT ![t] = SubSeq(todo[t], 4, Len(todo[t]))]
         /\ freed \in BOOLEAN => freed' \in BOOLEAN
  <1>1. CASE ClearStream(t)
    BY <1>1 DEF ClearStream, Does, Done, Calls, Flags
  <1>2. CASE StreamCleared(t)
    BY <1>2 DEF StreamCleared, Does, Done
  <1>3. CASE ClearSync(t)
    BY <1>3 DEF ClearSync, Does, Done, Calls, Flags
  <1>4. CASE ResetHeaders(t)
    BY <1>4 DEF ResetHeaders, Does, Done, Calls
  <1>5. CASE TestStream(t)
    BY <1>5 DEF TestStream, Does, Done, Flags
  <1>6. QED
    BY <1>1, <1>2, <1>3, <1>4, <1>5 DEF ResetOgg

(* The steps of the server, of the network, of the buffers and of the      *)
(* state leave the demultiplexer as it is.                                 *)
ServerOrNet ==
  ServerReplies \/ ServerSendsPage \/ ServerEnds \/ ServerBreaksOff \/ NetDrops

Resets == ResetOgg("ws") \/ ResetOgg("afe")

LEMMA OthersLeave ==
  ASSUME Next, ~WsTakes, ~DecodeOgg, ~Resets
  PROVE  /\ UNCHANGED <<ws, sync, stream, inited, parsed, count, item, seen, freed, due, intact>>
         /\ ServerOrNet \/ UNCHANGED <<server, net>>
  <1>1. ASSUME ServerOrNet
        PROVE  UNCHANGED <<ws, sync, stream, inited, parsed, count, item, seen, freed, due, intact>>
    BY <1>1
    DEF ServerOrNet, ServerReplies, ServerSendsPage, ServerEnds, ServerBreaksOff, NetDrops,
        Says, device
  <1>2. ASSUME Play \/ CollectRef \/ Feed
        PROVE  UNCHANGED <<ws, sync, stream, inited, parsed, count, item, seen, freed, due, intact,
                           server, net>>
    BY <1>2
    DEF Play, PlayReceives, PlayReturns, CollectRef, Feed, AudioOnly, Demuxer, Flags
  <1>3. ASSUME WakeWord
        PROVE  UNCHANGED <<ws, sync, stream, inited, parsed, count, item, seen, freed, due, intact,
                           server, net>>
    BY <1>3 DEF WakeWord, Flags
  <1>4. ASSUME NEW t \in {"ws", "afe"}, DrainPlayback(t) \/ DrainRef(t) \/ EnterState(t)
        PROVE  UNCHANGED <<ws, sync, stream, inited, parsed, count, item, seen, freed, due, intact,
                           server, net>>
    BY <1>4 DEF DrainPlayback, DrainRef, EnterState, Does, Demuxer, Flags
  <1>5. QED
    BY <1>1, <1>2, <1>3, <1>4 DEF Next, Handle, ServerOrNet, Resets

(* Of the decoding only what looks for a page takes from ogg_sync.         *)
LEMMA DecodingLeaves ==
  ASSUME DecodeOgg
  PROVE  /\ UNCHANGED <<app, running, server, net, todo, ref, collected, outside>>
         /\ PageOut \/ NoMorePages \/ sync' = sync
  <1>1. ASSUME \/ CopyData \/ PageOut \/ NoMorePages \/ FirstPage \/ StreamInited
               \/ TestBos \/ NewSerial \/ TakePage
        PROVE  /\ UNCHANGED <<app, running, server, net, todo, ref, collected, outside>>
               /\ PageOut \/ NoMorePages \/ sync' = sync
    BY <1>1
    DEF CopyData, PageOut, NoMorePages, FirstPage, StreamInited, TestBos, NewSerial, TakePage,
        DecoderOnly
  <1>2. ASSUME \/ NoMorePackets \/ PacketOut \/ TestParsed \/ SkipHeader \/ HeadersParsed
               \/ Decode \/ StorePcm
        PROVE  UNCHANGED <<app, running, server, net, todo, ref, collected, outside, sync>>
    BY <1>2
    DEF NoMorePackets, PacketOut, TestParsed, SkipHeader, HeadersParsed, Decode, StorePcm,
        DecoderOnly
  <1>3. QED
    BY <1>1, <1>2 DEF DecodeOgg

(* Whatever is not put into the line by the server or the network, or      *)
(* moved in it by on_ws_receive, goes from the front of ogg_sync.          *)
LEMMA SyncMoves ==
  ASSUME sync \in Seq(Fragment), Next, ~WsTakes, ~ServerOrNet
  PROVE  \E n \in Nat : SyncGone(n)
  <1>1. CASE UNCHANGED <<server, net, sync>>
    <2>1. sync' = SubSeq(sync, 0 + 1, Len(sync)) /\ 0 <= Len(sync)
      BY <1>1
    <2>2. SyncGone(0)
      BY <1>1, <2>1 DEF SyncGone
    <2>3. QED
      BY <2>2
  <1>2. CASE UNCHANGED <<server, net>> /\ sync' = <<>>
    <2>1. sync' = SubSeq(sync, Len(sync) + 1, Len(sync)) /\ Len(sync) \in Nat
      BY <1>2
    <2>2. SyncGone(Len(sync))
      BY <1>2, <2>1 DEF SyncGone
    <2>3. QED
      BY <2>1, <2>2
  <1>3. CASE DecodeOgg
    <2>1. CASE PageOut
      BY <2>1, PageLeavesSync
    <2>2. CASE NoMorePages
      BY <2>2, NoPageLeavesSync
    <2>3. QED
      BY <1>1, <1>3, <2>1, <2>2, DecodingLeaves
  <1>4. CASE Resets
    BY <1>1, <1>2, <1>4, ResetLeaves DEF Resets
  <1>5. QED
    BY <1>1, <1>3, <1>4, OthersLeave

(* Every step keeps the types of the line to the decoder.                  *)
LEMMA LineKept == Types /\ Next => LineTypes'
  <1> SUFFICES ASSUME Types, Next PROVE LineTypes'
    OBVIOUS
  <1>1. LineTypes /\ net \in Seq(Message) /\ sync \in Seq(Fragment)
    BY DEF Types, LineTypes
  <1>2. CASE WsTakes
    <2>1. net' = Tail(net) /\ net # <<>> /\ server' = server
          /\ \/ sync' = sync
             \/ Head(net).data \in Fragment /\ sync' = Append(sync, Head(net).data)
      BY <1>1, <1>2, MessageTaken
    <2>2. net' \in Seq(Message)
      BY <1>1, <2>1, Ends
    <2>3. sync' \in Seq(Fragment)
      BY <1>1, <2>1, Appended
    <2>4. QED
      BY <1>1, <2>1, <2>2, <2>3 DEF LineTypes
  <1>3. CASE ServerOrNet
    BY <1>1, <1>3, ServerKeepsLine DEF ServerOrNet
  <1>4. CASE ~WsTakes /\ ~ServerOrNet
    <2>1. PICK n \in Nat : SyncGone(n)
      BY <1>1, <1>4, SyncMoves
    <2>2. n + 1 \in Nat \ {0} /\ Len(sync) \in Nat /\ Len(sync) <= Len(sync)
      BY <1>1
    <2>3. sync' \in Seq(Fragment)
      BY <1>1, <2>1, <2>2, Part DEF SyncGone
    <2>4. QED
      BY <1>1, <2>1, <2>3 DEF LineTypes, SyncGone
  <1>5. QED
    BY <1>2, <1>3, <1>4

LEMMA SevenIn ==
  ASSUME NEW S, NEW a \in S, NEW b \in S, NEW c \in S, NEW d \in S, NEW e \in S, NEW f \in S,
         NEW g \in S
  PROVE  <<a, b, c, d, e, f, g>> \in Seq(S)
  OBVIOUS

(* The handlers' steps are steps of theirs. *)
LEMMA StepsOfHandlers ==
  \A last \in {"listening", "ready", "handshaking"} : Clearing(last) \in Seq(Step)
  <1> TAKE last \in {"listening", "ready", "handshaking"}
  <1>1. <<"playback", "ref">> \in Seq(Step) /\ <<last>> \in Seq(Step)
    <2>1. last \in Step /\ "playback" \in Step /\ "ref" \in Step
      BY DEF Step
    <2>2. QED
      BY <2>1
  <1>2. Reset \in Seq(Step)
    <2>1. /\ "stream" \in Step /\ "inited" \in Step /\ "sync" \in Step /\ "sync again" \in Step
          /\ "parsed" \in Step /\ "count" \in Step /\ "test" \in Step
      BY DEF Step
    <2>2. QED
      BY <2>1, SevenIn DEF Reset
  <1>3. <<"playback", "ref">> \o Reset \in Seq(Step)
    BY <1>1, <1>2, Joined
  <1>4. (<<"playback", "ref">> \o Reset) \o <<last>> \in Seq(Step)
    BY <1>1, <1>3, Joined
  <1>5. <<"playback", "ref">> \o Reset \o <<last>> \in Seq(Step)
    BY <1>4
  <1>6. QED
    BY <1>5 DEF Clearing

(* Where the decoding is after each of its steps. *)
LEMMA DecodingMoves ==
  ASSUME DecodeOgg
  PROVE  ws' \in {"idle", "copy", "pages", "packets", "parse", "ruined"} \cup HasPage \cup HasPacket
  <1>1. ASSUME \/ CopyData \/ PageOut \/ NoMorePages \/ FirstPage \/ StreamInited
               \/ TestBos \/ NewSerial \/ TakePage
        PROVE  ws' \in {"pages", "packets", "idle", "ruined"} \cup HasPage
    BY <1>1
    DEF CopyData, PageOut, NoMorePages, FirstPage, StreamInited, TestBos, NewSerial, TakePage,
        Uses, HasPage
  <1>2. ASSUME \/ NoMorePackets \/ PacketOut \/ TestParsed \/ SkipHeader \/ HeadersParsed
               \/ Decode \/ StorePcm
        PROVE  ws' \in {"pages", "packets", "parse", "ruined"} \cup HasPacket
    BY <1>2
    DEF NoMorePackets, PacketOut, TestParsed, SkipHeader, HeadersParsed, Decode, StorePcm,
        Uses, HasPacket
  <1>3. QED
    BY <1>1, <1>2 DEF DecodeOgg

(* Every step keeps the types of the tasks.                                *)
LEMMA TasksKept == Types /\ Next => TaskTypes'
  <1> SUFFICES ASSUME Types, Next PROVE TaskTypes'
    OBVIOUS
  <1>1. TaskTypes /\ LineTypes
    BY DEF Types
  <1>2. \A t \in {"ws", "afe"}, s \in Seq(Step) :
          [todo EXCEPT ![t] = s] \in [{"ws", "afe"} -> Seq(Step)]
    BY <1>1 DEF TaskTypes
  <1>3. CASE WsTakes
    <2>1. /\ ws' \in {"idle", "copy"}
          /\ app' \in {app, "SPEAKING"} /\ running' \in {running, FALSE}
          /\ \/ UNCHANGED todo
             \/ \E last \in {"listening", "ready"} :
                  todo' = [todo EXCEPT !["ws"] = Clearing(last)]
      BY <1>1, <1>3, MessageTaken
    <2>2. todo' \in [{"ws", "afe"} -> Seq(Step)]
      BY <1>1, <1>2, <2>1, StepsOfHandlers DEF TaskTypes
    <2>3. QED
      BY <1>1, <2>1, <2>2 DEF TaskTypes
  <1>4. CASE WakeWord
    <2>1. UNCHANGED <<app, running, ws>> /\ todo' = [todo EXCEPT !["afe"] = Clearing("handshaking")]
      BY <1>4 DEF WakeWord
    <2>2. todo' \in [{"ws", "afe"} -> Seq(Step)]
      BY <1>2, <2>1, StepsOfHandlers
    <2>3. QED
      BY <1>1, <2>1, <2>2 DEF TaskTypes
  <1>5. ASSUME NEW t \in {"ws", "afe"}, Handle(t) PROVE TaskTypes'
    <2>1. /\ running' = running /\ ws' \in {ws, "ruined"}
          /\ \/ todo' = todo
             \/ /\ todo[t] # <<>>
                /\ \/ todo' = [todo EXCEPT ![t] = Tail(todo[t])]
                   \/ todo' = [todo EXCEPT ![t] = SubSeq(todo[t], 4, Len(todo[t]))]
          /\ app' \in {app, "LISTENING", "CONNECTED_IDLE", "HANDSHAKING"}
      <3>1. CASE ResetOgg(t)
        BY <3>1, ResetLeaves
      <3>2. CASE ~ResetOgg(t)
        BY <1>5, <3>2 DEF Handle, DrainPlayback, DrainRef, EnterState, Does, Done
      <3>3. QED
        BY <3>1, <3>2
    <2>2. todo[t] \in Seq(Step)
      BY <1>1 DEF TaskTypes
    <2>3. todo[t] # <<>> => Tail(todo[t]) \in Seq(Step)
      BY <2>2, Ends
    <2>4. SubSeq(todo[t], 4, Len(todo[t])) \in Seq(Step)
      <3>1. 4 \in Nat \ {0} /\ Len(todo[t]) \in Nat /\ Len(todo[t]) <= Len(todo[t])
        BY <2>2
      <3>2. QED
        BY <2>2, <3>1, Part
    <2>5. todo' \in [{"ws", "afe"} -> Seq(Step)]
      BY <1>1, <1>2, <2>1, <2>3, <2>4 DEF TaskTypes
    <2>6. QED
      BY <1>1, <2>1, <2>5 DEF TaskTypes
  <1>6. CASE DecodeOgg
    BY <1>1, <1>6, DecodingLeaves, DecodingMoves DEF TaskTypes
  <1>7. CASE ServerOrNet \/ Play \/ CollectRef \/ Feed
    <2>1. UNCHANGED <<app, running, ws, todo>>
      BY <1>7
      DEF ServerOrNet, ServerReplies, ServerSendsPage, ServerEnds, ServerBreaksOff, NetDrops,
          Says, device, Play, PlayReceives, PlayReturns, CollectRef, Feed, AudioOnly
    <2>2. QED
      BY <1>1, <2>1 DEF TaskTypes
  <1>8. QED
    BY <1>3, <1>4, <1>5, <1>6, <1>7 DEF Next, ServerOrNet

(* What a stream of libogg can be here. *)
Streams == [serial : 0..MaxReplies, next : 0..(LastPage + 1), packets : Seq(Page \cup {Hole})]

LEMMA EmptyStreams ==
  /\ NoStream \in Streams
  /\ \A page \in Page : NewStream(page.reply) \in Streams
  BY DownlinkBounds DEF NoStream, NewStream, Page, Streams

(* A page appended to the packets, after a hole where it is out of order.  *)
Grows(page, old) == \/ stream'.packets = Append(old, page)
                    \/ stream'.packets = Append(Append(old, Hole), page)

(* What ogg_stream_pagein does: it refuses the page of another reply.      *)
LEMMA PageTaken ==
  ASSUME Types, TakePage
  PROVE  /\ item \in Page
         /\ stream' \in Streams /\ stream'.serial = stream.serial
         /\ \/ item.reply # stream.serial /\ stream' = stream
            \/ /\ item.reply = stream.serial
               /\ stream'.next = item.no + 1
               /\ Grows(item, stream.packets)
               /\ item.no = stream.next => stream'.packets = Append(stream.packets, item)
  <1> USE DownlinkBounds
  <1>1. stream \in Streams /\ item \in Page
    BY DEF TakePage, Types, StreamTypes, Streams, HasPage
  <1>2. PICK page \in Page : page = item
    BY <1>1
  <1>3. stream' = PageIn(stream, page)
    BY <1>2 DEF TakePage
  <1>4. page.reply \in 1..MaxReplies /\ page.no \in 0..LastPage
    BY DEF Page
  <1>5. CASE page.reply # stream.serial
    BY <1>1, <1>2, <1>3, <1>5 DEF PageIn
  <1>6. CASE page.reply = stream.serial
    <2> DEFINE new == IF page.no = stream.next THEN <<page>> ELSE <<Hole, page>>
    <2>1. stream' = [stream EXCEPT !.packets = stream.packets \o new, !.next = page.no + 1]
      BY <1>3, <1>6 DEF PageIn
    <2>2. stream.packets \in Seq(Page \cup {Hole})
      BY <1>1 DEF Streams
    <2>3. /\ stream.packets \o <<page>> = Append(stream.packets, page)
          /\ stream.packets \o <<Hole, page>> = Append(Append(stream.packets, Hole), page)
      BY <2>2
    <2>4. new \in Seq(Page \cup {Hole}) /\ page.no + 1 \in 0..(LastPage + 1)
      <3>1. <<page>> \in Seq(Page \cup {Hole}) /\ <<Hole, page>> \in Seq(Page \cup {Hole})
        OBVIOUS
      <3>2. page.no + 1 \in 0..(LastPage + 1)
        BY <1>4
      <3>3. QED
        BY <3>1, <3>2
    <2>5. /\ page.no = stream.next => new = <<page>>
          /\ page.no # stream.next => new = <<Hole, page>>
      OBVIOUS
    <2> HIDE DEF new
    <2>6. stream.packets \o new \in Seq(Page \cup {Hole})
      BY <2>2, <2>4, Joined
    <2>7. /\ stream' \in Streams /\ stream'.serial = stream.serial
          /\ stream'.next = page.no + 1 /\ stream'.packets = stream.packets \o new
      BY <1>1, <2>1, <2>4, <2>6 DEF Streams
    <2>8. /\ Grows(page, stream.packets)
          /\ page.no = stream.next => stream'.packets = Append(stream.packets, page)
      BY <2>3, <2>5, <2>7 DEF Grows
    <2>9. QED
      BY <1>1, <1>2, <1>6, <2>7, <2>8
  <1>7. QED
    BY <1>5, <1>6

(* The packet that is taken from the stream is its first. *)
LEMMA PacketTaken ==
  ASSUME Types, NoMorePackets \/ PacketOut
  PROVE  \/ stream.packets = <<>> /\ NoMorePackets /\ stream' = stream
         \/ /\ stream.packets # <<>>
            /\ stream.packets[1] \in Page \cup {Hole}
            /\ stream' \in Streams
            /\ stream'.serial = stream.serial /\ stream'.next = stream.next
            /\ stream'.packets = Tail(stream.packets)
            /\ Head(stream.packets) = stream.packets[1]
            /\ \/ NoMorePackets /\ stream.packets[1] = Hole
               \/ PacketOut /\ stream.packets[1] \in Page /\ item' = stream.packets[1]
  <1>1. stream \in Streams
    BY DEF Types, StreamTypes, Streams
  <1>2. CASE stream.packets = <<>>
    BY <1>2 DEF NoMorePackets, PacketOut, Packet
  <1>3. CASE stream.packets # <<>>
    <2>1. stream.packets \in Seq(Page \cup {Hole})
      BY <1>1 DEF Streams
    <2>2. /\ Head(stream.packets) = stream.packets[1]
          /\ stream.packets[1] \in Page \cup {Hole}
          /\ Tail(stream.packets) \in Seq(Page \cup {Hole})
      BY <1>3, <2>1, Ends
    <2>3. stream' = [stream EXCEPT !.packets = Tail(stream.packets)]
      BY <1>3 DEF NoMorePackets, PacketOut, NextPacket
    <2>4. stream' \in Streams
          /\ stream'.serial = stream.serial /\ stream'.next = stream.next
          /\ stream'.packets = Tail(stream.packets)
      BY <1>1, <2>2, <2>3 DEF Streams
    <2>5. \/ NoMorePackets /\ stream.packets[1] = Hole
          \/ PacketOut /\ stream.packets[1] \in Page /\ item' = stream.packets[1]
      BY <1>3, <2>2 DEF NoMorePackets, PacketOut, Packet
    <2>6. QED
      BY <1>3, <2>2, <2>4, <2>5
  <1>4. QED
    BY <1>2, <1>3

(* Every step keeps the types of the stream.                               *)
LEMMA StreamKept == Types /\ Next => StreamTypes'
  <1> SUFFICES ASSUME Types, Next PROVE StreamTypes'
    OBVIOUS
  <1> USE DownlinkBounds
  <1>1. StreamTypes /\ stream \in Streams
    BY DEF Types, StreamTypes, Streams
  <1>2. \A page \in Page : page.no + 1 \in 0..(LastPage + 1)
    BY DEF Page
  <1>3. CASE WsTakes
    <2>1. /\ UNCHANGED <<stream, count, item, seen, due>>
          /\ ws' \in {"idle", "copy"}
      BY <1>3, MessageTaken DEF Types
    <2>2. QED
      BY <1>1, <2>1 DEF StreamTypes, HasPage, HasPacket
  <1>4. CASE Resets
    <2>1. PICK t \in {"ws", "afe"} : ResetOgg(t)
      BY <1>4 DEF Resets
    <2>2. /\ UNCHANGED <<item, seen>> /\ ws' \in {ws, "ruined"} /\ stream' \in {stream, NoStream}
          /\ count' \in {count, 0} /\ due' = 0
      BY <2>1, ResetLeaves
    <2>3. stream' \in Streams
      BY <1>1, <2>2, EmptyStreams
    <2>4. QED
      BY <1>1, <2>2, <2>3 DEF StreamTypes, Streams, HasPage, HasPacket
  <1>5. CASE PageOut
    <2>1. /\ item' = sync[1].page /\ ws' = "page" /\ sync # <<>> /\ sync \in Seq(Fragment)
          /\ UNCHANGED <<stream, count, seen>>
          /\ due' \in {due, 0}
      BY <1>5 DEF PageOut, WholePage, Flags, History, Types, LineTypes
    <2>2. item' \in Page
      <3>1. sync[1] \in Fragment
        BY <2>1, Ends
      <3>2. QED
        BY <2>1, <3>1, FragmentFields
    <2>3. QED
      BY <1>1, <2>1, <2>2 DEF StreamTypes, HasPage, HasPacket
  <1>6. CASE TakePage
    <2>1. /\ stream' \in Streams /\ item' = Hole /\ ws' \in {"packets", "ruined"}
          /\ UNCHANGED <<count, seen, due>>
      BY <1>6, PageTaken DEF TakePage, Uses, Flags, History
    <2>2. QED
      BY <1>1, <2>1 DEF StreamTypes, Streams, HasPage, HasPacket
  <1>7. CASE FirstPage \/ NewSerial
    <2>1. item \in Page
      BY <1>1, <1>7 DEF FirstPage, NewSerial, StreamTypes, HasPage
    <2>2. /\ stream' \in {stream, NewStream(item.reply)}
          /\ count' \in {count, 0} /\ UNCHANGED <<item, seen, due>>
      BY <1>7 DEF FirstPage, NewSerial, Uses, Flags, History
    <2>3. stream' \in Streams
      BY <1>1, <2>1, <2>2, EmptyStreams
    <2>4. QED
      BY <1>1, <2>1, <2>2, <2>3 DEF StreamTypes, Streams
  <1>8. CASE StreamInited \/ TestBos
    <2>1. item \in Page
      BY <1>1, <1>8 DEF StreamInited, TestBos, StreamTypes, HasPage
    <2>2. count' \in {count, 0} /\ UNCHANGED <<stream, item, seen, due>>
      BY <1>8 DEF StreamInited, TestBos, Flags, History
    <2>3. QED
      BY <1>1, <2>1, <2>2 DEF StreamTypes
  <1>9. CASE NoMorePackets
    <2>1. stream' \in Streams /\ ws' = "pages" /\ UNCHANGED <<count, item, seen, due>>
      BY <1>1, <1>9, PacketTaken DEF NoMorePackets, Flags, History
    <2>2. QED
      BY <1>1, <2>1 DEF StreamTypes, Streams, HasPage, HasPacket
  <1>10. CASE PacketOut
    <2>1. stream' \in Streams /\ item' \in Page
      BY <1>10, PacketTaken, HoleIsNoPage DEF PacketOut, NoMorePackets, Packet
    <2>2. due' \in {item'.no + 1, 0} /\ UNCHANGED <<count, seen>>
      BY <1>10 DEF PacketOut, Flags
    <2>3. due' \in 0..(LastPage + 1)
      BY <1>2, <2>1, <2>2
    <2>4. QED
      BY <1>1, <2>1, <2>2, <2>3 DEF StreamTypes, Streams
  <1>11. CASE TestParsed
    <2>1. item \in Page
      BY <1>1, <1>11 DEF TestParsed, StreamTypes, HasPacket
    <2>2. seen' \in {seen, count} /\ UNCHANGED <<stream, count, item, due>>
      BY <1>11 DEF TestParsed, Flags, History
    <2>3. QED
      BY <1>1, <2>1, <2>2 DEF StreamTypes
  <1>12. CASE SkipHeader \/ HeadersParsed
    <2>1. /\ ws' \in {"packets", "parse"} /\ count' \in {count, 1, 2}
          /\ seen' \in {seen, 0} /\ item' \in {item, Hole}
          /\ UNCHANGED <<stream, due>>
      BY <1>12 DEF SkipHeader, HeadersParsed, History
    <2>2. QED
      BY <1>1, <2>1 DEF StreamTypes, HasPage, HasPacket
  <1>13. CASE Decode
    <2>1. item \in Page /\ UNCHANGED <<stream, count, item, seen, due>>
      BY <1>1, <1>13 DEF Decode, StreamTypes, HasPacket, Flags, History
    <2>2. QED
      BY <1>1, <2>1 DEF StreamTypes
  <1>14. CASE CopyData \/ NoMorePages \/ StorePcm
    <2>1. /\ ws' \in {"pages", "idle", "packets", "ruined"}
          /\ item' \in {item, Hole}
          /\ UNCHANGED <<stream, count, seen, due>>
      BY <1>14 DEF CopyData, NoMorePages, StorePcm, Uses, Flags, History
    <2>2. QED
      BY <1>1, <2>1 DEF StreamTypes, HasPage, HasPacket
  <1>15. CASE ~WsTakes /\ ~DecodeOgg /\ ~Resets
    <2>1. UNCHANGED <<ws, stream, count, item, seen, due>>
      BY <1>15, OthersLeave
    <2>2. QED
      BY <1>1, <2>1 DEF StreamTypes
  <1>16. QED
    BY <1>3, <1>4, <1>5, <1>6, <1>7, <1>8, <1>9, <1>10, <1>11, <1>12, <1>13, <1>14, <1>15
    DEF DecodeOgg

(* Every step keeps the types of the flags.                                *)
LEMMA FlagsKept == Types /\ Next => FlagTypes'
  <1> SUFFICES ASSUME Types, Next PROVE FlagTypes'
    OBVIOUS
  <1>1. FlagTypes
    BY DEF Types
  <1>2. SUFFICES /\ inited' \in {inited, TRUE, FALSE} /\ parsed' \in {parsed, TRUE, FALSE}
                 /\ freed' \in {freed, TRUE, FALSE} /\ intact' \in {intact, TRUE, FALSE}
    BY <1>1 DEF FlagTypes
  <1>3. CASE WsTakes
    BY <1>3 DEF WsTakes
  <1>4. CASE Resets
    BY <1>1, <1>4, ResetLeaves DEF Resets, FlagTypes
  <1>5. ASSUME \/ CopyData \/ PageOut \/ NoMorePages \/ FirstPage \/ StreamInited
               \/ TestBos \/ NewSerial \/ TakePage
        PROVE  /\ inited' \in {inited, TRUE, FALSE} /\ parsed' \in {parsed, TRUE, FALSE}
               /\ freed' \in {freed, TRUE, FALSE} /\ intact' \in {intact, TRUE, FALSE}
    BY <1>5
    DEF CopyData, PageOut, NoMorePages, FirstPage, StreamInited, TestBos, NewSerial, TakePage,
        Flags, History
  <1>6. ASSUME \/ NoMorePackets \/ PacketOut \/ TestParsed \/ SkipHeader \/ HeadersParsed
               \/ Decode \/ StorePcm
        PROVE  /\ inited' \in {inited, TRUE, FALSE} /\ parsed' \in {parsed, TRUE, FALSE}
               /\ freed' \in {freed, TRUE, FALSE} /\ intact' \in {intact, TRUE, FALSE}
    BY <1>6
    DEF NoMorePackets, PacketOut, TestParsed, SkipHeader, HeadersParsed, Decode, StorePcm,
        Flags, History
  <1>7. CASE ~WsTakes /\ ~DecodeOgg /\ ~Resets
    BY <1>7, OthersLeave
  <1>8. QED
    BY <1>3, <1>4, <1>5, <1>6, <1>7 DEF DecodeOgg

(* The steps that touch playback_rb, and what they do to it. *)
PlaybackGone(n) ==
  n <= Len(playback.bytes)
    /\ playback'.bytes = SubSeq(playback.bytes, n + 1, Len(playback.bytes))

(* Of the steps of the decoding only the callback touches it. *)
LEMMA DecodingIsSilent ==
  ASSUME DecodeOgg, ~StorePcm
  PROVE  playback' = playback
  <1>1. ASSUME \/ CopyData \/ PageOut \/ NoMorePages \/ FirstPage \/ StreamInited
               \/ TestBos \/ NewSerial \/ TakePage
        PROVE  playback' = playback
    BY <1>1
    DEF CopyData, PageOut, NoMorePages, FirstPage, StreamInited, TestBos, NewSerial, TakePage
  <1>2. ASSUME NoMorePackets \/ PacketOut \/ TestParsed \/ SkipHeader \/ HeadersParsed \/ Decode
        PROVE  playback' = playback
    BY <1>2 DEF NoMorePackets, PacketOut, TestParsed, SkipHeader, HeadersParsed, Decode
  <1>3. QED
    BY <1>1, <1>2 DEF DecodeOgg

(* The playback buffer loses items at its front, or grows by the PCM of    *)
(* one packet at its end.                                                  *)
LEMMA PlaybackMoves ==
  ASSUME Types, Next
  PROVE  /\ playback' \in Ring(Page, PlaybackSize) /\ InBounds(playback', PlaybackSize)
         /\ \/ \E n \in Nat : PlaybackGone(n)
            \/ /\ StorePcm /\ item \in Page
               /\ playback'.bytes = Append(playback.bytes, item)
  <1> USE DownlinkSizes
  <1>1. playback \in Ring(Page, PlaybackSize) /\ InBounds(playback, PlaybackSize)
    BY DEF Types, RingTypes
  <1>2. playback.bytes \in Seq(Page) /\ playback.held \in Nat
        /\ playback.held <= Len(playback.bytes)
    BY <1>1 DEF Ring, InBounds
  <1>3. ASSUME playback'.bytes = playback.bytes PROVE PlaybackGone(0)
    BY <1>2, <1>3 DEF PlaybackGone
  <1>4. CASE playback' = playback
    BY <1>1, <1>3, <1>4
  <1>5. CASE PlayReceives
    <2>1. playback' = Received(playback, PlaybackSize)
      BY <1>5 DEF PlayReceives
    <2>2. QED
      BY <1>1, <1>3, <2>1, HandOut
  <1>6. CASE PlayReturns
    <2>1. playback' = Returned(playback, PlaybackSize)
      BY <1>6 DEF PlayReturns
    <2>2. PlaybackGone(playback.held)
      BY <1>1, <1>2, <2>1, TakeBack DEF PlaybackGone
    <2>3. QED
      BY <1>1, <1>2, <2>1, <2>2, TakeBack
  <1>7. CASE playback' = Returned(Received(playback, PlaybackSize), PlaybackSize)
    <2> DEFINE out == Received(playback, PlaybackSize)
    <2>1. /\ out \in Ring(Page, PlaybackSize) /\ InBounds(out, PlaybackSize)
          /\ out.bytes = playback.bytes /\ out.held \in Nat
          /\ out.held <= Len(playback.bytes)
      BY <1>1, <1>2, HandOut
    <2> HIDE DEF out
    <2>2. playback' = Returned(out, PlaybackSize)
      BY <1>7 DEF out
    <2>3. /\ playback' \in Ring(Page, PlaybackSize) /\ InBounds(playback', PlaybackSize)
          /\ PlaybackGone(out.held)
      BY <2>1, <2>2, TakeBack DEF PlaybackGone
    <2>4. QED
      BY <2>1, <2>3
  <1>8. CASE StorePcm /\ playback' # playback
    <2>1. ws = "pcm" /\ Fits(playback, <<item>>, PlaybackSize)
          /\ playback' = Sent(playback, <<item>>)
      BY <1>8 DEF StorePcm
    <2>2. item \in Page
      BY <2>1 DEF Types, StreamTypes, HasPacket
    <2>3. <<item>> \in Seq(Page) /\ playback.bytes \o <<item>> = Append(playback.bytes, item)
      BY <1>2, <2>2
    <2>4. QED
      BY <1>1, <1>8, <2>1, <2>2, <2>3, PutIn
  <1>9. ASSUME Next, playback' # playback, ~PlayReceives, ~PlayReturns, ~StorePcm
        PROVE  playback' = Returned(Received(playback, PlaybackSize), PlaybackSize)
    <2>1. ASSUME ServerOrNet \/ WsTakes \/ WakeWord \/ CollectRef \/ Feed \/ DecodeOgg
          PROVE  playback' = playback
      <3>1. CASE DecodeOgg
        BY <1>9, <3>1, DecodingIsSilent
      <3>2. CASE ServerOrNet \/ WsTakes \/ WakeWord \/ CollectRef \/ Feed
        BY <3>2
        DEF ServerOrNet, ServerReplies, ServerSendsPage, ServerEnds, ServerBreaksOff, NetDrops,
            Says, device, WsTakes, WakeWord, CollectRef, Feed
      <3>3. QED
        BY <2>1, <3>1, <3>2
    <2>2. ASSUME NEW t \in {"ws", "afe"}, DrainRef(t) \/ ResetOgg(t) \/ EnterState(t)
          PROVE  playback' = playback
      BY <2>2, ResetLeaves DEF DrainRef, EnterState
    <2>3. \E t \in {"ws", "afe"} : DrainPlayback(t)
      BY <1>9, <2>1, <2>2 DEF Next, Handle, Play, ServerOrNet
    <2>4. QED
      BY <1>9, <2>3 DEF DrainPlayback
  <1>10. QED
    BY <1>4, <1>5, <1>6, <1>7, <1>8, <1>9

(* Every step keeps the types of the buffers.                              *)
LEMMA RingsKept == Types /\ Next => RingTypes'
  <1> SUFFICES ASSUME Types, Next PROVE RingTypes'
    OBVIOUS
  <1> USE DownlinkSizes
  <1>1. /\ ref \in Ring(Page, RefSize) /\ InBounds(ref, RefSize)
        /\ playback \in Ring(Page, PlaybackSize) /\ InBounds(playback, PlaybackSize)
        /\ collected \in 0..RefBytes
    BY DEF Types, RingTypes
  <1>2. /\ Received(ref, RefSize) \in Ring(Page, RefSize)
        /\ InBounds(Received(ref, RefSize), RefSize)
        /\ Contiguous(ref, RefSize) \in 0..Len(ref.bytes)
    BY <1>1, HandOut
  <1>3. LET left == Returned(Received(ref, RefSize), RefSize)
        IN left \in Ring(Page, RefSize) /\ InBounds(left, RefSize)
    BY <1>2, TakeBack
  <1>4. CASE PlayReceives
    <2> DEFINE lent == Item(playback, PlaybackSize)
    <2>1. lent \in Seq(Page)
      BY <1>1, HandOut
    <2>2. ref' = IF Fits(ref, lent, RefSize) THEN Sent(ref, lent) ELSE ref
      BY <1>4 DEF PlayReceives
    <2> HIDE DEF lent
    <2>3. ref' \in Ring(Page, RefSize) /\ InBounds(ref', RefSize) /\ collected' = collected
      BY <1>1, <1>4, <2>1, <2>2, PutIn DEF PlayReceives
    <2>4. QED
      BY <1>1, <2>3, PlaybackMoves DEF RingTypes
  <1>5. CASE CollectRef
    <2>1. ref' = Returned(Received(ref, RefSize), RefSize)
      BY <1>5 DEF CollectRef
    <2>2. Contiguous(ref, RefSize) \in Nat /\ RefBytes - collected \in Nat
      BY <1>1, <1>2
    <2>3. collected' \in 0..RefBytes
      BY <1>1, <1>5, <2>2 DEF CollectRef
    <2>4. QED
      BY <1>1, <1>3, <2>1, <2>3, PlaybackMoves DEF RingTypes
  <1>6. CASE DrainRef("ws") \/ DrainRef("afe")
    <2>1. collected' = collected
          /\ (ref' = ref \/ ref' = Returned(Received(ref, RefSize), RefSize))
      BY <1>6 DEF DrainRef, Does
    <2>2. QED
      BY <1>1, <1>3, <2>1, PlaybackMoves DEF RingTypes
  <1>7. CASE Feed
    <2>1. collected' \in 0..RefBytes /\ ref' = ref
      BY <1>7 DEF Feed
    <2>2. QED
      BY <1>1, <2>1, PlaybackMoves DEF RingTypes
  <1>8. CASE UNCHANGED <<ref, collected>>
    BY <1>1, <1>8, PlaybackMoves DEF RingTypes
  <1>9. ASSUME ServerOrNet \/ WsTakes \/ WakeWord \/ PlayReturns \/ DecodeOgg
        PROVE  UNCHANGED <<ref, collected>>
    <2>1. CASE DecodeOgg
      BY <2>1, DecodingLeaves
    <2>2. CASE ServerOrNet \/ WsTakes \/ WakeWord \/ PlayReturns
      BY <2>2
      DEF ServerOrNet, ServerReplies, ServerSendsPage, ServerEnds, ServerBreaksOff, NetDrops,
          Says, device, WsTakes, WakeWord, PlayReturns
    <2>3. QED
      BY <1>9, <2>1, <2>2
  <1>10. ASSUME NEW t \in {"ws", "afe"}, DrainPlayback(t) \/ ResetOgg(t) \/ EnterState(t)
         PROVE  UNCHANGED <<ref, collected>>
    BY <1>10, ResetLeaves DEF DrainPlayback, EnterState, Does
  <1>11. QED
    BY <1>4, <1>5, <1>6, <1>7, <1>8, <1>9, <1>10 DEF Next, Handle, Play, ServerOrNet

(* Every step keeps the bound on what happens from outside.                *)
LEMMA CountKept == Types /\ Next => CountTypes'
  <1> SUFFICES ASSUME Types, Next PROVE CountTypes'
    OBVIOUS
  <1>1. outside' = outside \/ Spend
    <2>1. CASE ServerOrNet \/ WsTakes \/ WakeWord \/ Play \/ CollectRef \/ Feed
      BY <2>1
      DEF ServerOrNet, ServerReplies, ServerSendsPage, ServerEnds, ServerBreaksOff, NetDrops,
          WsTakes, WakeWord, Play, PlayReceives, PlayReturns, CollectRef, Feed, AudioOnly
    <2>2. CASE DecodeOgg
      BY <2>2, DecodingLeaves
    <2>3. ASSUME NEW t \in {"ws", "afe"}, Handle(t) PROVE outside' = outside
      BY <2>3, ResetLeaves DEF Handle, DrainPlayback, DrainRef, EnterState, Does
    <2>4. QED
      BY <2>1, <2>2, <2>3 DEF Next, ServerOrNet
  <1>2. QED
    BY <1>1, DownlinkBounds DEF Types, CountTypes, Spend

LEMMA InitTypes == Init => Types
  <1> SUFFICES ASSUME Init PROVE Types
    OBVIOUS
  <1> USE DownlinkSizes, DownlinkBounds
  <1>1. LineTypes
    BY DEF Init, LineTypes
  <1>2. TaskTypes
    <2>1. <<>> \in Seq(Step)
      OBVIOUS
    <2>2. todo \in [{"ws", "afe"} -> Seq(Step)]
      BY <2>1 DEF Init
    <2>3. QED
      BY <2>2 DEF Init, TaskTypes
  <1>3. StreamTypes /\ FlagTypes
    <2>1. stream \in Streams /\ ws \notin HasPage \cup HasPacket
      BY EmptyStreams DEF Init, HasPage, HasPacket
    <2>2. StreamTypes
      BY <2>1 DEF Init, StreamTypes, Streams
    <2>3. QED
      BY <2>2 DEF Init, FlagTypes
  <1>4. \A size \in Nat \ {0} : EmptyRing \in Ring(Page, size) /\ InBounds(EmptyRing, size)
    BY DEF EmptyRing, Ring, InBounds
  <1>5. RingTypes /\ CountTypes
    BY <1>4 DEF Init, RingTypes, CountTypes
  <1>6. QED
    BY <1>1, <1>2, <1>3, <1>5 DEF Types

(* The types hold at first and are kept.                                   *)
LEMMA TypesKept == Types /\ [Next]_vars => Types'
  <1> SUFFICES ASSUME Types, [Next]_vars PROVE Types'
    OBVIOUS
  <1>1. CASE UNCHANGED vars
    <2>1. LineTypes' /\ StreamTypes'
      BY <1>1 DEF vars, Types, LineTypes, StreamTypes
    <2>2. TaskTypes' /\ FlagTypes'
      BY <1>1 DEF vars, Types, TaskTypes, FlagTypes
    <2>3. RingTypes' /\ CountTypes'
      BY <1>1 DEF vars, Types, RingTypes, CountTypes
    <2>4. QED
      BY <2>1, <2>2, <2>3 DEF Types
  <1>2. CASE Next
    BY <1>2, LineKept, TasksKept, StreamKept, FlagsKept, RingsKept, CountKept DEF Types
  <1>3. QED
    BY <1>1, <1>2

LEMMA AlwaysTyped == Spec => []Types
  <1>1. QED
    BY InitTypes, TypesKept, PTL DEF Spec

(* Every variable keeps its type: among them that neither ring buffer of   *)
(* audio_hal.c holds more than its size, whatever its size.                *)
THEOREM TypeCorrect == Spec => []TypeOK
  <1>1. QED
    BY AlwaysTyped, TypesAreTypeOK, PTL

-----------------------------------------------------------------------------
(* The order of pages and fragments *)

(* The order in which the server sends. *)
Precedes(f, g) ==
  \/ Before(f.page, g.page)
  \/ f.page = g.page /\ f.part = "front" /\ g.part = "back"

(* Between what the server has sent and what it sends next. *)
WasSent(f) ==
  \/ f.page.reply < server.reply
  \/ /\ f.page.reply = server.reply
     /\ \/ f.page.no < server.page
        \/ f.page.no = server.page /\ f.part = "front" /\ server.front

(* The fields of pages.                                                    *)
LEMMA PageFields == \A p \in Page : p.reply \in Nat /\ p.no \in Nat
  BY DownlinkBounds DEF Page

(* The pages, and the fragments they come in, are in a strict order.       *)
LEMMA BeforeIsAnOrder ==
  /\ \A p, q, r \in Page : Before(p, q) /\ Before(q, r) => Before(p, r)
  /\ \A p \in Page : ~Before(p, p)
  BY PageFields DEF Before

LEMMA PrecedesIsAnOrder ==
  /\ \A f, g, h \in Fragment : Precedes(f, g) /\ Precedes(g, h) => Precedes(f, h)
  /\ \A f \in Fragment : ~Precedes(f, f)
  <1>1. ASSUME NEW f \in Fragment, NEW g \in Fragment, NEW h \in Fragment,
               Precedes(f, g), Precedes(g, h)
        PROVE  Precedes(f, h)
    <2>1. f.page \in Page /\ g.page \in Page /\ h.page \in Page
      BY FragmentFields
    <2>2. CASE Before(f.page, g.page)
      BY <1>1, <2>1, <2>2, BeforeIsAnOrder DEF Precedes
    <2>3. CASE f.page = g.page
      BY <1>1, <2>1, <2>3, BeforeIsAnOrder DEF Precedes
    <2>4. QED
      BY <1>1, <2>2, <2>3 DEF Precedes
  <1>2. ASSUME NEW f \in Fragment, Precedes(f, f) PROVE FALSE
    BY <1>2, FragmentFields, BeforeIsAnOrder DEF Precedes
  <1>3. QED
    BY <1>1, <1>2

(* A page that precedes a fragment comes before its page, unless it is the *)
(* half before it.                                                         *)
LEMMA PageBefore ==
  \A p \in Page, f, g \in Fragment :
    Before(p, f.page) /\ (f = g \/ Precedes(f, g)) => Before(p, g.page)
  BY FragmentFields, BeforeIsAnOrder DEF Precedes

-----------------------------------------------------------------------------
(* What is on its way *)

InSync(f) == \E i \in 1..Len(sync) : sync[i] = f

InNet(f) == \E i \in 1..Len(net) : net[i].kind = "audio" /\ net[i].data = f

Upstream(f) == InSync(f) \/ InNet(f)

(* What has been sent and is still to be demultiplexed lies in its order,  *)
(* in ogg_sync first, then in the network.                                 *)
Arriving ==
  /\ \A i, j \in 1..Len(sync) : i < j => Precedes(sync[i], sync[j])
  /\ \A i, j \in 1..Len(net) :
       i < j /\ net[i].kind = "audio" /\ net[j].kind = "audio"
         => Precedes(net[i].data, net[j].data)
  /\ \A f, g \in Fragment : InSync(f) /\ InNet(g) => Precedes(f, g)
  /\ \A f \in Fragment : Upstream(f) => WasSent(f)

(* Before everything that is still to be demultiplexed or to be sent.      *)
Past(p) ==
  /\ \A f \in Fragment : Upstream(f) => Before(p, f.page)
  /\ p.reply < server.reply \/ (p.reply = server.reply /\ p.no < server.page)

(* What is on its way are fragments.                                       *)
LEMMA NetFragments ==
  ASSUME Types
  PROVE  /\ \A i \in 1..Len(net) : net[i].kind = "audio" => net[i].data \in Fragment
         /\ \A i \in 1..Len(sync) : sync[i] \in Fragment
  <1>1. net \in Seq(Message) /\ sync \in Seq(Fragment)
    BY DEF Types, LineTypes
  <1>2. \A i \in 1..Len(net) : net[i] \in Message
    BY <1>1
  <1>3. QED
    BY <1>1, <1>2, SentFragments

(* The server goes forward. *)
LEMMA ServerAdvances ==
  ASSUME Types,
         \/ ServerReplies \/ ServerSendsPage \/ ServerEnds \/ ServerBreaksOff \/ NetDrops
  PROVE  /\ \A f \in Fragment : WasSent(f) => WasSent(f)'
         /\ \A p \in Page :
              p.reply < server.reply \/ (p.reply = server.reply /\ p.no < server.page)
                => \/ p.reply < server'.reply
                   \/ p.reply = server'.reply /\ p.no < server'.page
  <1> USE DownlinkBounds
  <1>1. LineTypes
    BY DEF Types
  <1>2. /\ server.reply \in Nat /\ server.page \in Nat /\ server.page <= LastPage + 2
        /\ server'.reply \in Nat /\ server'.page \in Nat
    <2>1. LineTypes'
      BY <1>1, ServerKeepsLine
    <2>2. QED
      BY <1>1, <2>1 DEF LineTypes
  <1>3. \/ server'.reply = server.reply + 1
        \/ /\ server'.reply = server.reply
           /\ \/ server.page < server'.page
              \/ server'.page = server.page /\ (server'.front \/ server.page = LastPage + 2)
    <2>1. CASE ServerSendsPage
      BY <1>1, <1>2, <2>1, ServerSends
    <2>2. CASE ServerReplies
      BY <1>1, <2>2, ServerMoves
    <2>3. CASE ServerEnds \/ ServerBreaksOff \/ NetDrops
      <3>1. server'.reply = server.reply /\ server'.page = LastPage + 2
        BY <1>1, <2>3, ServerMoves
      <3>2. QED
        BY <1>2, <3>1
    <2>4. QED
      BY <2>1, <2>2, <2>3
  <1>4. \A f \in Fragment : f.page.reply \in Nat /\ f.page.no \in 0..LastPage
    BY FragmentFields DEF Page
  <1>5. \A f \in Fragment : WasSent(f) => WasSent(f)'
    BY <1>2, <1>3, <1>4 DEF WasSent
  <1>6. \A p \in Page : p.reply \in Nat /\ p.no \in 0..LastPage
    BY DEF Page
  <1>7. QED
    BY <1>2, <1>3, <1>5, <1>6

(* A message that carries no audio changes nothing of what is on its way.  *)
LEMMA SaysNoAudio ==
  ASSUME Types, NEW m \in Message, m.kind # "audio", Says(m)
  PROVE  /\ sync' = sync
         /\ \A f : InNet(f)' <=> InNet(f)
         /\ \A i, j \in 1..Len(net') :
              i < j /\ net'[i].kind = "audio" /\ net'[j].kind = "audio"
                => i \in 1..Len(net) /\ j \in 1..Len(net) /\ net'[i] = net[i] /\ net'[j] = net[j]
  <1>1. net \in Seq(Message) /\ net' = Append(net, m) /\ sync' = sync
    BY DEF Types, LineTypes, Says, device
  <1>2. \A i \in 1..Len(net') : (i \in 1..Len(net) /\ net'[i] = net[i]) \/ net'[i] = m
    BY <1>1
  <1>3. \A i \in 1..Len(net) : i \in 1..Len(net') /\ net'[i] = net[i]
    BY <1>1
  <1>4. \A f : InNet(f)' <=> InNet(f)
    BY <1>2, <1>3 DEF InNet
  <1>5. QED
    BY <1>1, <1>2, <1>4

(* A message of audio is the last of what is on its way.                   *)
LEMMA SaysAudio ==
  ASSUME Types, NEW f \in Fragment, Says([kind |-> "audio", data |-> f])
  PROVE  /\ sync' = sync
         /\ \A g : InNet(g)' <=> InNet(g) \/ g = f
         /\ \A i, j \in 1..Len(net') :
              i < j /\ net'[i].kind = "audio" /\ net'[j].kind = "audio"
                => /\ i \in 1..Len(net) /\ net'[i] = net[i]
                   /\ \/ j \in 1..Len(net) /\ net'[j] = net[j]
                      \/ net'[j].data = f
  <1> DEFINE m == [kind |-> "audio", data |-> f]
  <1>1. /\ net \in Seq(Message) /\ m \in Message /\ sync' = sync
        /\ net' = Append(net, m) /\ m.kind = "audio" /\ m.data = f
    BY DEF Types, LineTypes, Says, device, Message
  <1> HIDE DEF m
  <1>2. /\ Len(net') = Len(net) + 1 /\ Len(net) \in Nat
        /\ \A i \in 1..Len(net) : net'[i] = net[i]
        /\ net'[Len(net) + 1] = m
    BY <1>1
  <1>3. \A g : InNet(g) \/ g = f => InNet(g)'
    <2>1. \A g : InNet(g) => InNet(g)'
      BY <1>2 DEF InNet
    <2>2. Len(net) + 1 \in 1..Len(net')
      BY <1>2
    <2>3. InNet(f)'
      BY <1>1, <1>2, <2>2 DEF InNet
    <2>4. QED
      BY <2>1, <2>3
  <1>4. \A g : InNet(g)' => InNet(g) \/ g = f
    BY <1>1, <1>2 DEF InNet
  <1>5. QED
    BY <1>1, <1>2, <1>3, <1>4

(* What the server says comes after all that is on its way.                *)
LEMMA ServerKeepsOrder ==
  ASSUME Types, Arriving,
         \/ ServerReplies \/ ServerSendsPage \/ ServerEnds \/ ServerBreaksOff \/ NetDrops
  PROVE  Arriving' /\ \A p \in Page : Past(p) => Past(p)'
  <1>1. /\ \A f \in Fragment : WasSent(f) => WasSent(f)'
        /\ \A p \in Page :
             p.reply < server.reply \/ (p.reply = server.reply /\ p.no < server.page)
               => \/ p.reply < server'.reply
                  \/ p.reply = server'.reply /\ p.no < server'.page
    BY ServerAdvances
  <1>2. CASE ServerSendsPage
    <2>1. PICK part \in {"all", "front", "back"} :
            /\ part = "back" <=> server.front
            /\ Says([kind |-> "audio", data |-> Sends(part)])
            /\ Sends(part) \in Fragment
            /\ server'.reply = server.reply
            /\ part = "front" => server'.page = server.page /\ server'.front
            /\ part # "front" => server'.page = server.page + 1 /\ ~server'.front
      BY <1>2, ServerSends DEF Types
    <2>next. PICK new \in Fragment : new = Sends(part)
      BY <2>1
    <2>2. new.page.reply = server.reply /\ new.page.no = server.page /\ new.part = part
      BY <2>next DEF Sends
    <2>3. /\ sync' = sync
          /\ \A g : InNet(g)' <=> InNet(g) \/ g = new
          /\ \A i, j \in 1..Len(net') :
               i < j /\ net'[i].kind = "audio" /\ net'[j].kind = "audio"
                 => /\ i \in 1..Len(net) /\ net'[i] = net[i]
                    /\ \/ j \in 1..Len(net) /\ net'[j] = net[j]
                       \/ net'[j].data = new
      BY <2>1, <2>next, SaysAudio
    <2>4. server.reply \in Nat /\ server.page \in Nat
      BY DEF Types, LineTypes
    <2>5. \A f \in Fragment : WasSent(f) => Precedes(f, new)
      <3>1. ASSUME NEW f \in Fragment, WasSent(f) PROVE Precedes(f, new)
        <4>1. /\ f.page.reply \in Nat /\ f.page.no \in Nat /\ f.page \in Page /\ new.page \in Page
          BY <2>4, FragmentFields, PageFields
        <4>2. CASE f.page.reply = server.reply /\ f.page.no = server.page
          <5>1. f.page = new.page
            BY <2>2, <4>1, <4>2 DEF Page
          <5>2. QED
            BY <2>1, <2>2, <2>4, <3>1, <4>2, <5>1 DEF WasSent, Precedes
        <4>3. CASE ~(f.page.reply = server.reply /\ f.page.no = server.page)
          BY <2>2, <3>1, <4>1, <4>3 DEF WasSent, Precedes, Before
        <4>4. QED
          BY <4>2, <4>3
      <3>2. QED
        BY <3>1
    <2>6. WasSent(new)'
      BY <2>1, <2>2, <2>4 DEF WasSent
    <2>7. \A i \in 1..Len(net) : net[i].kind = "audio" =>
            Precedes(net[i].data, new) /\ net[i].data \in Fragment
      <3>1. \A i \in 1..Len(net) : net[i].kind = "audio" =>
              Upstream(net[i].data) /\ net[i].data \in Fragment
        BY NetFragments DEF Upstream, InNet
      <3>2. QED
        BY <2>5, <3>1 DEF Arriving
    <2>8. \A f, g \in Fragment : InSync(f)' /\ InNet(g)' => Precedes(f, g)
      <3>1. \A f : InSync(f)' <=> InSync(f)
        BY <2>3 DEF InSync
      <3>2. QED
        BY <2>3, <2>5, <3>1 DEF Arriving, Upstream
    <2>9. \A f \in Fragment : Upstream(f)' => WasSent(f)'
      <3>1. \A f : Upstream(f)' => Upstream(f) \/ f = new
        BY <2>3 DEF Upstream, InSync
      <3>2. QED
        BY <1>1, <2>6, <3>1 DEF Arriving
    <2>10. \A i, j \in 1..Len(net') :
             i < j /\ net'[i].kind = "audio" /\ net'[j].kind = "audio"
               => Precedes(net'[i].data, net'[j].data)
      BY <2>3, <2>7 DEF Arriving
    <2>11. Arriving'
      BY <2>3, <2>8, <2>9, <2>10 DEF Arriving
    <2>12. ASSUME NEW p \in Page, Past(p) PROVE Past(p)'
      <3>1. Before(p, new.page)
        BY <2>2, <2>12 DEF Past, Before
      <3>2. \A f : Upstream(f)' => Upstream(f) \/ f = new
        BY <2>3 DEF Upstream, InSync
      <3>3. QED
        BY <1>1, <2>12, <3>1, <3>2 DEF Past
    <2>13. QED
      BY <2>11, <2>12
  <1>3. CASE ServerReplies \/ ServerEnds \/ ServerBreaksOff \/ NetDrops
    <2>1. /\ sync' = sync
          /\ \A f : InNet(f)' => InNet(f)
          /\ \A i, j \in 1..Len(net') :
               i < j /\ net'[i].kind = "audio" /\ net'[j].kind = "audio"
                 => i \in 1..Len(net) /\ j \in 1..Len(net) /\ net'[i] = net[i] /\ net'[j] = net[j]
      <3>1. CASE NetDrops
        BY <3>1 DEF NetDrops, device, InNet
      <3>2. CASE ~NetDrops
        <4>1. PICK k \in {"query_end", "tts_ended", "clear_cache", "fatal"} : Says([kind |-> k])
          BY <1>3, <3>2 DEF ServerReplies, ServerEnds, ServerBreaksOff
        <4>2. [kind |-> k] \in Message /\ [kind |-> k].kind # "audio"
          BY DEF Message
        <4>3. QED
          BY <4>1, <4>2, SaysNoAudio
      <3>3. QED
        BY <3>1, <3>2
    <2>2. \A f : InSync(f)' <=> InSync(f)
      BY <2>1 DEF InSync
    <2>3. \A f : Upstream(f)' => Upstream(f)
      BY <2>1, <2>2 DEF Upstream
    <2>4. \A f, g \in Fragment : InSync(f)' /\ InNet(g)' => Precedes(f, g)
      BY <2>1, <2>2 DEF Arriving
    <2>5. \A f \in Fragment : Upstream(f)' => WasSent(f)'
      BY <1>1, <2>3 DEF Arriving
    <2>6. Arriving'
      BY <2>1, <2>4, <2>5 DEF Arriving
    <2>7. \A p \in Page : Past(p) => Past(p)'
      BY <1>1, <2>3 DEF Past
    <2>8. QED
      BY <2>6, <2>7
  <1>4. QED
    BY <1>2, <1>3

(* A fragment that is taken from the connection is the last in ogg_sync    *)
(* and the first to come.                                                  *)
LEMMA WsTakesInOrder ==
  ASSUME Types, Arriving, WsTakes
  PROVE  /\ \A f \in Fragment : Upstream(f)' <=> Upstream(f)
         /\ Arriving' /\ \A p \in Page : Past(p) => Past(p)'
  <1>1. /\ net \in Seq(Message) /\ sync \in Seq(Fragment)
        /\ net # <<>> /\ net' = Tail(net) /\ server' = server
    BY MessageTaken DEF Types, LineTypes
  <1>2. /\ Head(net) = net[1] /\ 1 \in 1..Len(net) /\ Len(net') = Len(net) - 1
        /\ \A i \in 1..Len(net') : i + 1 \in 1..Len(net) /\ net'[i] = net[i + 1]
        /\ \A i \in 1..Len(net) : i > 1 => i - 1 \in 1..Len(net') /\ net'[i - 1] = net[i]
    BY <1>1
  <1>3. \A f : InNet(f)' => InNet(f)
    BY <1>2 DEF InNet
  <1>4. \A f : InNet(f) => InNet(f)' \/ (net[1].kind = "audio" /\ net[1].data = f)
    <2>1. ASSUME NEW f, NEW i \in 1..Len(net), net[i].kind = "audio", net[i].data = f, i # 1
          PROVE  InNet(f)'
      BY <1>2, <2>1 DEF InNet
    <2>2. QED
      BY <2>1 DEF InNet
  <1>5. \A i, j \in 1..Len(net') :
          i < j /\ net'[i].kind = "audio" /\ net'[j].kind = "audio"
            => Precedes(net'[i].data, net'[j].data)
    <2>1. \A i, j \in 1..Len(net') : i < j => i + 1 < j + 1
      OBVIOUS
    <2>2. QED
      BY <1>2, <2>1 DEF Arriving
  <1>6. CASE net[1].kind # "audio"
    <2>1. sync' = sync
      BY <1>2, <1>6, MessageTaken DEF Types
    <2>2. \A f \in Fragment : InSync(f)' <=> InSync(f)
      BY <2>1 DEF InSync
    <2>3. \A f \in Fragment : Upstream(f)' <=> Upstream(f)
      BY <1>3, <1>4, <1>6, <2>2 DEF Upstream
    <2>4. \A f, g \in Fragment : InSync(f)' /\ InNet(g)' => Precedes(f, g)
      BY <1>3, <2>2 DEF Arriving
    <2>5. Arriving'
      BY <1>1, <1>5, <2>1, <2>3, <2>4 DEF Arriving, WasSent
    <2>6. \A p \in Page : Past(p) => Past(p)'
      BY <1>1, <2>3 DEF Past
    <2>7. QED
      BY <2>3, <2>5, <2>6
  <1>7. CASE net[1].kind = "audio"
    <2>1. PICK new \in Fragment : new = net[1].data
      BY <1>2, <1>7, NetFragments
    <2>2. sync' = Append(sync, new)
      BY <1>2, <1>7, <2>1, MessageTaken DEF Types
    <2>3. /\ Len(sync') = Len(sync) + 1 /\ Len(sync) \in Nat
          /\ \A i \in 1..Len(sync) : sync'[i] = sync[i]
          /\ sync'[Len(sync) + 1] = new
      BY <1>1, <2>2
    <2>4. \A f : InSync(f)' <=> InSync(f) \/ f = new
      <3>1. \A f : InSync(f)' => InSync(f) \/ f = new
        BY <2>3 DEF InSync
      <3>2. \A f : InSync(f) => InSync(f)'
        BY <2>3 DEF InSync
      <3>3. Len(sync) + 1 \in 1..Len(sync')
        BY <2>3
      <3>4. InSync(new)'
        BY <2>3, <3>3 DEF InSync
      <3>5. QED
        BY <3>1, <3>2, <3>4
    <2>5. InNet(new)
      BY <1>2, <1>7, <2>1 DEF InNet
    <2>6. \A f \in Fragment : Upstream(f)' <=> Upstream(f)
      BY <1>3, <1>4, <2>1, <2>4, <2>5 DEF Upstream
    <2>7. \A g \in Fragment : InNet(g)' => Precedes(new, g)
      <3>1. ASSUME NEW g \in Fragment, NEW i \in 1..Len(net'), net'[i].kind = "audio",
                   net'[i].data = g
            PROVE  Precedes(new, g)
        <4>1. i + 1 \in 1..Len(net) /\ 1 < i + 1 /\ net[i + 1] = net'[i]
          BY <1>2
        <4>2. QED
          BY <1>2, <1>7, <2>1, <3>1, <4>1 DEF Arriving
      <3>2. QED
        BY <3>1 DEF InNet
    <2>8. \A f, g \in Fragment : InSync(f)' /\ InNet(g)' => Precedes(f, g)
      BY <1>3, <2>4, <2>7 DEF Arriving
    <2>9. \A i, j \in 1..Len(sync') : i < j => Precedes(sync'[i], sync'[j])
      <3>1. \A f \in Fragment : InSync(f) => Precedes(f, new)
        BY <2>5 DEF Arriving
      <3>2. \A i \in 1..Len(sync) : InSync(sync[i]) /\ sync[i] \in Fragment
        BY NetFragments DEF InSync
      <3>3. QED
        BY <2>3, <3>1, <3>2 DEF Arriving
    <2>10. \A f \in Fragment : Upstream(f)' => WasSent(f)'
      BY <1>1, <2>6 DEF Arriving, WasSent
    <2>11. Arriving'
      BY <1>5, <2>8, <2>9, <2>10 DEF Arriving
    <2>12. \A p \in Page : Past(p) => Past(p)'
      BY <1>1, <2>6 DEF Past
    <2>13. QED
      BY <2>6, <2>11, <2>12
  <1>8. QED
    BY <1>6, <1>7

(* What leaves ogg_sync comes before all that stays.                       *)
LEMMA SyncStaysInOrder ==
  ASSUME Types, Arriving, NEW n \in Nat, SyncGone(n)
  PROVE  /\ \A f \in Fragment : Upstream(f)' => Upstream(f)
         /\ \A f \in Fragment : Upstream(f) =>
              Upstream(f)' \/ \E i \in 1..n : i \in 1..Len(sync) /\ f = sync[i]
         /\ \A i \in 1..n, f \in Fragment : Upstream(f)' => Precedes(sync[i], f)
         /\ Arriving' /\ \A p \in Page : Past(p) => Past(p)'
  <1>1. sync \in Seq(Fragment) /\ n <= Len(sync) /\ UNCHANGED <<net, server>>
        /\ sync' = SubSeq(sync, n + 1, Len(sync))
    BY DEF Types, LineTypes, SyncGone
  <1>2. /\ Len(sync') = Len(sync) - n
        /\ \A i \in 1..Len(sync') : n + i \in 1..Len(sync) /\ sync'[i] = sync[n + i]
        /\ \A i \in 1..Len(sync) :
             i > n => i - n \in 1..Len(sync') /\ sync'[i - n] = sync[i]
    BY <1>1
  <1>3. \A f : InSync(f)' => InSync(f)
    BY <1>2 DEF InSync
  <1>4. \A f : InSync(f) => InSync(f)' \/ \E i \in 1..n : i \in 1..Len(sync) /\ f = sync[i]
    <2>1. ASSUME NEW f, NEW i \in 1..Len(sync), f = sync[i], ~(i \in 1..n)
          PROVE  InSync(f)'
      <3>1. i > n
        BY <2>1
      <3>2. i - n \in 1..Len(sync') /\ sync'[i - n] = f
        BY <1>2, <2>1, <3>1
      <3>3. QED
        BY <3>2 DEF InSync
    <2>2. QED
      BY <2>1 DEF InSync
  <1>5. \A f : InNet(f)' <=> InNet(f)
    BY <1>1 DEF InNet
  <1>6. /\ \A f \in Fragment : Upstream(f)' => Upstream(f)
        /\ \A f \in Fragment : Upstream(f) =>
             Upstream(f)' \/ \E i \in 1..n : i \in 1..Len(sync) /\ f = sync[i]
    BY <1>3, <1>4, <1>5 DEF Upstream
  <1>7. \A i \in 1..n, f \in Fragment : Upstream(f)' => Precedes(sync[i], f)
    <2>1. ASSUME NEW i \in 1..n, NEW f \in Fragment, InNet(f) PROVE Precedes(sync[i], f)
      <3>1. i \in 1..Len(sync)
        BY <1>1
      <3>2. sync[i] \in Fragment /\ InSync(sync[i])
        BY <3>1, NetFragments DEF InSync
      <3>3. QED
        BY <2>1, <3>2 DEF Arriving
    <2>2. ASSUME NEW i \in 1..n, NEW j \in 1..Len(sync') PROVE Precedes(sync[i], sync'[j])
      <3>1. i \in 1..Len(sync) /\ n + j \in 1..Len(sync) /\ i < n + j /\ sync'[j] = sync[n + j]
        BY <1>1, <1>2
      <3>2. QED
        BY <3>1 DEF Arriving
    <2>3. QED
      BY <1>5, <2>1, <2>2 DEF Upstream, InSync
  <1>8. \A i, j \in 1..Len(sync') : i < j => Precedes(sync'[i], sync'[j])
    <2>1. \A i, j \in 1..Len(sync') : i < j => n + i < n + j
      BY <1>2
    <2>2. QED
      BY <1>2, <2>1 DEF Arriving
  <1>9. \A f, g \in Fragment : InSync(f)' /\ InNet(g)' => Precedes(f, g)
    BY <1>3, <1>5 DEF Arriving
  <1>10. \A f \in Fragment : Upstream(f)' => WasSent(f)'
    BY <1>1, <1>6 DEF Arriving, WasSent
  <1>11. \A i, j \in 1..Len(net') :
           i < j /\ net'[i].kind = "audio" /\ net'[j].kind = "audio"
             => Precedes(net'[i].data, net'[j].data)
    BY <1>1 DEF Arriving
  <1>12. Arriving'
    BY <1>8, <1>9, <1>10, <1>11 DEF Arriving
  <1>13. \A p \in Page : Past(p) => Past(p)'
    BY <1>1, <1>6 DEF Past
  <1>14. QED
    BY <1>6, <1>7, <1>12, <1>13

(* Every step keeps what arrives in order, and what is past stays past.    *)
LEMMA LineStaysInOrder ==
  ASSUME Types, Arriving, Next
  PROVE  Arriving' /\ \A p \in Page : Past(p) => Past(p)'
  <1>1. CASE ServerOrNet
    BY <1>1, ServerKeepsOrder DEF ServerOrNet
  <1>2. CASE WsTakes
    BY <1>2, WsTakesInOrder
  <1>3. CASE ~WsTakes /\ ~ServerOrNet
    <2>1. PICK n \in Nat : SyncGone(n)
      BY <1>3, SyncMoves DEF Types, LineTypes
    <2>2. QED
      BY <2>1, SyncStaysInOrder
  <1>4. QED
    BY <1>1, <1>2, <1>3

-----------------------------------------------------------------------------
(* What the decoding has at hand, the packets of the stream and playback_rb *)

(* The packets of the stream come in their order, before all that arrives. *)
Demuxed ==
  /\ \A i \in 1..Len(stream.packets) :
       stream.packets[i] # Hole => Past(stream.packets[i])
  /\ \A i, j \in 1..Len(stream.packets) :
       i < j /\ stream.packets[i] # Hole /\ stream.packets[j] # Hole
         => Before(stream.packets[i], stream.packets[j])

(* Before the packets of the stream as well. *)
Earlier(p) ==
  /\ Past(p)
  /\ \A i \in 1..Len(stream.packets) :
       stream.packets[i] # Hole => Before(p, stream.packets[i])

(* A page at hand comes after the packets of the stream, a packet at hand  *)
(* before them, and both after what was decoded.                           *)
AtHand ==
  /\ ws \in HasPage =>
       /\ Past(item)
       /\ \A i \in 1..Len(stream.packets) :
            stream.packets[i] # Hole => Before(stream.packets[i], item)
  /\ ws \in HasPacket => Earlier(item)
  /\ ws \in HasPage \cup HasPacket =>
       \A i \in 1..Len(playback.bytes) : Before(playback.bytes[i], item)

Decoded ==
  /\ \A i \in 1..Len(playback.bytes) : Earlier(playback.bytes[i])
  /\ \A i, j \in 1..Len(playback.bytes) :
       i < j => Before(playback.bytes[i], playback.bytes[j])

Ordered == Arriving /\ Demuxed /\ AtHand /\ Decoded

(* What is in the stream and in the playback buffer.                       *)
LEMMA PacketPages ==
  ASSUME Types
  PROVE  /\ stream.packets \in Seq(Page \cup {Hole})
         /\ \A i \in 1..Len(stream.packets) :
              stream.packets[i] # Hole => stream.packets[i] \in Page
         /\ playback.bytes \in Seq(Page)
         /\ \A i \in 1..Len(playback.bytes) : playback.bytes[i] \in Page
  <1>1. stream.packets \in Seq(Page \cup {Hole}) /\ playback.bytes \in Seq(Page)
    BY DEF Types, StreamTypes, RingTypes, Ring
  <1>2. QED
    BY <1>1

(* A stream grows by a page, with or without a hole before it.             *)
LEMMA GrowsByPage ==
  ASSUME NEW page \in Page, NEW old \in Seq(Page \cup {Hole}), Grows(page, old)
  PROVE  /\ \A i \in 1..Len(stream'.packets) :
              \/ i \in 1..Len(old) /\ stream'.packets[i] = old[i]
              \/ stream'.packets[i] = Hole
              \/ i = Len(stream'.packets) /\ stream'.packets[i] = page
         /\ Len(stream'.packets) \in Nat
  <1>1. CASE stream'.packets = Append(old, page)
    BY <1>1
  <1>2. CASE stream'.packets = Append(Append(old, Hole), page)
    <2> DEFINE mid == Append(old, Hole)
    <2>1. /\ mid \in Seq(Page \cup {Hole}) /\ Len(mid) = Len(old) + 1
          /\ \A i \in 1..Len(old) : mid[i] = old[i]
          /\ mid[Len(old) + 1] = Hole
      OBVIOUS
    <2> HIDE DEF mid
    <2>2. /\ \A i \in 1..Len(stream'.packets) :
               \/ i \in 1..Len(mid) /\ stream'.packets[i] = mid[i]
               \/ i = Len(stream'.packets) /\ stream'.packets[i] = page
          /\ Len(stream'.packets) \in Nat
      BY <1>2, <2>1 DEF mid
    <2>3. \A i \in 1..Len(mid) : i \in 1..Len(old) \/ i = Len(old) + 1
      BY <2>1
    <2>4. QED
      BY <2>1, <2>2, <2>3
  <1>3. QED
    BY <1>1, <1>2 DEF Grows

(* Else it keeps its packets, loses the first, or all. *)
PacketsStay(k) ==
  \A i \in 1..Len(stream'.packets) :
    k + i \in 1..Len(stream.packets) /\ stream'.packets[i] = stream.packets[k + i]

LEMMA PacketsMove ==
  ASSUME Types, Next
  PROVE  \/ TakePage /\ item.reply = stream.serial /\ Grows(item, stream.packets)
         \/ \E k \in 0..1 : PacketsStay(k)
  <1>1. stream.packets \in Seq(Page \cup {Hole})
    BY PacketPages
  <1>2. CASE stream' = stream
    <2>1. PacketsStay(0)
      BY <1>1, <1>2 DEF PacketsStay
    <2>2. QED
      BY <2>1
  <1>3. CASE stream'.packets = <<>>
    <2>1. PacketsStay(0)
      BY <1>3 DEF PacketsStay
    <2>2. QED
      BY <2>1
  <1>4. CASE stream.packets # <<>> /\ stream'.packets = Tail(stream.packets)
    <2>1. \A i \in 1..Len(stream'.packets) :
            i + 1 \in 1..Len(stream.packets) /\ stream'.packets[i] = stream.packets[i + 1]
      BY <1>1, <1>4, Ends
    <2>2. \A i \in 1..Len(stream'.packets) : i + 1 = 1 + i
      OBVIOUS
    <2>3. PacketsStay(1)
      BY <2>1, <2>2 DEF PacketsStay
    <2>4. QED
      BY <2>3
  <1>5. CASE TakePage
    BY <1>2, <1>5, PageTaken
  <1>6. CASE NoMorePackets \/ PacketOut
    BY <1>2, <1>4, <1>6, PacketTaken
  <1>7. CASE FirstPage \/ NewSerial
    <2>1. stream' = stream \/ stream' = NewStream(item.reply)
      BY <1>7 DEF FirstPage, NewSerial
    <2>2. stream' = NewStream(item.reply) => stream'.packets = <<>>
      BY DEF NewStream
    <2>3. QED
      BY <1>2, <1>3, <2>1, <2>2
  <1>8. CASE Resets
    <2>1. stream' = stream \/ stream' = NoStream
      BY <1>8, ResetLeaves DEF Resets
    <2>2. stream' = NoStream => stream'.packets = <<>>
      BY DEF NoStream
    <2>3. QED
      BY <1>2, <1>3, <2>1, <2>2
  <1>9. CASE \/ CopyData \/ PageOut \/ NoMorePages \/ StreamInited \/ TestBos \/ TestParsed
             \/ SkipHeader \/ HeadersParsed \/ Decode \/ StorePcm
    BY <1>2, <1>9
    DEF CopyData, PageOut, NoMorePages, StreamInited, TestBos, TestParsed, SkipHeader,
        HeadersParsed, Decode, StorePcm
  <1>10. CASE WsTakes
    BY <1>2, <1>10 DEF WsTakes
  <1>11. CASE ~WsTakes /\ ~DecodeOgg /\ ~Resets
    BY <1>2, <1>11, OthersLeave
  <1>12. QED
    BY <1>5, <1>6, <1>7, <1>8, <1>9, <1>10, <1>11 DEF DecodeOgg

(* What is at hand is what was, unless a page or a packet is taken out.    *)
LEMMA HandStays ==
  ASSUME Types, Next
  PROVE  /\ ws' \in HasPage /\ ~PageOut =>
              ws \in HasPage /\ item' = item /\ ~TakePage /\ ~StorePcm
         /\ ws' \in HasPacket /\ ~PacketOut =>
              ws \in HasPacket /\ item' = item /\ ~TakePage /\ ~StorePcm
  <1>1. CASE DecodeOgg
    <2>1. CASE \/ CopyData \/ NoMorePages \/ FirstPage \/ StreamInited
               \/ TestBos \/ NewSerial \/ TakePage
      BY <2>1
      DEF CopyData, NoMorePages, FirstPage, StreamInited, TestBos, NewSerial, TakePage, StorePcm,
          Uses, HasPage, HasPacket
    <2>2. CASE PageOut \/ PacketOut
      BY <2>2 DEF PageOut, PacketOut, HasPage, HasPacket
    <2>3. CASE \/ NoMorePackets \/ TestParsed \/ SkipHeader \/ HeadersParsed \/ Decode \/ StorePcm
      BY <2>3
      DEF NoMorePackets, TestParsed, SkipHeader, HeadersParsed, Decode, StorePcm, TakePage,
          Uses, HasPage, HasPacket
    <2>4. QED
      BY <1>1, <2>1, <2>2, <2>3 DEF DecodeOgg
  <1>2. CASE ~DecodeOgg
    <2>1. CASE WsTakes
      BY <2>1, MessageTaken DEF Types, HasPage, HasPacket
    <2>2. CASE Resets
      BY <1>2, <2>2, ResetLeaves DEF Resets, HasPage, HasPacket, DecodeOgg
    <2>3. CASE ~WsTakes /\ ~Resets
      BY <1>2, <2>3, OthersLeave DEF DecodeOgg
    <2>4. QED
      BY <2>1, <2>2, <2>3
  <1>3. QED
    BY <1>1, <1>2

(* The page that leaves ogg_sync comes before all that stays there.        *)
LEMMA PageIsFirst ==
  ASSUME Types, Arriving, PageOut, NEW page \in Page, page = sync[1].page
  PROVE  Past(page)' /\ \A p \in Page : Past(p) => Before(p, page)
  <1>1. sync \in Seq(Fragment)
    BY DEF Types, LineTypes
  <1>2. PICK n \in 1..2 : SyncGone(n) /\ PageParts(n)
    BY <1>1, PageLeavesSync
  <1>3. n \in 1..Len(sync) /\ 1 \in 1..Len(sync) /\ n \in Nat /\ n \in 1..n
        /\ server' = server
    BY <1>1, <1>2 DEF SyncGone
  <1>4. PICK last \in Fragment : last = sync[n]
    BY <1>3, NetFragments
  <1>5. last.page = page /\ last.part \in {"all", "back"}
    BY <1>2, <1>4 DEF PageParts
  <1>6. \A f \in Fragment : Upstream(f)' => Precedes(last, f)
    BY <1>2, <1>3, <1>4, SyncStaysInOrder
  <1>7. \A f \in Fragment : Upstream(f)' => Before(page, f.page)
    BY <1>5, <1>6 DEF Precedes
  <1>8. Upstream(last)
    BY <1>3, <1>4 DEF Upstream, InSync
  <1>9. page.reply < server.reply \/ (page.reply = server.reply /\ page.no < server.page)
    <2>1. WasSent(last)
      BY <1>8 DEF Arriving
    <2>2. QED
      BY <1>5, <2>1 DEF WasSent
  <1>10. Past(page)'
    BY <1>3, <1>7, <1>9 DEF Past
  <1>11. \A p \in Page : Past(p) => Before(p, page)
    BY <1>5, <1>8 DEF Past
  <1>12. QED
    BY <1>10, <1>11

(* What ogg_sync_pageout finds is the page of its first fragment. *)
LEMMA PageFound ==
  ASSUME Types, PageOut
  PROVE  /\ sync # <<>> /\ item' = sync[1].page /\ item' \in Page /\ ws' = "page"
         /\ sync[1] \in Fragment
  <1>1. sync # <<>> /\ sync \in Seq(Fragment) /\ item' = sync[1].page /\ ws' = "page"
    BY DEF PageOut, WholePage, Types, LineTypes
  <1>2. sync[1] \in Fragment
    BY <1>1, Ends
  <1>3. QED
    BY <1>1, <1>2, FragmentFields

(* Every step keeps the packets of the stream in order.                    *)
LEMMA DemuxedKept ==
  ASSUME Types, Ordered, Next
  PROVE  Demuxed'
  <1>1. PICK old \in Seq(Page \cup {Hole}) : old = stream.packets
    BY PacketPages
  <1>2. \A p \in Page : Past(p) => Past(p)'
    BY LineStaysInOrder DEF Ordered
  <1>3. \A i \in 1..Len(old) : old[i] # Hole => old[i] \in Page /\ Past(old[i])
    BY <1>1, PacketPages DEF Ordered, Demuxed
  <1>4. \A i \in 1..Len(old) : old[i] # Hole => Past(old[i])'
    <2>1. \A p \in Page : (\E i \in 1..Len(old) : p = old[i] /\ p # Hole) => Past(p)'
      BY <1>2, <1>3
    <2>2. QED
      BY <1>3, <2>1
  <1>5. \A i, j \in 1..Len(old) :
          i < j /\ old[i] # Hole /\ old[j] # Hole => Before(old[i], old[j])
    BY <1>1 DEF Ordered, Demuxed
  <1>6. PICK now : now = stream'.packets
    OBVIOUS
  <1>7. SUFFICES /\ \A i \in 1..Len(now) : now[i] # Hole => Past(now[i])'
                 /\ \A i, j \in 1..Len(now) :
                      i < j /\ now[i] # Hole /\ now[j] # Hole => Before(now[i], now[j])
    BY <1>6 DEF Demuxed
  <1>8. ASSUME NEW k \in 0..1, PacketsStay(k)
        PROVE  /\ \A i \in 1..Len(now) : now[i] # Hole => Past(now[i])'
               /\ \A i, j \in 1..Len(now) :
                    i < j /\ now[i] # Hole /\ now[j] # Hole => Before(now[i], now[j])
    <2>1. \A i \in 1..Len(now) : k + i \in 1..Len(old) /\ now[i] = old[k + i]
      BY <1>1, <1>6, <1>8 DEF PacketsStay
    <2>2. \A i, j \in 1..Len(now) : i < j => k + i < k + j
      OBVIOUS
    <2>3. QED
      BY <1>4, <1>5, <2>1, <2>2
  <1>9. CASE TakePage /\ Grows(item, stream.packets)
    <2>1. item \in Page /\ ws \in HasPage
      BY <1>9, PageTaken DEF TakePage, HasPage
    <2>2. PICK page \in Page : page = item
      BY <2>1
    <2>3. Past(page)' /\ \A i \in 1..Len(old) : old[i] # Hole => Before(old[i], page)
      BY <1>1, <1>2, <2>1, <2>2 DEF Ordered, AtHand
    <2>4. /\ \A i \in 1..Len(now) :
               \/ i \in 1..Len(old) /\ now[i] = old[i]
               \/ now[i] = Hole
               \/ i = Len(now) /\ now[i] = page
          /\ Len(now) \in Nat
      BY <1>1, <1>6, <1>9, <2>2, GrowsByPage
    <2>5. \A i \in 1..Len(now) : now[i] # Hole => Past(now[i])'
      BY <1>4, <2>3, <2>4
    <2>6. ASSUME NEW i \in 1..Len(now), NEW j \in 1..Len(now), i < j,
                 now[i] # Hole, now[j] # Hole
          PROVE  Before(now[i], now[j])
      <3>1. i # Len(now)
        BY <2>4, <2>6
      <3>2. i \in 1..Len(old) /\ now[i] = old[i]
        BY <2>4, <2>6, <3>1
      <3>3. QED
        BY <1>5, <2>3, <2>4, <2>6, <3>2
    <2>7. QED
      BY <2>5, <2>6
  <1>10. QED
    BY <1>8, <1>9, PacketsMove

(* What comes before the packets of the stream still does.                 *)
LEMMA EarlierKept ==
  ASSUME Types, Ordered, Next, NEW p \in Page, Earlier(p), TakePage => Before(p, item)
  PROVE  Earlier(p)'
  <1>1. Past(p)'
    BY LineStaysInOrder DEF Ordered, Earlier
  <1>2. PICK old \in Seq(Page \cup {Hole}) : old = stream.packets
    BY PacketPages
  <1>3. \A i \in 1..Len(old) : old[i] # Hole => Before(p, old[i])
    BY <1>2 DEF Earlier
  <1>4. PICK now : now = stream'.packets
    OBVIOUS
  <1>5. SUFFICES \A i \in 1..Len(now) : now[i] # Hole => Before(p, now[i])
    BY <1>1, <1>4 DEF Earlier
  <1>6. ASSUME NEW k \in 0..1, PacketsStay(k)
        PROVE  \A i \in 1..Len(now) : now[i] # Hole => Before(p, now[i])
    <2>1. \A i \in 1..Len(now) : k + i \in 1..Len(old) /\ now[i] = old[k + i]
      BY <1>2, <1>4, <1>6 DEF PacketsStay
    <2>2. QED
      BY <1>3, <2>1
  <1>7. CASE TakePage /\ Grows(item, stream.packets)
    <2>1. PICK page \in Page : page = item
      BY <1>7, PageTaken
    <2>2. \A i \in 1..Len(now) :
            \/ i \in 1..Len(old) /\ now[i] = old[i]
            \/ now[i] = Hole
            \/ i = Len(now) /\ now[i] = page
      BY <1>2, <1>4, <1>7, <2>1, GrowsByPage
    <2>3. QED
      BY <1>3, <1>7, <2>1, <2>2
  <1>8. QED
    BY <1>6, <1>7, PacketsMove

(* Every step keeps the order of what is at hand. *)
LEMMA HandKept ==
  ASSUME Types, Ordered, Next, NEW n \in Nat, PlaybackGone(n)
  PROVE  AtHand'
  <1> USE DEF Ordered
  <1>1. PICK bytes \in Seq(Page) : bytes = playback.bytes
    BY PacketPages
  <1>2. PICK left : left = playback'.bytes
    OBVIOUS
  <1>3. \A i \in 1..Len(left) : n + i \in 1..Len(bytes) /\ left[i] = bytes[n + i]
    BY <1>1, <1>2 DEF PlaybackGone
  <1>4. PICK old \in Seq(Page \cup {Hole}) : old = stream.packets
    BY PacketPages
  <1>5. /\ \A i \in 1..Len(old) : old[i] # Hole => old[i] \in Page /\ Past(old[i])
        /\ \A i \in 1..Len(bytes) : bytes[i] \in Page /\ Earlier(bytes[i])
    BY <1>1, <1>4, PacketPages DEF Demuxed, Decoded
  <1>6. CASE PageOut
    <2>1. PICK page \in Page : page = sync[1].page /\ item' = page /\ ws' = "page"
      BY <1>6, PageFound
    <2>2. Past(page)' /\ \A p \in Page : Past(p) => Before(p, page)
      BY <1>6, <2>1, PageIsFirst
    <2>3. stream' = stream
      BY <1>6 DEF PageOut
    <2>4. \A i \in 1..Len(old) : old[i] # Hole => Before(old[i], page)
      BY <1>5, <2>2
    <2>5. \A i \in 1..Len(left) : Before(left[i], page)
      BY <1>3, <1>5, <2>2 DEF Earlier
    <2>6. Past(item)'
      BY <2>1, <2>2 DEF Past
    <2>7. QED
      BY <1>2, <1>4, <2>1, <2>3, <2>4, <2>5, <2>6 DEF AtHand, HasPage, HasPacket
  <1>7. CASE PacketOut
    <2>1. PICK p \in Page : /\ p = old[1] /\ old # <<>> /\ item' = p
                            /\ stream'.packets = Tail(old)
      BY <1>4, <1>7, PacketTaken, HoleIsNoPage DEF PacketOut, NoMorePackets
    <2>2. 1 \in 1..Len(old) /\ p # Hole
      BY <2>1, HoleIsNoPage
    <2>3. Past(p)'
      BY <1>5, <2>1, <2>2, LineStaysInOrder
    <2>4. PICK now : now = stream'.packets
      OBVIOUS
    <2>5. \A i \in 1..Len(now) : i + 1 \in 1..Len(old) /\ now[i] = old[i + 1] /\ 1 < i + 1
      BY <2>1, <2>4
    <2>6. \A i \in 1..Len(now) : now[i] # Hole => Before(p, now[i])
      BY <1>4, <2>1, <2>2, <2>5 DEF Demuxed
    <2>7. Earlier(p)'
      BY <2>3, <2>4, <2>6 DEF Earlier
    <2>8. Earlier(item)'
      BY <2>1, <2>7 DEF Earlier, Past
    <2>9. \A i \in 1..Len(left) : Before(left[i], p)
      BY <1>3, <1>4, <1>5, <2>1, <2>2 DEF Earlier
    <2>10. ws' = "packet"
      BY <1>7 DEF PacketOut
    <2>11. QED
      BY <1>2, <2>1, <2>8, <2>9, <2>10 DEF AtHand, HasPage, HasPacket
  <1>8. CASE ~PageOut /\ ~PacketOut
    <2>1. ASSUME ws' \in HasPage \cup HasPacket
          PROVE  /\ item \in Page /\ item' = item /\ ~TakePage
                 /\ ws' \in HasPage => ws \in HasPage
                 /\ ws' \in HasPacket => ws \in HasPacket
                 /\ \A i \in 1..Len(left) : Before(left[i], item)
      <3>1. /\ ws \in HasPage \cup HasPacket /\ item' = item /\ ~TakePage
            /\ ws' \in HasPage => ws \in HasPage
            /\ ws' \in HasPacket => ws \in HasPacket
        BY <1>8, <2>1, HandStays
      <3>2. item \in Page
        BY <3>1 DEF Types, StreamTypes
      <3>3. \A i \in 1..Len(left) : Before(left[i], item)
        BY <1>1, <1>3, <3>1 DEF AtHand
      <3>4. QED
        BY <3>1, <3>2, <3>3
    <2>2. ASSUME ws' \in HasPage
          PROVE  /\ Past(item)'
                 /\ \A i \in 1..Len(stream'.packets) :
                      stream'.packets[i] # Hole => Before(stream'.packets[i], item)
      <3>1. PICK page \in Page : page = item
        BY <2>1, <2>2
      <3>2. Past(page) /\ \A i \in 1..Len(old) : old[i] # Hole => Before(old[i], page)
        BY <1>4, <2>1, <2>2, <3>1 DEF AtHand
      <3>3. Past(page)'
        BY <3>2, LineStaysInOrder
      <3>4. Past(item)'
        BY <2>1, <2>2, <3>1, <3>3 DEF Past
      <3>5. PICK k \in 0..1 : PacketsStay(k)
        BY <2>1, <2>2, PacketsMove
      <3>6. \A i \in 1..Len(stream'.packets) :
              k + i \in 1..Len(old) /\ stream'.packets[i] = old[k + i]
        BY <1>4, <3>5 DEF PacketsStay
      <3>7. QED
        BY <3>1, <3>2, <3>4, <3>6
    <2>3. ASSUME ws' \in HasPacket PROVE Earlier(item)'
      <3>1. PICK p \in Page : p = item
        BY <2>1, <2>3
      <3>2. Earlier(p)
        BY <2>1, <2>3, <3>1 DEF AtHand
      <3>3. Earlier(p)'
        BY <2>1, <2>3, <3>2, EarlierKept
      <3>4. QED
        BY <2>1, <2>3, <3>1, <3>3 DEF Earlier, Past
    <2>4. QED
      BY <1>2, <2>1, <2>2, <2>3 DEF AtHand
  <1>9. QED
    BY <1>6, <1>7, <1>8

(* Every step keeps what was decoded in order.                             *)
LEMMA DecodedKept ==
  ASSUME Types, Ordered, Next
  PROVE  Decoded' /\ AtHand'
  <1> USE DEF Ordered
  <1>1. PICK old \in Seq(Page) : old = playback.bytes
    BY PacketPages
  <1>2. /\ \A i \in 1..Len(old) : old[i] \in Page /\ Earlier(old[i])
        /\ \A i, j \in 1..Len(old) : i < j => Before(old[i], old[j])
        /\ ws \in HasPage \cup HasPacket => \A i \in 1..Len(old) : Before(old[i], item)
    BY <1>1, PacketPages DEF Decoded, AtHand
  <1>3. \A i \in 1..Len(old) : Earlier(old[i])'
    <2>1. TakePage => ws \in HasPage
      BY DEF TakePage, HasPage
    <2>2. \A p \in Page : (\E i \in 1..Len(old) : p = old[i]) => Earlier(p)'
      BY <1>2, <2>1, EarlierKept
    <2>3. QED
      BY <1>2, <2>2
  <1>4. PICK now : now = playback'.bytes
    OBVIOUS
  <1>5. CASE \E n \in Nat : PlaybackGone(n)
    <2>1. PICK n \in Nat : PlaybackGone(n)
      BY <1>5
    <2>2. n <= Len(old) /\ now = SubSeq(old, n + 1, Len(old))
      BY <1>1, <1>4, <2>1 DEF PlaybackGone
    <2>3. \A i \in 1..Len(now) : n + i \in 1..Len(old) /\ now[i] = old[n + i]
      BY <2>2
    <2>4. \A i \in 1..Len(now) : Earlier(now[i])'
      BY <1>3, <2>3
    <2>5. \A i, j \in 1..Len(now) : i < j => n + i < n + j
      BY <2>2
    <2>6. \A i, j \in 1..Len(now) : i < j => Before(now[i], now[j])
      BY <1>2, <2>3, <2>5
    <2>7. Decoded'
      BY <1>4, <2>4, <2>6 DEF Decoded
    <2>8. QED
      BY <2>1, <2>7, HandKept
  <1>6. CASE StorePcm /\ item \in Page /\ playback'.bytes = Append(playback.bytes, item)
    <2>1. PICK p \in Page : p = item
      BY <1>6
    <2>2. ws \in HasPacket /\ ws' = "packets" /\ ~TakePage
      BY <1>6 DEF StorePcm, TakePage, HasPacket
    <2>3. Earlier(p)'
      BY <2>1, <2>2, EarlierKept DEF AtHand
    <2>4. /\ \A i \in 1..Len(now) : \/ i \in 1..Len(old) /\ now[i] = old[i]
                                    \/ i = Len(now) /\ now[i] = p
          /\ Len(now) \in Nat
      BY <1>1, <1>4, <1>6, <2>1
    <2>5. \A i \in 1..Len(now) : Earlier(now[i])'
      BY <1>3, <2>3, <2>4
    <2>6. ASSUME NEW i \in 1..Len(now), NEW j \in 1..Len(now), i < j
          PROVE  Before(now[i], now[j])
      <3>1. i # Len(now)
        BY <2>4, <2>6
      <3>2. i \in 1..Len(old) /\ now[i] = old[i] /\ \A k \in 1..Len(old) : Before(old[k], p)
        BY <1>2, <2>1, <2>2, <2>4, <2>6, <3>1
      <3>3. QED
        BY <1>2, <2>4, <2>6, <3>2
    <2>7. QED
      BY <1>4, <2>2, <2>5, <2>6 DEF Decoded, AtHand, HasPage, HasPacket
  <1>7. QED
    BY <1>5, <1>6, PlaybackMoves

LEMMA InitOrdered == Init => Ordered
  BY DEF Init, Ordered, Arriving, InSync, InNet, Upstream, Demuxed, Decoded, AtHand,
         NoStream, EmptyRing, HasPage, HasPacket

(* The order holds at first and is kept.                                   *)
LEMMA OrderKept == Types /\ Ordered /\ [Next]_vars => Ordered'
  <1> SUFFICES ASSUME Types, Ordered, [Next]_vars PROVE Ordered'
    OBVIOUS
  <1>1. CASE Next
    BY <1>1, LineStaysInOrder, DemuxedKept, DecodedKept DEF Ordered
  <1>2. CASE UNCHANGED vars
    BY <1>2 DEF vars, Ordered, Arriving, InSync, InNet, Upstream, WasSent, Past, Earlier,
                Demuxed, Decoded, AtHand
  <1>3. QED
    BY <1>1, <1>2

LEMMA AlwaysOrdered == Spec => []Ordered
  <1>1. QED
    BY AlwaysTyped, InitTypes, InitOrdered, OrderKept, PTL DEF Spec

(* What the speaker is given is in the order it was spoken, whatever is    *)
(* dropped for want of room, drained by a handler, broken off or lost with *)
(* its connection, and wherever a reset cuts into the demultiplexing       *)
(* (on_decoded_pcm, audio_play_task, drain_ringbuf).                       *)
THEOREM SpeechIsPlayedInOrder == Spec => []PlaybackInOrder
  <1>1. Ordered => PlaybackInOrder
    BY DEF Ordered, Decoded, AtHand, PlaybackInOrder, HasPacket
  <1>2. QED
    BY <1>1, AlwaysOrdered, PTL

-----------------------------------------------------------------------------
(* The headers of a stream *)

(* What is still to be taken from ogg_sync or to be sent of the reply of   *)
(* the stream is the page n or a later one.                                *)
Ahead(n) ==
  /\ \A f \in Fragment : Upstream(f) /\ f.page.reply = stream.serial => n <= f.page.no
  /\ server.reply = stream.serial => n <= server.page

(* So is all that may still come of it. *)
ComesFrom(n) ==
  /\ Ahead(n)
  /\ \A i \in 1..Len(stream.packets) :
       stream.packets[i] # Hole => n <= stream.packets[i].no
  /\ ws \in HasPage /\ item.reply = stream.serial => n <= item.no

(* The stream and the packet at hand are of one reply.                     *)
OfOneReply ==
  /\ stream.serial <= server.reply
  /\ \A i \in 1..Len(stream.packets) :
       stream.packets[i] # Hole => stream.packets[i].reply = stream.serial
  /\ stream.serial = 0 => stream.packets = <<>>
  /\ ws \in HasPacket => stream.serial \in {0, item.reply}

(* Fewer headers than n have been counted only where not all were.         *)
Skipped(n) == n <= count \/ parsed \/ ws = "parse"

(* As many headers as were counted will not come any more.                 *)
HeadersAreGone ==
  stream.serial # 0 /\ ws \notin {"begin", "ruined"} =>
    \A n \in 0..2 : Skipped(n) => ComesFrom(n)

Counted ==
  /\ HeadersAreGone
  /\ ws = "packet" => \A n \in 0..2 : n <= count \/ parsed => n <= item.no
  /\ ws = "header" => seen <= item.no
  /\ HeadersAreNotDecoded

Headers == OfOneReply /\ Counted

(* What arrives is what the server sends, which never goes back. *)
LEMMA OnlyTheServerSends ==
  ASSUME Types, Arriving, Next
  PROVE  /\ \A f \in Fragment : Upstream(f)' =>
              Upstream(f) \/ (f.page.reply = server.reply /\ f.page.no = server.page)
         /\ \/ server'.reply = server.reply + 1
            \/ server'.reply = server.reply /\ server.page <= server'.page
  <1>1. sync \in Seq(Fragment) /\ server.page \in Nat /\ server.page <= LastPage + 2
        /\ LineTypes
    BY DownlinkBounds DEF Types, LineTypes
  <1>2. CASE ServerSendsPage
    <2>1. PICK part \in {"all", "front", "back"} :
            /\ Says([kind |-> "audio", data |-> Sends(part)])
            /\ Sends(part) \in Fragment
            /\ server'.reply = server.reply
            /\ part = "front" => server'.page = server.page
            /\ part # "front" => server'.page = server.page + 1
      BY <1>1, <1>2, ServerSends
    <2>2. PICK new \in Fragment : new = Sends(part)
      BY <2>1
    <2>3. \A f : Upstream(f)' => Upstream(f) \/ f = new
      BY <2>1, <2>2, SaysAudio DEF Upstream, InSync
    <2>4. new.page.reply = server.reply /\ new.page.no = server.page
      BY <2>2 DEF Sends
    <2>5. QED
      BY <1>1, <2>1, <2>3, <2>4
  <1>3. CASE ServerReplies \/ ServerEnds \/ ServerBreaksOff \/ NetDrops
    <2>1. \A f : Upstream(f)' => Upstream(f)
      <3>1. CASE NetDrops
        BY <3>1 DEF NetDrops, device, Upstream, InSync, InNet
      <3>2. CASE ~NetDrops
        <4>1. PICK k \in {"query_end", "tts_ended", "clear_cache", "fatal"} : Says([kind |-> k])
          BY <1>3, <3>2 DEF ServerReplies, ServerEnds, ServerBreaksOff
        <4>2. [kind |-> k] \in Message /\ [kind |-> k].kind # "audio"
          BY DEF Message
        <4>3. sync' = sync /\ \A f : InNet(f)' => InNet(f)
          BY <4>1, <4>2, SaysNoAudio
        <4>4. QED
          BY <4>3 DEF Upstream, InSync
      <3>3. QED
        BY <3>1, <3>2
    <2>2. \/ server'.reply = server.reply + 1
          \/ server'.reply = server.reply /\ server'.page = LastPage + 2
      BY <1>1, <1>3, ServerMoves
    <2>3. QED
      BY <1>1, <2>1, <2>2
  <1>4. CASE WsTakes
    <2>1. server' = server
      BY <1>4 DEF WsTakes
    <2>2. QED
      BY <1>1, <1>4, <2>1, WsTakesInOrder
  <1>5. CASE ~WsTakes /\ ~ServerOrNet
    <2>1. PICK n \in Nat : SyncGone(n)
      BY <1>1, <1>5, SyncMoves
    <2>2. (\A f \in Fragment : Upstream(f)' => Upstream(f)) /\ server' = server
      BY <2>1, SyncStaysInOrder DEF SyncGone
    <2>3. QED
      BY <1>1, <2>2
  <1>6. QED
    BY <1>2, <1>3, <1>4, <1>5 DEF ServerOrNet

(* A page that nothing comes before any more, and what comes of its reply. *)
LEMMA PastPage ==
  ASSUME Types, NEW page \in Page, Past(page)
  PROVE  /\ page.reply <= server.reply
         /\ \A f \in Fragment : Upstream(f) /\ f.page.reply = page.reply => page.no < f.page.no
         /\ server.reply = page.reply => page.no < server.page
  <1>1. page.reply \in Nat /\ page.no \in Nat /\ server.reply \in Nat
    BY PageFields DEF Types, LineTypes
  <1>2. page.reply <= server.reply /\ (server.reply = page.reply => page.no < server.page)
    BY <1>1 DEF Past
  <1>3. \A f \in Fragment : Upstream(f) /\ f.page.reply = page.reply => page.no < f.page.no
    BY <1>1, FragmentFields, PageFields DEF Past, Before
  <1>4. QED
    BY <1>2, <1>3

(* A stream is of the same reply after a step, or cleared, or another one  *)
(* that begins with the page at hand.                                      *)
LEMMA StreamMoves ==
  ASSUME Types, Next
  PROVE  \/ stream'.serial = stream.serial
         \/ Resets /\ stream' = NoStream
         \/ /\ ws \in HasPage /\ item' = item /\ server' = server
            /\ stream' = NewStream(item.reply)
            /\ \/ FirstPage /\ ws' \in {"begin", "ruined"}
               \/ NewSerial /\ ws' \in {"pagein", "ruined"} /\ ~parsed' /\ count' = 0
  <1>1. CASE FirstPage
    BY <1>1 DEF FirstPage, Uses, HasPage, DecoderOnly
  <1>2. CASE NewSerial
    BY <1>2 DEF NewSerial, Uses, HasPage, DecoderOnly
  <1>3. CASE TakePage
    BY <1>3, PageTaken
  <1>4. CASE NoMorePackets \/ PacketOut
    BY <1>4, PacketTaken
  <1>5. CASE Resets
    BY <1>5, ResetLeaves DEF Resets
  <1>6. CASE \/ CopyData \/ PageOut \/ NoMorePages \/ StreamInited \/ TestBos \/ TestParsed
             \/ SkipHeader \/ HeadersParsed \/ Decode \/ StorePcm
    BY <1>6
    DEF CopyData, PageOut, NoMorePages, StreamInited, TestBos, TestParsed, SkipHeader,
        HeadersParsed, Decode, StorePcm
  <1>7. CASE WsTakes
    BY <1>7 DEF WsTakes
  <1>8. CASE ~WsTakes /\ ~DecodeOgg /\ ~Resets
    BY <1>8, OthersLeave
  <1>9. QED
    BY <1>1, <1>2, <1>3, <1>4, <1>5, <1>6, <1>7, <1>8 DEF DecodeOgg

(* Every step keeps the stream and what is at hand of one reply.           *)
LEMMA OneReplyKept ==
  ASSUME Types, Ordered, Headers, Next
  PROVE  OfOneReply'
  <1>1. /\ server.reply \in Nat /\ server'.reply \in Nat /\ stream.serial \in Nat
        /\ stream'.serial \in Nat /\ stream'.packets \in Seq(Page \cup {Hole})
        /\ server.reply <= server'.reply
    <2>1. LineTypes' /\ StreamTypes'
      BY LineKept, StreamKept
    <2>2. QED
      BY <2>1, OnlyTheServerSends DEF Types, LineTypes, StreamTypes, Ordered
  <1>2. PICK old \in Seq(Page \cup {Hole}) : old = stream.packets
    BY PacketPages
  <1>3. PICK now \in Seq(Page \cup {Hole}) : now = stream'.packets
    BY <1>1
  <1>4. CASE Resets /\ stream' = NoStream
    BY <1>1, <1>4 DEF OfOneReply, NoStream
  <1>5. CASE /\ ws \in HasPage /\ item' = item /\ stream' = NewStream(item.reply)
             /\ ws' \in {"begin", "pagein", "ruined"}
    <2>1. PICK page \in Page : page = item
      BY <1>5 DEF Types, StreamTypes
    <2>2. Past(page)
      BY <1>5, <2>1 DEF Ordered, AtHand
    <2>3. page.reply <= server.reply /\ page.reply # 0 /\ page.reply \in Nat
      BY <2>2, PastPage, DownlinkBounds DEF Page
    <2>4. stream'.serial = page.reply /\ stream'.packets = <<>>
      BY <1>5, <2>1 DEF NewStream
    <2>5. stream'.serial <= server'.reply
      BY <1>1, <2>3, <2>4
    <2>6. ws' \notin HasPacket
      BY <1>5 DEF HasPacket
    <2>7. QED
      BY <2>3, <2>4, <2>5, <2>6 DEF OfOneReply
  <1>6. CASE stream'.serial = stream.serial
    <2>1. stream'.serial <= server'.reply
      BY <1>1, <1>6 DEF Headers, OfOneReply
    <2>2. /\ \A i \in 1..Len(now) : now[i] # Hole => now[i].reply = stream.serial
          /\ stream.serial = 0 => now = <<>>
      <3>1. CASE TakePage /\ item.reply = stream.serial /\ Grows(item, stream.packets)
        <4>1. PICK page \in Page : page = item
          BY <3>1, PageTaken
        <4>2. \A i \in 1..Len(now) :
                \/ i \in 1..Len(old) /\ now[i] = old[i]
                \/ now[i] = Hole
                \/ now[i] = page
          BY <1>2, <1>3, <3>1, <4>1, GrowsByPage
        <4>3. stream.serial # 0
          BY <3>1, <4>1, DownlinkBounds DEF Page
        <4>4. QED
          BY <1>2, <3>1, <4>1, <4>2, <4>3 DEF Headers, OfOneReply
      <3>2. ASSUME NEW k \in 0..1, PacketsStay(k)
            PROVE  /\ \A i \in 1..Len(now) : now[i] # Hole => now[i].reply = stream.serial
                   /\ stream.serial = 0 => now = <<>>
        <4>1. \A i \in 1..Len(now) : k + i \in 1..Len(old) /\ now[i] = old[k + i]
          BY <1>2, <1>3, <3>2 DEF PacketsStay
        <4>2. \A i \in 1..Len(now) : now[i] # Hole => now[i].reply = stream.serial
          BY <1>2, <4>1 DEF Headers, OfOneReply
        <4>3. ASSUME stream.serial = 0 PROVE now = <<>>
          <5>1. Len(old) = 0
            BY <1>2, <4>3 DEF Headers, OfOneReply
          <5>2. 1 \notin 1..Len(now)
            BY <4>1, <5>1
          <5>3. QED
            BY <5>2
        <4>4. QED
          BY <4>2, <4>3
      <3>3. QED
        BY <3>1, <3>2, PacketsMove
    <2>3. ASSUME ws' \in HasPacket PROVE stream.serial \in {0, item'.reply}
      <3>1. CASE PacketOut
        <4>1. old # <<>> /\ old[1] \in Page /\ item' = old[1]
          BY <1>2, <3>1, PacketTaken DEF PacketOut, NoMorePackets
        <4>2. 1 \in 1..Len(old) /\ old[1] # Hole
          BY <4>1, HoleIsNoPage
        <4>3. QED
          BY <1>2, <4>1, <4>2 DEF Headers, OfOneReply
      <3>2. CASE ~PacketOut
        BY <2>3, <3>2, HandStays DEF Headers, OfOneReply
      <3>3. QED
        BY <3>1, <3>2
    <2>4. QED
      BY <1>3, <1>6, <2>1, <2>2, <2>3 DEF OfOneReply
  <1>7. QED
    BY <1>4, <1>5, <1>6, StreamMoves

(* What is ahead stays ahead, as long as the stream is of the same reply.  *)
LEMMA AheadKept ==
  ASSUME Types, Ordered, OfOneReply, Next, NEW n \in Nat, Ahead(n),
         stream'.serial = stream.serial
  PROVE  Ahead(n)'
  <1>1. /\ \A f \in Fragment : Upstream(f)' =>
             Upstream(f) \/ (f.page.reply = server.reply /\ f.page.no = server.page)
        /\ \/ server'.reply = server.reply + 1
           \/ server'.reply = server.reply /\ server.page <= server'.page
    BY OnlyTheServerSends DEF Ordered
  <1>2. /\ server.reply \in Nat /\ server.page \in Nat /\ server'.page \in Nat
        /\ stream.serial \in Nat
    <2>1. LineTypes'
      BY LineKept
    <2>2. QED
      BY <2>1 DEF Types, LineTypes, StreamTypes
  <1>3. \A f \in Fragment : Upstream(f)' /\ f.page.reply = stream.serial => n <= f.page.no
    BY <1>1 DEF Ahead
  <1>4. server'.reply = stream.serial => n <= server'.page
    BY <1>1, <1>2 DEF Ahead, OfOneReply
  <1>5. QED
    BY <1>3, <1>4 DEF Ahead

(* What comes after a page keeps coming after it.                          *)
LEMMA ComesFromKept ==
  ASSUME Types, Ordered, OfOneReply, Next, NEW n \in 0..2, ComesFrom(n),
         stream'.serial = stream.serial, stream.serial # 0
  PROVE  ComesFrom(n)'
  <1>1. n \in Nat
    OBVIOUS
  <1>2. Ahead(n)'
    BY <1>1, AheadKept DEF ComesFrom
  <1>5. ws' \in HasPage /\ item'.reply = stream.serial => n <= item'.no
    <2>1. CASE PageOut
      <3>1. sync # <<>> /\ sync \in Seq(Fragment) /\ item' = sync[1].page
        BY <2>1, PageFound DEF Types, LineTypes
      <3>2. sync[1] \in Fragment /\ Upstream(sync[1])
        BY <3>1, NetFragments DEF Upstream, InSync
      <3>3. QED
        BY <3>1, <3>2 DEF ComesFrom, Ahead
    <2>2. CASE ~PageOut
      BY <2>2, HandStays DEF ComesFrom
    <2>3. QED
      BY <2>1, <2>2
  <1>6. PICK old \in Seq(Page \cup {Hole}) : old = stream.packets
    BY PacketPages
  <1>7. PICK now : now = stream'.packets
    OBVIOUS
  <1>8. \A i \in 1..Len(now) : now[i] # Hole => n <= now[i].no
    <2>1. CASE TakePage /\ item.reply = stream.serial /\ Grows(item, stream.packets)
      <3>1. PICK page \in Page : page = item
        BY <2>1, PageTaken
      <3>2. \A i \in 1..Len(now) :
              \/ i \in 1..Len(old) /\ now[i] = old[i]
              \/ now[i] = Hole
              \/ now[i] = page
        BY <1>6, <1>7, <2>1, <3>1, GrowsByPage
      <3>3. n <= page.no
        BY <2>1, <3>1 DEF ComesFrom, TakePage, HasPage
      <3>4. QED
        BY <1>6, <3>2, <3>3 DEF ComesFrom
    <2>2. ASSUME NEW k \in 0..1, PacketsStay(k)
          PROVE  \A i \in 1..Len(now) : now[i] # Hole => n <= now[i].no
      <3>1. \A i \in 1..Len(now) : k + i \in 1..Len(old) /\ now[i] = old[k + i]
        BY <1>6, <1>7, <2>2 DEF PacketsStay
      <3>2. QED
        BY <1>6, <3>1 DEF ComesFrom
    <2>3. QED
      BY <2>1, <2>2, PacketsMove
  <1>9. QED
    BY <1>2, <1>5, <1>7, <1>8 DEF ComesFrom

(* Nothing comes before the first page.                                    *)
LEMMA ComesFromStart == Types => ComesFrom(0)
  <1> SUFFICES ASSUME Types PROVE ComesFrom(0)
    OBVIOUS
  <1>1. \A i \in 1..Len(stream.packets) : stream.packets[i] # Hole => 0 <= stream.packets[i].no
    BY PacketPages, PageFields
  <1>2. \A f \in Fragment : 0 <= f.page.no
    BY FragmentFields, PageFields
  <1>3. ws \in HasPage => 0 <= item.no
    BY PageFields DEF Types, StreamTypes
  <1>4. 0 <= server.page
    BY DEF Types, LineTypes
  <1>5. QED
    BY <1>1, <1>2, <1>3, <1>4 DEF ComesFrom, Ahead

LEMMA ComesFromStartNext == Types' => ComesFrom(0)'
  BY ComesFromStart, PTL

(* Only the decoding leaves where the decoding is.                         *)
LEMMA WsMoves ==
  ASSUME Types, Next, ~DecodeOgg
  PROVE  \/ ws = "idle" /\ ws' \in {"idle", "copy"} /\ WsTakes
         \/ ws' \in {ws, "ruined"} /\ item' = item /\ seen' = seen
  <1>1. CASE WsTakes
    BY <1>1, MessageTaken DEF Types, WsTakes
  <1>2. CASE Resets
    BY <1>2, ResetLeaves DEF Resets
  <1>3. CASE ~WsTakes /\ ~Resets
    BY <1>3, OthersLeave
  <1>4. QED
    BY <1>1, <1>2, <1>3

(* A ruined run stays one, and a stream that begins gets its flags.        *)
LEMMA DecodingLeavesWs ==
  ASSUME DecodeOgg
  PROVE  /\ ws # "ruined"
         /\ ws = "begin" => StreamInited
         /\ ws = "packet" => TestParsed
         /\ ws = "header" => SkipHeader
         /\ ws' = "page" => PageOut
         /\ ws' = "packet" => PacketOut
         /\ ws' = "header" => TestParsed
         /\ ws' = "decode" => TestParsed
         /\ ws' = "pcm" => Decode
  <1>1. ASSUME \/ CopyData \/ PageOut \/ NoMorePages \/ FirstPage \/ StreamInited
               \/ TestBos \/ NewSerial \/ TakePage
        PROVE  /\ ws \notin {"ruined", "packet", "header"} /\ (ws = "begin" => StreamInited)
               /\ ws' \notin {"packet", "header", "decode", "pcm"}
               /\ ws' = "page" => PageOut
    BY <1>1
    DEF CopyData, PageOut, NoMorePages, FirstPage, StreamInited, TestBos, NewSerial, TakePage,
        Uses
  <1>2. ASSUME \/ NoMorePackets \/ PacketOut \/ TestParsed \/ SkipHeader \/ HeadersParsed
               \/ Decode \/ StorePcm
        PROVE  /\ ws \notin {"ruined", "begin"}
               /\ ws = "packet" => TestParsed
               /\ ws = "header" => SkipHeader
               /\ ws' # "page"
               /\ ws' = "packet" => PacketOut
               /\ ws' = "header" => TestParsed
               /\ ws' = "decode" => TestParsed
               /\ ws' = "pcm" => Decode
    BY <1>2
    DEF NoMorePackets, PacketOut, TestParsed, SkipHeader, HeadersParsed, Decode, StorePcm, Uses
  <1>3. QED
    BY <1>1, <1>2 DEF DecodeOgg

(* The count and the flag of the headers go back, unless a header is       *)
(* skipped.                                                                *)
LEMMA CountMoves ==
  ASSUME Types, Next, ~SkipHeader
  PROVE  /\ count' = count \/ count' = 0
         /\ parsed' \/ ws' = "parse" => parsed \/ ws = "parse"
         /\ ws' = "packet" => parsed' = parsed \/ ~parsed'
  <1>1. CASE DecodeOgg
    <2>1. CASE \/ CopyData \/ PageOut \/ NoMorePages \/ FirstPage \/ StreamInited
               \/ TestBos \/ NewSerial \/ TakePage
      <3>1. (count' = count \/ count' = 0) /\ (parsed' = parsed \/ parsed' = FALSE)
        BY <2>1
        DEF CopyData, PageOut, NoMorePages, FirstPage, StreamInited, TestBos, NewSerial, TakePage,
            Flags
      <3>2. ws' # "parse"
        BY <2>1
        DEF CopyData, PageOut, NoMorePages, FirstPage, StreamInited, TestBos, NewSerial, TakePage,
            Uses
      <3>3. QED
        BY <3>1, <3>2
    <2>2. CASE NoMorePackets \/ PacketOut \/ TestParsed \/ Decode \/ StorePcm
      BY <2>2 DEF NoMorePackets, PacketOut, TestParsed, Decode, StorePcm, Uses, Flags
    <2>3. CASE HeadersParsed
      BY <2>3 DEF HeadersParsed
    <2>4. QED
      BY <1>1, <2>1, <2>2, <2>3 DEF DecodeOgg
  <1>2. CASE WsTakes
    <2>1. UNCHANGED <<parsed, count>>
      BY <1>2 DEF WsTakes
    <2>2. ws' # "parse"
      BY <1>2, MessageTaken DEF Types
    <2>3. QED
      BY <2>1, <2>2
  <1>3. CASE Resets
    BY <1>3, ResetLeaves DEF Resets
  <1>4. CASE ~WsTakes /\ ~DecodeOgg /\ ~Resets
    BY <1>4, OthersLeave
  <1>5. QED
    BY <1>1, <1>2, <1>3, <1>4

(* When a header is skipped, nothing comes of its reply but what follows   *)
(* it.                                                                     *)
LEMMA SkippedInTurn ==
  ASSUME Types, Ordered, Headers, SkipHeader, stream.serial # 0,
         NEW n \in 0..2, Skipped(n)'
  PROVE  ComesFrom(n)
  <1>1. /\ ws = "header" /\ ws' \in {"packets", "parse"} /\ seen \in 0..2
        /\ UNCHANGED <<stream, net, sync, server, parsed>>
        /\ count' = (IF seen = 0 THEN 1 ELSE 2)
        /\ ws' = (IF seen = 0 THEN "packets" ELSE "parse")
    BY DEF SkipHeader, DecoderOnly, Types, StreamTypes
  <1>2. PICK page \in Page : page = item
    BY <1>1 DEF Types, StreamTypes, HasPacket
  <1>3. Earlier(page) /\ page.reply = stream.serial /\ seen <= page.no
    BY <1>1, <1>2 DEF Ordered, AtHand, Headers, OfOneReply, Counted, HasPacket
  <1>4. page.no \in Nat /\ server.page \in Nat
    BY PageFields DEF Types, LineTypes
  <1>5. CASE parsed
    <2>1. ws \notin {"begin", "ruined"} /\ Skipped(n)
      BY <1>1, <1>5 DEF Skipped
    <2>2. QED
      BY <2>1 DEF Headers, Counted, HeadersAreGone
  <1>6. CASE ~parsed
    <2>1. n <= page.no + 1
      <3>1. n <= count' \/ ws' = "parse"
        BY <1>1, <1>6 DEF Skipped
      <3>2. CASE seen = 0
        BY <1>1, <1>4, <3>1, <3>2
      <3>3. CASE seen # 0
        BY <1>1, <1>3, <1>4, <3>3
      <3>4. QED
        BY <3>2, <3>3
    <2>2. /\ \A f \in Fragment : Upstream(f) /\ f.page.reply = page.reply => page.no < f.page.no
          /\ server.reply = page.reply => page.no < server.page
      BY <1>3, PastPage DEF Earlier
    <2>3. \A f \in Fragment : Upstream(f) /\ f.page.reply = stream.serial => n <= f.page.no
      BY <1>3, <1>4, <2>1, <2>2, FragmentFields, PageFields
    <2>4. server.reply = stream.serial => n <= server.page
      BY <1>3, <1>4, <2>1, <2>2
    <2>5. \A i \in 1..Len(stream.packets) : stream.packets[i] # Hole => n <= stream.packets[i].no
      <3>1. ASSUME NEW i \in 1..Len(stream.packets), stream.packets[i] # Hole
            PROVE  n <= stream.packets[i].no
        <4>1. PICK q \in Page : q = stream.packets[i]
          BY <3>1, PacketPages
        <4>2. Before(page, q) /\ q.reply = page.reply
          BY <1>3, <3>1, <4>1 DEF Earlier, Headers, OfOneReply
        <4>3. page.no < q.no
          BY <4>2, PageFields DEF Before
        <4>4. q.no \in Nat
          BY PageFields
        <4>5. QED
          BY <1>4, <2>1, <4>1, <4>3, <4>4
      <3>2. QED
        BY <3>1
    <2>6. ws \notin HasPage
      BY <1>1 DEF HasPage
    <2>7. QED
      BY <2>3, <2>4, <2>5, <2>6 DEF ComesFrom, Ahead
  <1>7. QED
    BY <1>5, <1>6

(* Every step leaves as many headers behind as were counted.               *)
LEMMA GoneKept ==
  ASSUME Types, Ordered, Headers, Next
  PROVE  HeadersAreGone'
  <1> SUFFICES ASSUME stream'.serial # 0, ws' \notin {"begin", "ruined"},
                      NEW n \in 0..2, Skipped(n)'
               PROVE  ComesFrom(n)'
    BY DEF HeadersAreGone
  <1>1. CASE n = 0
    BY <1>1, TypesKept, ComesFromStartNext
  <1>2. CASE n # 0
    <2>1. n <= count' \/ parsed' \/ ws' = "parse"
      BY DEF Skipped
    <2>2. ~(n <= 0)
      BY <1>2
    <2>3. ws \notin {"ruined", "begin"}
      <3>1. CASE DecodeOgg
        <4>1. StreamInited => ~Skipped(n)'
          BY <2>2 DEF StreamInited, Skipped
        <4>2. QED
          BY <3>1, <4>1, DecodingLeavesWs
      <3>2. CASE ~DecodeOgg
        BY <3>2, WsMoves
      <3>3. QED
        BY <3>1, <3>2
    <2>4. CASE stream'.serial = stream.serial
      <3>1. stream.serial # 0
        BY <2>4
      <3>2. ComesFrom(n)
        <4>1. CASE SkipHeader
          BY <3>1, <4>1, SkippedInTurn
        <4>2. CASE ~SkipHeader
          <5>1. Skipped(n)
            BY <2>1, <2>2, <4>2, CountMoves DEF Skipped
          <5>2. QED
            BY <2>3, <3>1, <5>1 DEF Headers, Counted, HeadersAreGone
        <4>3. QED
          BY <4>1, <4>2
      <3>3. QED
        BY <2>4, <3>1, <3>2, ComesFromKept DEF Headers
    <2>5. CASE stream' = NoStream
      BY <2>5 DEF NoStream
    <2>6. CASE \/ ws' \in {"begin", "ruined"}
               \/ ws' \in {"pagein", "ruined"} /\ ~parsed' /\ count' = 0
      BY <2>1, <2>2, <2>6
    <2>7. QED
      BY <2>4, <2>5, <2>6, StreamMoves
  <1>3. QED
    BY <1>1, <1>2

(* The packet at hand comes after the headers that were counted.           *)
LEMMA PacketCounted ==
  ASSUME Types, Ordered, Headers, Next, ws' = "packet", NEW n \in 0..2, n <= count' \/ parsed'
  PROVE  n <= item'.no
  <1>1. n # 0 => n <= count \/ parsed \/ ws = "parse"
    <2>1. ~SkipHeader
      BY DEF SkipHeader
    <2>2. QED
      BY <2>1, CountMoves
  <1>2. CASE PacketOut
    <2>1. stream.packets # <<>> /\ stream.packets[1] \in Page /\ item' = stream.packets[1]
      BY <1>2, PacketTaken DEF PacketOut, NoMorePackets
    <2>2. /\ 1 \in 1..Len(stream.packets) /\ stream.packets[1] # Hole /\ stream.serial # 0
          /\ item'.no \in Nat /\ ws = "packets"
      BY <1>2, <2>1, PacketPages, HoleIsNoPage, PageFields DEF Headers, OfOneReply, PacketOut
    <2>3. n # 0 => ComesFrom(n)
      BY <1>1, <2>2 DEF Headers, Counted, HeadersAreGone, Skipped
    <2>4. QED
      BY <2>1, <2>2, <2>3 DEF ComesFrom
  <1>3. CASE ~PacketOut
    <2>1. ~DecodeOgg
      BY <1>3, DecodingLeavesWs
    <2>2. ws = "packet" /\ item' = item /\ item \in Page
      BY <2>1, WsMoves DEF Types, StreamTypes, HasPacket
    <2>3. item.no \in Nat
      BY <2>2, PageFields
    <2>4. n # 0 => n <= item.no
      BY <1>1, <2>2 DEF Headers, Counted
    <2>5. QED
      BY <2>2, <2>3, <2>4
  <1>4. QED
    BY <1>2, <1>3

(* Every step keeps what is known of the headers.                          *)
LEMMA HeadersKept ==
  ASSUME Types, Ordered, Headers, Next
  PROVE  Headers'
  <1>1. ws' = "packet" => \A n \in 0..2 : n <= count' \/ parsed' => n <= item'.no
    BY PacketCounted
  <1>2. CASE TestParsed
    <2>1. /\ ws = "packet" /\ item' = item
          /\ \/ parsed /\ ws' = "decode"
             \/ ws' = "header" /\ seen' = count
      BY <1>2 DEF TestParsed
    <2>2. /\ count \in 0..2 /\ count <= count /\ 2 \in 0..2
          /\ \A n \in 0..2 : n <= count \/ parsed => n <= item.no
      BY <2>1 DEF Types, StreamTypes, Headers, Counted
    <2>3. parsed => 2 <= item.no
      BY <2>2
    <2>4. count <= item.no
      BY <2>2
    <2>5. item \in Page
      BY <2>1 DEF Types, StreamTypes, HasPacket
    <2>6. (ws' = "header" => seen' <= item'.no) /\ HeadersAreNotDecoded'
      BY <2>1, <2>3, <2>4, <2>5, PageFields DEF HeadersAreNotDecoded
    <2>7. QED
      BY <1>1, <2>6, OneReplyKept, GoneKept DEF Headers, Counted
  <1>3. CASE ~TestParsed
    <2>1. ws' = "header" => ws = "header" /\ seen' = seen /\ item' = item
      BY <1>3, DecodingLeavesWs, WsMoves
    <2>2. ws' \in {"decode", "pcm"} => ws \in {"decode", "pcm"} /\ item' = item
      <3>1. Decode => ws = "decode" /\ item' = item
        BY DEF Decode
      <3>2. QED
        BY <1>3, <3>1, DecodingLeavesWs, WsMoves
    <2>3. (ws' = "header" => seen' <= item'.no) /\ HeadersAreNotDecoded'
      BY <2>1, <2>2 DEF Headers, Counted, HeadersAreNotDecoded
    <2>4. QED
      BY <1>1, <2>3, OneReplyKept, GoneKept DEF Headers, Counted
  <1>4. QED
    BY <1>2, <1>3

LEMMA AlwaysHeaders == Spec => []Headers
  <1>1. Init => Headers
    BY DEF Init, Headers, OfOneReply, Counted, HeadersAreGone, HeadersAreNotDecoded, NoStream,
           HasPacket
  <1>2. Types /\ Ordered /\ Headers /\ [Next]_vars => Headers'
    <2>1. ASSUME Headers, UNCHANGED vars PROVE Headers'
      BY <2>1
      DEF vars, Headers, OfOneReply, Counted, HeadersAreGone, Skipped, ComesFrom, Ahead,
          HeadersAreNotDecoded, Upstream, InSync, InNet
    <2>2. QED
      BY <2>1, HeadersKept
  <1>3. QED
    BY <1>1, <1>2, AlwaysTyped, AlwaysOrdered, PTL DEF Spec

(* Neither OpusHead nor OpusTags reaches the Opus decoder, wherever a      *)
(* reset cuts into the demultiplexing and the count of the headers, and in *)
(* whatever state a lost connection or a reply that was broken off leaves  *)
(* it (opus_proc_decode_ogg, opus_proc_reset_ogg).                         *)
THEOREM OnlyAudioIsDecoded == Spec => []HeadersAreNotDecoded
  <1>1. Headers => HeadersAreNotDecoded
    BY DEF Headers, Counted
  <1>2. QED
    BY <1>1, AlwaysHeaders, PTL

-----------------------------------------------------------------------------
(* A reply by halves of its pages *)

(* The halves of the pages of a reply, in the order they are sent: those a *)
(* fragment carries, and the one the server sends next.                    *)
FirstHalf(f) == 2 * f.page.no + (IF f.part = "back" THEN 1 ELSE 0)

LastHalf(f) == 2 * f.page.no + (IF f.part = "front" THEN 0 ELSE 1)

Carries(f, r, h) == f.page.reply = r /\ FirstHalf(f) <= h /\ h <= LastHalf(f)

Half == 0..(2 * LastPage + 1)

Covered(r, h) == \E f \in Fragment : Upstream(f) /\ Carries(f, r, h)

Sending(r) == server.reply = r /\ server.page <= LastPage

NextHalf == 2 * server.page + (IF server.front THEN 1 ELSE 0)

(* From a half on, a reply arrives without a gap, as far as it has been    *)
(* sent, unless the server has broken it off.                              *)
NoGaps(r, from) ==
  /\ \A b, c \in Half : from <= b /\ b < c /\ Covered(r, c) => Covered(r, b)
  /\ Sending(r) => \A b \in Half : from <= b /\ b < NextHalf => Covered(r, b)

Contiguously == \A r \in 1..MaxReplies, a \in Half : Covered(r, a) => NoGaps(r, a)

(* The first page of the reply of the stream has been taken.               *)
Begun ==
  stream.serial # 0 =>
    Ahead(1) /\ (ws = "page" /\ item.reply = stream.serial => 1 <= item.no)

(* A stream that the first page at hand begins.                            *)
Fresh == stream = NewStream(item.reply) /\ count = 0 /\ ~parsed

StreamBegins ==
  /\ due = 0 /\ NoGaps(item.reply, 2)
  /\ ws = "begin" => stream = NewStream(item.reply)
  /\ ws \in {"bos", "serial"} => inited /\ (stream.serial = item.reply => Fresh)
  /\ ws = "pagein" => inited /\ Fresh

(* The page that ogg_sync holds next for the stream.                       *)
AtHandOfStream == ws \in HasPage /\ item.reply = stream.serial

Expected == IF AtHandOfStream THEN stream.next + 1 ELSE stream.next

(* A stream that was not reset has taken its pages one after the other, as *)
(* many as have left ogg_sync but for the one at hand.                     *)
StreamIsWhole ==
  /\ stream.serial # 0 /\ inited
  /\ \A i \in 1..Len(stream.packets) :
       stream.packets[i] = [reply |-> stream.serial, no |-> due + i - 1]
  /\ stream.next = due + Len(stream.packets)
  /\ NoGaps(stream.serial, 2 * Expected)
  /\ Ahead(Expected)
  /\ AtHandOfStream => item.no = stream.next
  /\ ws \notin {"begin", "serial"}

(* As many headers are counted as packets were taken, until all are.       *)
HeadersCounted ==
  /\ ws \in {"packet", "header"} => due = item.no + 1
  /\ ~parsed =>
       /\ ws \notin {"decode", "pcm"}
       /\ ws = "packet" => count = item.no /\ item.no < 2
       /\ ws \notin {"packet", "header", "parse"} => count = due /\ due < 2
  /\ ws = "header" => seen = item.no /\ item.no < 2

OnItsWay == IF ws \in HasPage /\ item.no = 0 THEN StreamBegins
            ELSE StreamIsWhole /\ HeadersCounted

Whole == Contiguously /\ Begun /\ (intact /\ ws # "ruined" => OnItsWay)

(* A fragment carries one or both halves of its page.                      *)
LEMMA HalfFields ==
  \A f \in Fragment :
    /\ FirstHalf(f) \in Half /\ LastHalf(f) \in Half /\ FirstHalf(f) <= LastHalf(f)
    /\ f.page.reply \in 1..MaxReplies /\ f.page.no \in 0..LastPage
    /\ 2 * f.page.no <= FirstHalf(f) /\ LastHalf(f) <= 2 * f.page.no + 1
    /\ f.part # "back" => FirstHalf(f) = 2 * f.page.no
    /\ f.part = "back" => FirstHalf(f) = 2 * f.page.no + 1
    /\ f.part # "front" => LastHalf(f) = 2 * f.page.no + 1
    /\ f.part = "front" => LastHalf(f) = 2 * f.page.no
  <1>1. ASSUME NEW f \in Fragment PROVE f.page.reply \in 1..MaxReplies /\ f.page.no \in 0..LastPage
    BY FragmentFields DEF Page
  <1>2. QED
    BY <1>1, DownlinkBounds DEF FirstHalf, LastHalf, Half

(* Of fragments of one reply the first has the smaller halves.             *)
LEMMA HalvesInOrder ==
  ASSUME NEW f \in Fragment, NEW g \in Fragment, Precedes(f, g), f.page.reply = g.page.reply
  PROVE  LastHalf(f) < FirstHalf(g)
  <1>1. CASE Before(f.page, g.page)
    <2>1. f.page.no < g.page.no
      BY <1>1, HalfFields, DownlinkBounds DEF Before
    <2>2. QED
      BY <2>1, HalfFields, DownlinkBounds DEF Half
  <1>2. CASE f.page = g.page /\ f.part = "front" /\ g.part = "back"
    <2>1. LastHalf(f) = 2 * f.page.no /\ FirstHalf(g) = 2 * f.page.no + 1 /\ f.page.no \in Nat
      BY <1>2, HalfFields, DownlinkBounds
    <2>2. QED
      BY <2>1
  <1>3. QED
    BY <1>1, <1>2 DEF Precedes

(* What was sent of a reply lies before the half that comes next.          *)
LEMMA HalvesSent ==
  ASSUME Types, NEW f \in Fragment, WasSent(f), f.page.reply = server.reply
  PROVE  LastHalf(f) < NextHalf
  <1>1. /\ server.reply \in Nat /\ server.page \in Nat /\ server.front \in BOOLEAN
        /\ f.page.no \in Nat
    BY HalfFields, DownlinkBounds DEF Types, LineTypes
  <1>2. CASE f.page.no < server.page
    BY <1>1, <1>2, HalfFields DEF NextHalf, LastHalf
  <1>3. CASE f.page.no = server.page /\ f.part = "front" /\ server.front
    BY <1>1, <1>3 DEF NextHalf, LastHalf
  <1>4. QED
    BY <1>1, <1>2, <1>3 DEF WasSent

(* The server sends the halves one after the other. *)
LEMMA NextHalves ==
  ASSUME Types, ServerSendsPage
  PROVE  \E new \in Fragment :
           /\ \A f \in Fragment : Upstream(f)' <=> Upstream(f) \/ f = new
           /\ server'.reply = server.reply /\ new.page.reply = server.reply
           /\ server.page <= LastPage
           /\ FirstHalf(new) = NextHalf /\ LastHalf(new) + 1 = NextHalf'
  <1>1. PICK part \in {"all", "front", "back"} :
          /\ part = "back" <=> server.front
          /\ Says([kind |-> "audio", data |-> Sends(part)])
          /\ Sends(part) \in Fragment
          /\ server'.reply = server.reply
          /\ server.page \in 0..LastPage
          /\ part = "front" => server'.page = server.page /\ server'.front
          /\ part # "front" => server'.page = server.page + 1 /\ ~server'.front
    BY ServerSends DEF Types
  <1>2. PICK new \in Fragment : new = Sends(part)
    BY <1>1
  <1>3. \A f : Upstream(f)' <=> Upstream(f) \/ f = new
    BY <1>1, <1>2, SaysAudio DEF Upstream, InSync
  <1>4. new.page.reply = server.reply /\ new.page.no = server.page /\ new.part = part
    BY <1>2 DEF Sends
  <1>5. server.page \in Nat /\ server.front \in BOOLEAN /\ server.page <= LastPage
    BY <1>1, DownlinkBounds DEF Types, LineTypes
  <1>6. FirstHalf(new) = NextHalf
    BY <1>1, <1>4 DEF FirstHalf, NextHalf
  <1>7. LastHalf(new) + 1 = NextHalf'
    <2>1. CASE part = "front"
      BY <1>1, <1>4, <1>5, <2>1 DEF LastHalf, NextHalf
    <2>2. CASE part # "front"
      BY <1>1, <1>4, <1>5, <2>2 DEF LastHalf, NextHalf
    <2>3. QED
      BY <2>1, <2>2
  <1>8. QED
    BY <1>1, <1>3, <1>4, <1>5, <1>6, <1>7

(* Where nothing is missing from a half on, nothing is from a later one    *)
(* on.                                                                     *)
LEMMA GapsUp ==
  ASSUME NEW r, NEW m \in Nat, NEW n \in Nat, NoGaps(r, m), m <= n
  PROVE  NoGaps(r, n)
  BY DownlinkBounds DEF NoGaps, Half

(* What stays is covered still, when only what comes after it or only what *)
(* comes before it goes.                                                   *)
LEMMA CoveredAbove ==
  ASSUME Types, Arriving, NEW n \in Nat, SyncGone(n), NEW r, NEW a \in Half, NEW b \in Half,
         Covered(r, a)', Covered(r, b), a <= b
  PROVE  Covered(r, b)'
  <1>1. PICK g \in Fragment : Upstream(g)' /\ Carries(g, r, a)
    BY DEF Covered, Carries, FirstHalf, LastHalf
  <1>2. PICK f \in Fragment : Upstream(f) /\ Carries(f, r, b)
    BY DEF Covered
  <1>3. CASE Upstream(f)'
    BY <1>2, <1>3 DEF Covered, Carries, FirstHalf, LastHalf
  <1>4. CASE ~Upstream(f)'
    <2>1. Precedes(f, g)
      BY <1>1, <1>2, <1>4, SyncStaysInOrder
    <2>2. LastHalf(f) < FirstHalf(g)
      BY <1>1, <1>2, <2>1, HalvesInOrder DEF Carries
    <2>3. /\ LastHalf(f) \in Nat /\ FirstHalf(g) \in Nat /\ a \in Nat /\ b \in Nat
          /\ FirstHalf(g) <= a /\ b <= LastHalf(f)
      BY <1>1, <1>2, HalfFields, DownlinkBounds DEF Carries, Half
    <2>4. QED
      BY <2>2, <2>3
  <1>5. QED
    BY <1>3, <1>4

(* A lost connection takes only what comes after all that stays.           *)
LEMMA CoveredBelow ==
  ASSUME Types, Arriving, NetDrops, NEW r, NEW b \in Half, NEW c \in Half,
         Covered(r, c)', Covered(r, b), b <= c
  PROVE  Covered(r, b)'
  <1>1. PICK g \in Fragment : Upstream(g)' /\ Carries(g, r, c)
    BY DEF Covered, Carries, FirstHalf, LastHalf
  <1>2. PICK f \in Fragment : Upstream(f) /\ Carries(f, r, b)
    BY DEF Covered
  <1>3. sync' = sync /\ net' = <<>>
    BY DEF NetDrops, device
  <1>4. CASE InSync(f)
    <2>1. Upstream(f)'
      BY <1>3, <1>4 DEF Upstream, InSync
    <2>2. QED
      BY <1>2, <2>1 DEF Covered, Carries, FirstHalf, LastHalf
  <1>5. CASE ~InSync(f)
    <2>1. InSync(g) /\ InNet(f)
      BY <1>1, <1>2, <1>3, <1>5 DEF Upstream, InSync, InNet
    <2>2. LastHalf(g) < FirstHalf(f)
      BY <1>1, <1>2, <2>1, HalvesInOrder DEF Arriving, Carries
    <2>3. /\ LastHalf(g) \in Nat /\ FirstHalf(f) \in Nat /\ b \in Nat /\ c \in Nat
          /\ FirstHalf(f) <= b /\ c <= LastHalf(g)
      BY <1>1, <1>2, HalfFields, DownlinkBounds DEF Carries, Half
    <2>4. QED
      BY <2>2, <2>3
  <1>6. QED
    BY <1>4, <1>5

(* Which halves are on their way follows from which fragments are. *)
LEMMA CoveredFollows ==
  /\ (\A f \in Fragment : Upstream(f)' => Upstream(f)) =>
       \A r, h : Covered(r, h)' => Covered(r, h)
  /\ (\A f \in Fragment : Upstream(f)' <=> Upstream(f)) =>
       \A r, h : Covered(r, h)' <=> Covered(r, h)
  BY DEF Covered, Carries, FirstHalf, LastHalf

(* Whether there are gaps depends on the line and the server alone.        *)
LEMMA GapsSame ==
  ASSUME \A f \in Fragment : Upstream(f)' <=> Upstream(f), server' = server,
         NEW r, NEW from
  PROVE  NoGaps(r, from)' <=> NoGaps(r, from)
  <1>1. \A h : Covered(r, h)' <=> Covered(r, h)
    BY CoveredFollows
  <1>2. NextHalf' = NextHalf /\ (Sending(r)' <=> Sending(r))
    BY DEF NextHalf, Sending
  <1>3. Half' = Half
    BY DEF Half
  <1>4. QED
    BY <1>1, <1>2, <1>3 DEF NoGaps

(* With a fragment of the server's the halves grow at their end. *)
LEMMA SentWithoutGap ==
  ASSUME Types, Arriving, ServerSendsPage,
         NEW r, NEW from \in Nat, NoGaps(r, from) \/ (r = server.reply /\ NextHalf <= from)
  PROVE  NoGaps(r, from)'
  <1>1. PICK new \in Fragment :
          /\ \A f \in Fragment : Upstream(f)' <=> Upstream(f) \/ f = new
          /\ server'.reply = server.reply /\ new.page.reply = server.reply
          /\ server.page <= LastPage
          /\ FirstHalf(new) = NextHalf /\ LastHalf(new) + 1 = NextHalf'
    BY NextHalves
  <1>2. \A h \in Half : Covered(r, h)' <=> Covered(r, h) \/ Carries(new, r, h)
    BY <1>1 DEF Covered, Carries, FirstHalf, LastHalf
  <1>3. \A h \in Half : Covered(r, h) /\ r = server.reply => h < NextHalf
    <2>1. ASSUME NEW h \in Half, NEW f \in Fragment, Upstream(f), Carries(f, r, h),
                 r = server.reply
          PROVE  h < NextHalf
      <3>1. LastHalf(f) < NextHalf
        BY <2>1, HalvesSent DEF Arriving, Carries
      <3>2. h \in Nat /\ LastHalf(f) \in Nat /\ h <= LastHalf(f) /\ NextHalf \in Nat
        BY <2>1, <1>1, HalfFields, DownlinkBounds DEF Carries, Half
      <3>3. QED
        BY <3>1, <3>2
    <2>2. QED
      BY <2>1 DEF Covered
  <1>4. /\ NextHalf \in Nat /\ LastHalf(new) \in Nat /\ NextHalf <= LastHalf(new)
        /\ Half \subseteq Nat
    BY <1>1, HalfFields, DownlinkBounds DEF Half
  <1>5. CASE r # server.reply
    <2>1. \A h \in Half : Covered(r, h)' <=> Covered(r, h)
      BY <1>1, <1>2, <1>5 DEF Carries
    <2>2. ~Sending(r)' /\ NoGaps(r, from)
      BY <1>1, <1>5 DEF Sending
    <2>3. Half' = Half
      BY DEF Half
    <2>4. QED
      BY <2>1, <2>2, <2>3 DEF NoGaps
  <1>6. CASE r = server.reply
    <2>1. \A h \in Half : Carries(new, r, h) <=> NextHalf <= h /\ h <= LastHalf(new)
      BY <1>1, <1>6 DEF Carries
    <2>2. \A b \in Half : from <= b /\ b < NextHalf => Covered(r, b)
      BY <1>1, <1>4, <1>6 DEF NoGaps, Sending
    <2>3. \A b \in Half : from <= b /\ b < NextHalf' => Covered(r, b)'
      BY <1>1, <1>2, <1>4, <2>1, <2>2
    <2>4. \A c \in Half : Covered(r, c)' => c < NextHalf'
      BY <1>1, <1>2, <1>3, <1>4, <1>6, <2>1
    <2>5. \A b, c \in Half : from <= b /\ b < c /\ Covered(r, c)' => Covered(r, b)'
      BY <1>1, <1>4, <2>3, <2>4
    <2>6. Half' = Half
      BY DEF Half
    <2>7. QED
      BY <2>3, <2>5, <2>6 DEF NoGaps
  <1>7. QED
    BY <1>5, <1>6

(* A reply that ends, breaks off or is lost leaves no gap behind.          *)
LEMMA StopsWithoutGap ==
  ASSUME Types, Arriving, ServerReplies \/ ServerEnds \/ ServerBreaksOff \/ NetDrops,
         NEW r, NEW from, NoGaps(r, from)
  PROVE  NoGaps(r, from)'
  <1>1. ~Sending(r)' \/ NextHalf' = 0
    <2>1. CASE ServerReplies
      BY <2>1 DEF ServerReplies, NextHalf
    <2>2. CASE ServerEnds \/ ServerBreaksOff \/ NetDrops
      <3>1. server'.page = LastPage + 2
        BY <2>2, ServerMoves DEF Types
      <3>2. QED
        BY <3>1, DownlinkBounds DEF Sending
    <2>3. QED
      BY <2>1, <2>2
  <1>2. Half' = Half /\ \A b \in Half : ~(b < 0)
    BY DownlinkBounds DEF Half
  <1>3. CASE NetDrops
    <2>1. \A f \in Fragment : Upstream(f)' => Upstream(f)
      BY <1>3 DEF NetDrops, device, Upstream, InSync, InNet
    <2>2. \A h : Covered(r, h)' => Covered(r, h)
      BY <2>1, CoveredFollows
    <2>3. ASSUME NEW b \in Half, NEW c \in Half, from <= b, b < c, Covered(r, c)'
          PROVE  Covered(r, b)'
      <3>1. Covered(r, b) /\ b <= c
        BY <2>2, <2>3, DownlinkBounds DEF NoGaps, Half
      <3>2. QED
        BY <1>3, <2>3, <3>1, CoveredBelow
    <2>4. QED
      BY <1>1, <1>2, <2>3 DEF NoGaps
  <1>4. CASE ~NetDrops
    <2>1. PICK k \in {"query_end", "tts_ended", "clear_cache", "fatal"} : Says([kind |-> k])
      BY <1>4 DEF ServerReplies, ServerEnds, ServerBreaksOff
    <2>2. [kind |-> k] \in Message /\ [kind |-> k].kind # "audio"
      BY DEF Message
    <2>3. sync' = sync /\ \A f : InNet(f)' <=> InNet(f)
      BY <2>1, <2>2, SaysNoAudio
    <2>4. \A f \in Fragment : Upstream(f)' <=> Upstream(f)
      BY <2>3 DEF Upstream, InSync
    <2>5. \A h : Covered(r, h)' <=> Covered(r, h)
      BY <2>4, CoveredFollows
    <2>6. QED
      BY <1>1, <1>2, <2>5 DEF NoGaps
  <1>5. QED
    BY <1>3, <1>4

(* The steps that take nothing from ogg_sync. *)
NothingTaken == UNCHANGED <<server, net, sync>> \/ WsTakes \/ ServerOrNet

(* A stretch without gaps stays one, unless the demultiplexer takes from it. *)
LEMMA GapsKept ==
  ASSUME Types, Arriving, Next, NothingTaken,
         NEW r, NEW from \in Nat, NoGaps(r, from)
  PROVE  NoGaps(r, from)'
  <1>1. CASE UNCHANGED <<server, net, sync>>
    <2>1. \A f \in Fragment : Upstream(f)' <=> Upstream(f)
      BY <1>1 DEF Upstream, InSync, InNet
    <2>2. QED
      BY <1>1, <2>1, GapsSame
  <1>2. CASE WsTakes
    <2>1. server' = server
      BY <1>2 DEF WsTakes
    <2>2. QED
      BY <1>2, <2>1, WsTakesInOrder, GapsSame
  <1>3. CASE ServerSendsPage
    BY <1>3, SentWithoutGap
  <1>4. CASE ServerReplies \/ ServerEnds \/ ServerBreaksOff \/ NetDrops
    BY <1>4, StopsWithoutGap
  <1>5. QED
    BY <1>1, <1>2, <1>3, <1>4 DEF NothingTaken, ServerOrNet

(* What goes from the front of ogg_sync leaves no gap after what stays.    *)
LEMMA GoneWithoutGap ==
  ASSUME Types, Arriving, NEW n \in Nat, SyncGone(n),
         NEW r, NEW a \in Half, Covered(r, a)', NoGaps(r, a)
  PROVE  NoGaps(r, a)'
  <1>1. \A h : Covered(r, h)' => Covered(r, h)
    BY SyncStaysInOrder, CoveredFollows
  <1>2. server' = server
    BY DEF SyncGone
  <1>3. NextHalf' = NextHalf /\ (Sending(r)' <=> Sending(r)) /\ Half' = Half
    BY <1>2 DEF NextHalf, Sending, Half
  <1>4. \A b \in Half : a <= b /\ Covered(r, b) => Covered(r, b)'
    BY CoveredAbove
  <1>5. QED
    BY <1>1, <1>3, <1>4 DEF NoGaps

(* Every step leaves the replies that arrive without gaps, each from its   *)
(* first half that is still to come.                                       *)
LEMMA ContiguouslyKept ==
  ASSUME Types, Arriving, Contiguously, Next
  PROVE  Contiguously'
  <1>1. Half \subseteq Nat /\ Half' = Half
    BY DownlinkBounds DEF Half
  <1>2. SUFFICES ASSUME NEW r \in 1..MaxReplies, NEW a \in Half, Covered(r, a)'
                 PROVE  NoGaps(r, a)'
    BY <1>1 DEF Contiguously
  <1>3. CASE ServerSendsPage
    <2>1. PICK new \in Fragment :
            /\ \A f \in Fragment : Upstream(f)' <=> Upstream(f) \/ f = new
            /\ new.page.reply = server.reply /\ FirstHalf(new) = NextHalf
      BY <1>3, NextHalves
    <2>2. Covered(r, a) \/ Carries(new, r, a)
      BY <1>2, <2>1 DEF Covered, Carries, FirstHalf, LastHalf
    <2>3. NoGaps(r, a) \/ (r = server.reply /\ NextHalf <= a)
      BY <2>1, <2>2 DEF Contiguously, Carries
    <2>4. QED
      BY <1>1, <1>3, <2>3, SentWithoutGap
  <1>4. CASE ~WsTakes /\ ~ServerOrNet
    <2>1. PICK n \in Nat : SyncGone(n)
      BY <1>4, SyncMoves DEF Types, LineTypes
    <2>2. Covered(r, a)
      BY <1>2, <2>1, SyncStaysInOrder, CoveredFollows
    <2>3. QED
      BY <1>2, <2>1, <2>2, GoneWithoutGap DEF Contiguously
  <1>5. CASE WsTakes
    <2>1. server' = server
      BY <1>5 DEF WsTakes
    <2>2. Covered(r, a)
      BY <1>2, <1>5, WsTakesInOrder, CoveredFollows
    <2>3. NoGaps(r, a)
      BY <2>2 DEF Contiguously
    <2>4. QED
      BY <1>5, <2>1, <2>3, WsTakesInOrder, GapsSame
  <1>6. CASE ServerReplies \/ ServerEnds \/ ServerBreaksOff \/ NetDrops
    <2>1. Covered(r, a)
      <3>1. CASE NetDrops
        BY <1>2, <3>1, CoveredFollows DEF NetDrops, device, Upstream, InSync, InNet
      <3>2. CASE ServerReplies \/ ServerEnds \/ ServerBreaksOff
        <4>1. PICK k \in {"query_end", "tts_ended", "clear_cache", "fatal"} : Says([kind |-> k])
          BY <3>2 DEF ServerReplies, ServerEnds, ServerBreaksOff
        <4>2. [kind |-> k] \in Message /\ [kind |-> k].kind # "audio"
          BY DEF Message
        <4>3. sync' = sync /\ \A f : InNet(f)' <=> InNet(f)
          BY <4>1, <4>2, SaysNoAudio
        <4>4. QED
          BY <1>2, <4>3, CoveredFollows DEF Upstream, InSync
      <3>3. QED
        BY <1>6, <3>1, <3>2
    <2>2. QED
      BY <1>6, <2>1, StopsWithoutGap DEF Contiguously
  <1>7. QED
    BY <1>3, <1>4, <1>5, <1>6 DEF ServerOrNet

(* The second half of a page is carried by no fragment of another page.    *)
LEMMA HalfOfPage ==
  ASSUME NEW f \in Fragment, NEW r, NEW q \in Nat, Carries(f, r, 2 * q + 1)
  PROVE  f.page.no = q
  <1>1. PICK no \in Nat : no = f.page.no
    BY FragmentFields, PageFields
  <1>2. PICK first \in Nat, last \in Nat : first = FirstHalf(f) /\ last = LastHalf(f)
    BY HalfFields, DownlinkBounds DEF Half
  <1>3. 2 * no <= first /\ last <= 2 * no + 1
    BY <1>1, <1>2, HalfFields
  <1>4. first <= 2 * q + 1 /\ 2 * q + 1 <= last
    BY <1>2 DEF Carries
  <1>5. no = q
    BY <1>3, <1>4
  <1>6. QED
    BY <1>1, <1>5

(* The first fragment in ogg_sync is the first of all. *)
LEMMA FirstOfAll ==
  ASSUME Types, Arriving, sync # <<>>
  PROVE  /\ sync[1] \in Fragment /\ Upstream(sync[1])
         /\ \A f \in Fragment : Upstream(f) => f = sync[1] \/ Precedes(sync[1], f)
         /\ \A h \in Half : Covered(sync[1].page.reply, h) => FirstHalf(sync[1]) <= h
  <1>1. sync \in Seq(Fragment) /\ 1 \in 1..Len(sync)
    BY DEF Types, LineTypes
  <1>2. sync[1] \in Fragment /\ InSync(sync[1])
    BY <1>1 DEF InSync
  <1>3. \A f \in Fragment : Upstream(f) => f = sync[1] \/ Precedes(sync[1], f)
    <2>1. \A i \in 1..Len(sync) : sync[i] = sync[1] \/ Precedes(sync[1], sync[i])
      BY <1>1 DEF Arriving
    <2>2. QED
      BY <1>2, <2>1 DEF Arriving, Upstream, InSync
  <1>4. ASSUME NEW h \in Half, NEW f \in Fragment, Upstream(f), Carries(f, sync[1].page.reply, h)
        PROVE  FirstHalf(sync[1]) <= h
    <2>1. FirstHalf(f) <= h /\ f.page.reply = sync[1].page.reply
      BY <1>4 DEF Carries
    <2>2. /\ h \in Nat /\ FirstHalf(f) \in Nat /\ FirstHalf(sync[1]) \in Nat
          /\ LastHalf(sync[1]) \in Nat /\ FirstHalf(sync[1]) <= LastHalf(sync[1])
      BY <1>2, HalfFields, DownlinkBounds DEF Half
    <2>3. CASE f = sync[1]
      BY <2>1, <2>3
    <2>4. CASE Precedes(sync[1], f)
      <3>1. LastHalf(sync[1]) < FirstHalf(f)
        BY <1>2, <2>1, <2>4, HalvesInOrder
      <3>2. QED
        BY <2>1, <2>2, <3>1
    <2>5. QED
      BY <1>3, <1>4, <2>3, <2>4
  <1>5. QED
    BY <1>2, <1>3, <1>4 DEF Upstream, Covered

(* What goes from ogg_sync below the stretch leaves no gap in it. *)
LEMMA GoneBelow ==
  ASSUME Types, Arriving, NEW n \in 0..2, SyncGone(n),
         NEW r, NEW from \in Nat, NoGaps(r, from),
         \A i \in 1..n : sync[i].page.reply # r \/ LastHalf(sync[i]) < from
  PROVE  NoGaps(r, from)'
  <1>1. /\ \A f \in Fragment : Upstream(f)' => Upstream(f)
        /\ \A f \in Fragment : Upstream(f) =>
             Upstream(f)' \/ \E i \in 1..n : i \in 1..Len(sync) /\ f = sync[i]
    BY SyncStaysInOrder
  <1>2. \A h : Covered(r, h)' => Covered(r, h)
    BY <1>1, CoveredFollows
  <1>3. Half \subseteq Nat /\ Half' = Half
    BY DownlinkBounds DEF Half
  <1>4. ASSUME NEW h \in Half, from <= h, Covered(r, h) PROVE Covered(r, h)'
    <2>1. PICK f \in Fragment : Upstream(f) /\ Carries(f, r, h)
      BY <1>4 DEF Covered
    <2>2. h <= LastHalf(f) /\ f.page.reply = r /\ LastHalf(f) \in Nat
      BY <1>3, <2>1, HalfFields DEF Carries
    <2>3. Upstream(f)'
      BY <1>1, <1>3, <1>4, <2>1, <2>2
    <2>4. QED
      BY <2>1, <2>3 DEF Covered, Carries, FirstHalf, LastHalf
  <1>5. server' = server
    BY DEF SyncGone
  <1>6. NextHalf' = NextHalf /\ (Sending(r)' <=> Sending(r))
    BY <1>5 DEF NextHalf, Sending
  <1>7. QED
    BY <1>2, <1>3, <1>4, <1>6 DEF NoGaps

(* A front whose back does not follow was the last of its reply. *)
LEMMA FrontWithoutBack ==
  ASSUME Types, Arriving, SyncGone(1),
         NEW r \in Nat, NEW next \in Nat, NEW from \in Nat, from = 2 * next, NoGaps(r, from),
         \A f \in Fragment : Upstream(f) /\ f.page.reply = r => next <= f.page.no,
         Len(sync) > 1, sync[1].part = "front", sync[1].page.reply = r,
         sync[2].page # sync[1].page \/ sync[2].part # "back"
  PROVE  NoGaps(r, from)'
  <1>1. sync \in Seq(Fragment) /\ sync # <<>> /\ 1 \in 1..Len(sync) /\ 2 \in 1..Len(sync)
    BY DEF Types, LineTypes
  <1>2. PICK f \in Fragment : f = sync[1]
    BY <1>1
  <1>3. PICK g \in Fragment : g = sync[2]
    BY <1>1
  <1>4. Upstream(f) /\ Upstream(g) /\ Precedes(f, g)
    BY <1>1, <1>2, <1>3 DEF Arriving, Upstream, InSync
  <1>5. PICK q \in 0..LastPage : q = f.page.no
    BY HalfFields
  <1>6. /\ q \in Nat /\ next <= q
        /\ 2 * q + 1 \in Half /\ from <= 2 * q + 1
        /\ LastHalf(f) = 2 * q /\ FirstHalf(f) = 2 * q
    <2>1. q \in Nat
      BY <1>5, DownlinkBounds
    <2>2. next <= q
      BY <1>2, <1>4, <1>5
    <2>3. LastHalf(f) = 2 * q /\ FirstHalf(f) = 2 * q
      BY <1>2, <1>5, HalfFields
    <2>4. q <= LastPage /\ LastPage \in Nat
      BY <1>5, DownlinkBounds
    <2>5. 2 * q + 1 \in 0..(2 * LastPage + 1)
      BY <2>1, <2>4
    <2>6. from <= 2 * q + 1
      BY <2>1, <2>2
    <2>7. QED
      BY <2>1, <2>2, <2>3, <2>5, <2>6 DEF Half
  <1>7. ~Covered(r, 2 * q + 1)
    <2>1. SUFFICES ASSUME NEW b \in Fragment, Upstream(b), Carries(b, r, 2 * q + 1)
                   PROVE  FALSE
      BY DEF Covered
    <2>2. /\ b.page.reply = r /\ FirstHalf(b) <= 2 * q + 1
          /\ 2 * q + 1 <= LastHalf(b)
      BY <2>1 DEF Carries
    <2>3. b.page.no = q /\ b.page = f.page
      <3>1. b.page.no = q
        BY <1>6, <2>1, HalfOfPage
      <3>2. b.page \in Page /\ f.page \in Page
        BY FragmentFields
      <3>3. QED
        <4>1. \A p1, p2 \in Page : p1.reply = p2.reply /\ p1.no = p2.no => p1 = p2
          BY DEF Page
        <4>2. b.page.reply = f.page.reply /\ b.page.no = f.page.no
          BY <1>2, <1>5, <2>2, <3>1
        <4>3. QED
          BY <3>1, <3>2, <4>1, <4>2
    <2>4. b # f
      BY <1>6, <2>2
    <2>5. Precedes(f, b)
      BY <1>1, <1>2, <2>1, <2>4, FirstOfAll
    <2>6. b.part = "back" /\ b # g
      BY <1>2, <1>3, <2>3, <2>5, BeforeIsAnOrder, FragmentFields DEF Precedes
    <2>7. Precedes(g, b)
      <3>1. CASE InNet(b)
        BY <1>1, <1>3, <3>1 DEF Arriving, InSync
      <3>2. ASSUME NEW i \in 1..Len(sync), sync[i] = b PROVE Precedes(g, b)
        <4>1. i \in Nat /\ i # 1 /\ i # 2 /\ 1 <= i
          BY <1>1, <1>2, <1>3, <2>4, <2>6, <3>2
        <4>2. 2 < i
          BY <4>1
        <4>3. QED
          BY <1>1, <1>3, <3>2, <4>2 DEF Arriving
      <3>3. QED
        BY <2>1, <3>1, <3>2 DEF Upstream, InSync
    <2>8. CASE g.page = f.page
      <3>1. g.part = "back"
        BY <1>4, <2>8, BeforeIsAnOrder, FragmentFields DEF Precedes
      <3>2. QED
        BY <1>2, <1>3, <2>8, <3>1
    <2>9. CASE g.page # f.page
      <3>1. Before(f.page, g.page)
        BY <1>4, <2>9 DEF Precedes
      <3>2. Before(g.page, f.page)
        BY <2>3, <2>7, <2>9 DEF Precedes
      <3>3. QED
        BY <3>1, <3>2, BeforeIsAnOrder, FragmentFields
    <2>10. QED
      BY <2>8, <2>9
  <1>8. NoGaps(r, from)
    OBVIOUS
  <1>9. ~Sending(r)
    <2>1. SUFFICES ASSUME Sending(r) PROVE FALSE
      OBVIOUS
    <2>2. /\ server.reply \in Nat /\ server.page \in Nat /\ server.front \in BOOLEAN
          /\ NextHalf \in Nat
      BY DEF Types, LineTypes, NextHalf
    <2>3. NextHalf <= 2 * q + 1
      <3>1. \A b \in Half : from <= b /\ b < NextHalf => Covered(r, b)
        BY <1>8, <2>1 DEF NoGaps
      <3>2. ~(2 * q + 1 < NextHalf)
        BY <1>6, <1>7, <3>1
      <3>3. QED
        BY <1>6, <2>2, <3>2
    <2>4. g.page.reply = f.page.reply
      <3>1. WasSent(g) /\ server.reply = f.page.reply
        BY <1>1, <1>2, <1>4, <2>1 DEF Arriving, Sending
      <3>2. g.page.reply \in Nat /\ f.page.reply \in Nat
        BY FragmentFields, PageFields
      <3>3. g.page.reply <= f.page.reply
        BY <2>2, <3>1, <3>2 DEF WasSent
      <3>4. f.page.reply <= g.page.reply
        BY <1>4, <3>2 DEF Precedes, Before
      <3>5. QED
        BY <3>2, <3>3, <3>4
    <2>5. LastHalf(f) < FirstHalf(g)
      BY <1>4, <2>4, HalvesInOrder
    <2>6. LastHalf(g) < NextHalf
      BY <1>1, <1>2, <1>4, <2>1, <2>4, HalvesSent DEF Arriving, Sending
    <2>7. FirstHalf(g) \in Nat /\ LastHalf(g) \in Nat /\ FirstHalf(g) <= LastHalf(g)
      BY HalfFields, DownlinkBounds DEF Half
    <2>8. QED
      BY <1>6, <2>2, <2>3, <2>5, <2>6, <2>7
  <1>10. ~Sending(r)'
    BY <1>9 DEF SyncGone, Sending
  <1>11. \A h \in Half : ~Covered(r, h)'
    <2>1. SUFFICES ASSUME NEW h \in Half, NEW b \in Fragment, Upstream(b)',
                          Carries(b, r, h)
                   PROVE  FALSE
      BY DEF Covered, Carries, FirstHalf, LastHalf
    <2>2. Upstream(b) /\ Precedes(f, b)
      BY <1>1, <1>2, <2>1, SyncStaysInOrder
    <2>3. b.page.reply = r /\ FirstHalf(b) <= h /\ h <= LastHalf(b)
      BY <2>1 DEF Carries
    <2>4. LastHalf(f) < FirstHalf(b)
      BY <1>2, <2>2, <2>3, HalvesInOrder
    <2>5. h \in Nat /\ FirstHalf(b) \in Nat
      BY HalfFields, DownlinkBounds DEF Half
    <2>6. 2 * q < h /\ Covered(r, h)
      BY <1>6, <2>1, <2>2, <2>3, <2>4, <2>5 DEF Covered
    <2>7. h = 2 * q + 1 \/ 2 * q + 1 < h
      BY <1>6, <2>5, <2>6
    <2>8. QED
      BY <1>6, <1>7, <1>8, <2>6, <2>7 DEF NoGaps
  <1>12. QED
    <2>1. Half' = Half
      BY DEF Half
    <2>2. QED
      BY <1>10, <1>11, <2>1 DEF NoGaps

(* The page that leaves ogg_sync, r its reply and q its number: what comes *)
(* after it arrives as it did, and of its reply nothing came before it.    *)
LEMMA PageInTurn ==
  ASSUME Types, Arriving, Contiguously, PageOut,
         NEW r \in 1..MaxReplies, NEW q \in Nat, r = sync[1].page.reply, q = sync[1].page.no
  PROVE  /\ \A s, from \in Nat :
              NoGaps(s, from) /\ (s # r \/ 2 * q + 1 < from) => NoGaps(s, from)'
         /\ q = 0 => NoGaps(r, 2)'
         /\ \A next \in Nat : next <= q /\ NoGaps(r, 2 * next) =>
              q = next /\ \A from \in Nat : from = 2 * (next + 1) => NoGaps(r, from)'
  <1>1. PICK page \in Page : sync # <<>> /\ page = sync[1].page /\ page = [reply |-> r, no |-> q]
    <2>1. sync # <<>> /\ sync[1].page \in Page
      BY PageFound, FragmentFields
    <2>2. QED
      BY <2>1 DEF Page
  <1>2. PICK n \in 1..2 : SyncGone(n) /\ PageParts(n)
    BY PageLeavesSync DEF Types, LineTypes
  <1>3. PICK first \in Fragment : first = sync[1]
    BY <1>1, FirstOfAll
  <1>4. /\ Upstream(first) /\ first.page = page /\ first.part # "back" /\ Arriving
        /\ \A h \in Half : Covered(page.reply, h) => FirstHalf(first) <= h
    BY <1>1, <1>2, <1>3, FirstOfAll DEF PageParts
  <1>5. q = page.no /\ r = page.reply
    BY <1>1
  <1>6. /\ page = [reply |-> r, no |-> q] /\ q <= LastPage /\ FirstHalf(first) = 2 * q
        /\ 2 * q \in Half /\ Covered(r, 2 * q)
    <2>1. q \in 0..LastPage /\ FirstHalf(first) = 2 * q /\ FirstHalf(first) \in Half
          /\ FirstHalf(first) <= LastHalf(first)
      BY <1>3, <1>4, <1>5, HalfFields
    <2>2. Covered(r, 2 * q)
      <3>1. 2 * q <= 2 * q
        BY <2>1, DownlinkBounds
      <3>2. QED
        BY <1>4, <1>5, <2>1, <3>1 DEF Covered, Carries
    <2>3. q <= LastPage
      BY <2>1, DownlinkBounds
    <2>4. page = [reply |-> r, no |-> q]
      BY <1>5 DEF Page
    <2>5. QED
      BY <2>1, <2>2, <2>3, <2>4
  <1>7. \A i \in 1..n : i \in 1..Len(sync) /\ sync[i].page = page /\ LastHalf(sync[i]) <= 2 * q + 1
    <2>1. sync \in Seq(Fragment) /\ n <= Len(sync)
      BY <1>2 DEF SyncGone, Types, LineTypes
    <2>2. \A i \in 1..n : i \in 1..Len(sync) /\ sync[i] \in Fragment
      BY <2>1
    <2>3. \A i \in 1..n : sync[i].page = page
      <3>1. sync[1].page = page
        BY <1>1
      <3>2. QED
        BY <1>2, <3>1 DEF PageParts
    <2>4. \A i \in 1..n : LastHalf(sync[i]) <= 2 * q + 1
      <3>1. \A f \in Fragment : f.page = page => LastHalf(f) <= 2 * q + 1
        BY <1>5, HalfFields
      <3>2. QED
        BY <2>2, <2>3, <3>1
    <2>5. QED
      BY <2>2, <2>3, <2>4
  <1>8. ASSUME NEW s \in Nat, NEW from \in Nat, NoGaps(s, from), s # r \/ 2 * q + 1 < from
        PROVE  NoGaps(s, from)'
    <2>1. n \in 0..2 /\ 1..n \subseteq Nat
      BY <1>2
    <2>2. \A i \in 1..n : sync[i].page.reply # s \/ LastHalf(sync[i]) < from
      <3>1. \A i \in 1..n : sync[i] \in Fragment /\ LastHalf(sync[i]) \in Nat
        BY <1>7, NetFragments, HalfFields, DownlinkBounds DEF Half
      <3>2. QED
        BY <1>5, <1>7, <1>8, <3>1
    <2>3. QED
      BY <1>2, <1>4, <1>8, <2>1, <2>2, GoneBelow
  <1>9. ASSUME q = 0 PROVE NoGaps(r, 2)'
    <2>1. NoGaps(r, 0)
      <3>1. 2 * q = 0
        BY <1>9
      <3>2. QED
        BY <1>6, <3>1 DEF Contiguously
    <2>2. NoGaps(r, 2)
      BY <2>1, GapsUp
    <2>3. 2 * q + 1 < 2 /\ r \in Nat
      BY <1>9
    <2>4. QED
      BY <1>8, <2>2, <2>3
  <1>10. ASSUME NEW next \in Nat, next <= q, NoGaps(r, 2 * next)
         PROVE  q = next /\ \A from \in Nat : from = 2 * (next + 1) => NoGaps(r, from)'
    <2>1. q = next
      <3>1. SUFFICES ASSUME next < q PROVE FALSE
        BY <1>10
      <3>2. 2 * next \in Half /\ 2 * next < 2 * q
        BY <1>6, <3>1, DownlinkBounds DEF Half
      <3>3. 2 * next <= 2 * next
        OBVIOUS
      <3>4. Covered(r, 2 * next)
        BY <1>6, <1>10, <3>2, <3>3 DEF NoGaps
      <3>5. 2 * q <= 2 * next
        BY <1>4, <1>5, <1>6, <3>2, <3>4
      <3>6. QED
        BY <3>1, <3>5
    <2>2. ASSUME NEW from \in Nat, from = 2 * (next + 1) PROVE NoGaps(r, from)'
      <3>1. 2 * next \in Nat /\ 2 * next <= from /\ 2 * q + 1 < from /\ r \in Nat
        BY <2>1, <2>2
      <3>2. NoGaps(r, from)
        BY <1>10, <3>1, GapsUp
      <3>3. QED
        BY <1>8, <3>1, <3>2
    <2>3. QED
      BY <2>1, <2>2
  <1>11. QED
    BY <1>8, <1>9, <1>10

(* The stretch after the next page, and what is ahead, after a step. *)
LEMMA StretchNext ==
  ASSUME NEW r, NEW n, NEW from, r = stream'.serial, n = Expected', from = 2 * n,
         NoGaps(r, from)', Ahead(n)'
  PROVE  NoGaps(stream.serial, 2 * Expected)' /\ Ahead(Expected)'
  <1>1. NoGaps(stream.serial, 2 * Expected)'
    BY DEF NoGaps, Covered, Sending, NextHalf, Carries, FirstHalf, LastHalf
  <1>2. Ahead(Expected)'
    BY DEF Ahead
  <1>3. QED
    BY <1>1, <1>2

(* They stay as they are, unless the demultiplexer takes from ogg_sync.    *)
LEMMA StretchKept ==
  ASSUME Types, Ordered, OfOneReply, Next, NothingTaken,
         StreamIsWhole, stream'.serial = stream.serial, Expected' = Expected
  PROVE  NoGaps(stream.serial, 2 * Expected)' /\ Ahead(Expected)'
  <1>1. PICK r \in Nat, n \in Nat, from \in Nat :
          r = stream.serial /\ n = Expected /\ from = 2 * n
    BY DownlinkBounds DEF Types, StreamTypes, Expected
  <1>2. NoGaps(r, from) /\ Ahead(n)
    BY <1>1 DEF StreamIsWhole
  <1>3. NoGaps(r, from)' /\ Ahead(n)'
    BY <1>2, GapsKept, AheadKept DEF Ordered
  <1>4. QED
    BY <1>1, <1>3, StretchNext

(* A whole stream that nothing is taken from or put into stays whole. *)
LEMMA StreamGoesOn ==
  ASSUME Types, Ordered, OfOneReply, Next, NothingTaken,
         StreamIsWhole, UNCHANGED <<stream, due, inited>>,
         ws' \in HasPage <=> ws \in HasPage, ws' \in HasPage => item' = item,
         ws' \notin {"begin", "serial"}
  PROVE  StreamIsWhole'
  <1>1. AtHandOfStream' <=> AtHandOfStream
    BY DEF AtHandOfStream
  <1>2. Expected' = Expected
    BY <1>1 DEF Expected
  <1>3. NoGaps(stream.serial, 2 * Expected)' /\ Ahead(Expected)'
    BY <1>2, StretchKept
  <1>4. AtHandOfStream' => item'.no = stream'.next
    BY <1>1 DEF AtHandOfStream, StreamIsWhole
  <1>5. QED
    BY <1>3, <1>4 DEF StreamIsWhole

(* What is at hand as the first page stays without a gap behind it.        *)
LEMMA BehindFirstPage ==
  ASSUME Types, Arriving, Next, NothingTaken,
         NoGaps(item.reply, 2), item' = item
  PROVE  NoGaps(item.reply, 2)'
  <1>1. PICK r : r = item.reply
    OBVIOUS
  <1>2. NoGaps(r, 2)
    BY <1>1
  <1>3. NoGaps(r, 2)'
    BY <1>2, GapsKept
  <1>4. r = item'.reply
    BY <1>1
  <1>5. QED
    BY <1>3, <1>4 DEF NoGaps, Covered, Sending, NextHalf, Carries, FirstHalf, LastHalf

(* No reset is between a whole reply and what it was before, and only a    *)
(* page that leaves ogg_sync begins one.                                   *)
LEMMA IntactMoves ==
  ASSUME Types, Next, intact', ws' # "ruined"
  PROVE  ws # "ruined" /\ ~Resets /\ (intact \/ PageOut)
  <1>1. ~Resets
    BY ResetLeaves DEF Resets
  <1>2. CASE DecodeOgg
    <2>1. ASSUME \/ CopyData \/ NoMorePages \/ FirstPage \/ StreamInited
                 \/ TestBos \/ NewSerial \/ TakePage
          PROVE  intact' = intact
      BY <2>1
      DEF CopyData, NoMorePages, FirstPage, StreamInited, TestBos, NewSerial, TakePage, History
    <2>2. ASSUME \/ NoMorePackets \/ PacketOut \/ TestParsed \/ SkipHeader \/ HeadersParsed
                 \/ Decode \/ StorePcm
          PROVE  intact' = intact
      BY <2>2
      DEF NoMorePackets, PacketOut, TestParsed, SkipHeader, HeadersParsed, Decode, StorePcm, History
    <2>3. intact \/ PageOut
      BY <1>2, <2>1, <2>2 DEF DecodeOgg
    <2>4. QED
      BY <1>1, <1>2, <2>3, DecodingLeavesWs
  <1>3. CASE ~DecodeOgg
    <2>1. WsTakes => intact' = intact
      BY DEF WsTakes
    <2>2. intact
      BY <1>1, <1>3, <2>1, OthersLeave
    <2>3. QED
      BY <1>1, <1>3, <2>2, WsMoves
  <1>4. QED
    BY <1>2, <1>3

(* Every step leaves the first page of the stream behind. *)
LEMMA BegunKept ==
  ASSUME Types, Ordered, OfOneReply, Begun, Next
  PROVE  Begun'
  <1> SUFFICES ASSUME stream'.serial # 0
               PROVE  Ahead(1)' /\ (ws' = "page" /\ item'.reply = stream'.serial => 1 <= item'.no)
    BY DEF Begun
  <1>1. CASE stream'.serial = stream.serial
    <2>1. Ahead(1) /\ (ws = "page" /\ item.reply = stream.serial => 1 <= item.no)
      BY <1>1 DEF Begun
    <2>2. Ahead(1)'
      BY <1>1, <2>1, AheadKept
    <2>3. CASE PageOut
      <3>1. sync # <<>> /\ item' = sync[1].page
        BY <2>3, PageFound
      <3>2. sync[1] \in Fragment /\ Upstream(sync[1])
        BY <3>1, FirstOfAll DEF Ordered
      <3>3. QED
        BY <1>1, <2>1, <2>2, <3>1, <3>2 DEF Ahead
    <2>4. CASE ~PageOut
      <3>1. ws' = "page" => ws = "page" /\ item' = item
        BY <2>4, DecodingLeavesWs, WsMoves
      <3>2. QED
        BY <1>1, <2>1, <2>2, <3>1
    <2>5. QED
      BY <2>3, <2>4
  <1>2. CASE Resets /\ stream' = NoStream
    BY <1>2 DEF NoStream
  <1>3. CASE /\ ws \in HasPage /\ stream' = NewStream(item.reply)
             /\ FirstPage \/ NewSerial
             /\ ws' \in {"begin", "pagein", "ruined"}
    <2>1. PICK page \in Page : page = item
      BY <1>3 DEF Types, StreamTypes
    <2>2. Past(page)
      BY <1>3, <2>1 DEF Ordered, AtHand
    <2>3. UNCHANGED <<server, net, sync>>
      BY <1>3 DEF FirstPage, NewSerial, DecoderOnly
    <2>4. stream'.serial = page.reply
      BY <1>3, <2>1 DEF NewStream
    <2>5. /\ page.no \in Nat /\ server.page \in Nat
          /\ \A f \in Fragment : f.page.no \in Nat
      BY FragmentFields, PageFields DEF Types, LineTypes
    <2>6. \A f \in Fragment : Upstream(f) /\ f.page.reply = page.reply => 1 <= f.page.no
      BY <2>2, <2>5, PastPage
    <2>7. server.reply = page.reply => 1 <= server.page
      BY <2>2, <2>5, PastPage
    <2>8. \A f : Upstream(f)' <=> Upstream(f)
      BY <2>3 DEF Upstream, InSync, InNet
    <2>9. Ahead(1)'
      BY <2>3, <2>4, <2>6, <2>7, <2>8 DEF Ahead
    <2>10. ws' # "page"
      BY <1>3 DEF FirstPage, Uses
    <2>11. QED
      BY <2>9, <2>10
  <1>4. QED
    BY <1>1, <1>2, <1>3, StreamMoves

(* The page that leaves ogg_sync is the one the stream expects, or begins  *)
(* another one.                                                            *)
LEMMA PageOutWhole ==
  ASSUME Types, Ordered, Headers, Whole, Next, PageOut, intact'
  PROVE  OnItsWay'
  <1>1. PICK page \in Page : /\ sync # <<>> /\ page = sync[1].page /\ item' = page
                             /\ ws' = "page" /\ ws = "pages"
    BY PageFound DEF PageOut
  <1>2. PICK r \in 1..MaxReplies, q \in Nat : r = page.reply /\ q = page.no
    BY PageFields DEF Page
  <1>3. r \in Nat /\ ws' \in HasPage /\ ws \notin HasPage /\ Arriving
    BY <1>1 DEF HasPage, Ordered
  <1>4. /\ \A s, from \in Nat :
             NoGaps(s, from) /\ (s # r \/ 2 * q + 1 < from) => NoGaps(s, from)'
        /\ q = 0 => NoGaps(r, 2)'
        /\ \A next \in Nat : next <= q /\ NoGaps(r, 2 * next) =>
             q = next /\ \A from \in Nat : from = 2 * (next + 1) => NoGaps(r, from)'
    BY <1>1, <1>2, <1>3, PageInTurn DEF Whole
  <1>5. UNCHANGED <<stream, inited, parsed, count, seen>>
    BY DEF PageOut, Flags
  <1>6. CASE q = 0
    <2>1. item'.no = 0 /\ due' = 0
      BY <1>1, <1>2, <1>6 DEF PageOut
    <2>2. NoGaps(item.reply, 2)'
      <3>1. r = item'.reply /\ NoGaps(r, 2)'
        BY <1>1, <1>2, <1>4, <1>6
      <3>2. QED
        BY <3>1 DEF NoGaps, Covered, Sending, NextHalf, Carries, FirstHalf, LastHalf
    <2>3. QED
      BY <1>1, <1>3, <2>1, <2>2 DEF OnItsWay, StreamBegins
  <1>7. CASE q # 0
    <2>1. item'.no # 0 /\ due' = due /\ intact
      BY <1>1, <1>2, <1>7 DEF PageOut, History
    <2>2. StreamIsWhole /\ HeadersCounted
      BY <1>1, <1>3, <2>1 DEF Whole, OnItsWay
    <2>3. HeadersCounted'
      BY <1>1, <1>5, <2>1, <2>2 DEF HeadersCounted
    <2>4. PICK s \in Nat, n \in Nat : s = stream.serial /\ n = stream.next
      BY DEF Types, StreamTypes
    <2>5. NoGaps(s, 2 * n) /\ Ahead(n) /\ 2 * n \in Nat
      BY <1>3, <2>2, <2>4 DEF StreamIsWhole, Expected, AtHandOfStream
    <2>6. Ahead(n)'
      BY <1>5, <2>5, AheadKept DEF Headers
    <2>7. /\ NoGaps(stream.serial, 2 * Expected)' /\ Ahead(Expected)'
          /\ AtHandOfStream' => item'.no = stream'.next
      <3>1. CASE r # s
        <4>1. ~AtHandOfStream'
          BY <1>1, <1>2, <1>5, <2>4, <3>1 DEF AtHandOfStream
        <4>2. n = Expected' /\ s = stream'.serial
          BY <1>5, <2>4, <4>1 DEF Expected
        <4>3. PICK from \in Nat : from = 2 * n
          BY <2>5
        <4>4. NoGaps(s, from)'
          BY <1>4, <2>5, <3>1, <4>3
        <4>5. QED
          BY <2>6, <4>1, <4>2, <4>3, <4>4, StretchNext
      <3>2. CASE r = s
        <4>1. n <= q
          BY <1>1, <1>2, <1>3, <2>4, <2>5, <3>2, FirstOfAll DEF Ahead
        <4>2. PICK from \in Nat, m \in Nat : m = n + 1 /\ from = 2 * m
          OBVIOUS
        <4>3. q = n /\ NoGaps(s, from)'
          BY <1>4, <2>5, <3>2, <4>1, <4>2
        <4>4. AtHandOfStream'
          BY <1>1, <1>2, <1>3, <1>5, <2>4, <3>2 DEF AtHandOfStream
        <4>5. m = Expected' /\ s = stream'.serial
          BY <1>5, <2>4, <4>2, <4>4 DEF Expected
        <4>6. Ahead(m)'
          <5>1. Past(page)'
            BY <1>1, <1>3, PageIsFirst
          <5>2. LineTypes'
            BY LineKept
          <5>3. server'.reply \in Nat /\ server'.page \in Nat
            BY <5>2 DEF LineTypes
          <5>4. \A f \in Fragment : Upstream(f)' /\ f.page.reply = s => m <= f.page.no
            <6>1. SUFFICES ASSUME NEW f \in Fragment, Upstream(f)', f.page.reply = s
                           PROVE  m <= f.page.no
              OBVIOUS
            <6>2. Before(page, f.page) /\ f.page.no \in Nat
              BY <5>1, <6>1, FragmentFields, PageFields DEF Past
            <6>3. q < f.page.no
              BY <1>2, <1>3, <3>2, <6>1, <6>2 DEF Before
            <6>4. QED
              BY <4>2, <4>3, <6>2, <6>3
          <5>5. server'.reply = s => m <= server'.page
            <6>1. server'.reply = s => q < server'.page
              BY <1>2, <1>3, <3>2, <5>1, <5>3 DEF Past
            <6>2. QED
              BY <4>2, <4>3, <5>3, <6>1
          <5>6. QED
            BY <4>5, <5>4, <5>5 DEF Ahead
        <4>7. item'.no = stream'.next
          BY <1>1, <1>2, <1>5, <2>4, <4>3
        <4>8. QED
          BY <4>2, <4>3, <4>5, <4>6, <4>7, StretchNext
      <3>3. QED
        BY <3>1, <3>2
    <2>8. StreamIsWhole'
      BY <1>1, <1>5, <2>1, <2>2, <2>7 DEF StreamIsWhole
    <2>9. QED
      BY <2>1, <2>3, <2>8 DEF OnItsWay
  <1>8. QED
    BY <1>6, <1>7

(* What is thrown away, because no page begins with it, is of another      *)
(* reply, or the last of its own.                                          *)
LEMMA NotTakenWhole ==
  ASSUME Types, Ordered, Headers, StreamIsWhole, Next, NoMorePages
  PROVE  StreamIsWhole'
  <1>1. UNCHANGED <<stream, due, inited>> /\ ws = "pages" /\ ws' = "idle"
    BY DEF NoMorePages, Flags, History
  <1>2. PICK r \in Nat, n \in Nat, from \in Nat :
          r = stream.serial /\ n = stream.next /\ from = 2 * n
    BY DEF Types, StreamTypes
  <1>3. ~AtHandOfStream /\ ~AtHandOfStream' /\ Expected = n /\ Expected' = n
    BY <1>1, <1>2 DEF AtHandOfStream, Expected, HasPage
  <1>4. NoGaps(r, from) /\ Ahead(n) /\ Arriving
    BY <1>2, <1>3 DEF StreamIsWhole, Ordered
  <1>5. \A f \in Fragment : Upstream(f) /\ f.page.reply = r => n <= f.page.no
    BY <1>2, <1>4 DEF Ahead
  <1>6. NoGaps(r, from)'
    <2>1. sync \in Seq(Fragment)
      BY DEF Types, LineTypes
    <2>2. CASE SyncGone(0)
      BY <1>4, <2>2, GoneBelow
    <2>3. CASE SyncGone(1) /\ sync[1].page.reply # r
      BY <1>4, <2>3, GoneBelow
    <2>4. CASE SyncGone(1) /\ sync[1].page.reply = r /\ sync[1].part = "back"
      <3>1. sync # <<>>
        BY <2>1, <2>4 DEF SyncGone
      <3>2. PICK f \in Fragment : f = sync[1]
        BY <3>1, <1>4, FirstOfAll
      <3>3. /\ Upstream(f) /\ f.page.reply = r /\ f.part = "back"
            /\ \A h \in Half : Covered(r, h) => FirstHalf(f) <= h
        BY <1>4, <2>4, <3>1, <3>2, FirstOfAll
      <3>4. PICK q \in Nat : q = f.page.no
        BY FragmentFields, PageFields
      <3>5. n <= q
        BY <1>5, <3>3, <3>4
      <3>6. /\ FirstHalf(f) = 2 * q + 1 /\ LastHalf(f) = 2 * q + 1
            /\ q \in 0..LastPage
        BY <3>3, <3>4, HalfFields
      <3>7. 2 * q \in Half /\ 2 * q + 1 \in Half /\ from <= 2 * q /\ 2 * q < 2 * q + 1
        BY <1>2, <3>4, <3>5, <3>6, DownlinkBounds DEF Half
      <3>8. Covered(r, 2 * q + 1)
        BY <3>3, <3>4, <3>6 DEF Covered, Carries
      <3>9. Covered(r, 2 * q)
        BY <1>4, <3>7, <3>8 DEF NoGaps
      <3>10. 2 * q + 1 <= 2 * q
        BY <3>3, <3>6, <3>7, <3>9
      <3>11. QED
        BY <3>4, <3>10
    <2>5. CASE /\ SyncGone(1) /\ sync[1].page.reply = r
               /\ sync[1].part = "front" /\ Len(sync) > 1
               /\ sync[2].page # sync[1].page \/ sync[2].part # "back"
      BY <1>2, <1>4, <1>5, <2>5, FrontWithoutBack
    <2>6. QED
      BY <2>1, <2>2, <2>3, <2>4, <2>5, NoPageLeavesSync
  <1>7. Ahead(n)'
    BY <1>1, <1>4, AheadKept DEF Headers
  <1>8. NoGaps(stream.serial, 2 * Expected)' /\ Ahead(Expected)'
    BY <1>1, <1>2, <1>3, <1>6, <1>7, StretchNext
  <1>9. QED
    BY <1>1, <1>3, <1>8 DEF StreamIsWhole

(* The first page of a reply, from ogg_sync to the stream it begins. *)
LEMMA FirstPageGoesOn ==
  ASSUME Types, Ordered, Begun, Next, StreamBegins, ws \in HasPage, item.no = 0,
         FirstPage \/ StreamInited \/ TestBos \/ NewSerial, ws' # "ruined"
  PROVE  OnItsWay'
  <1>1. UNCHANGED <<server, net, sync, item, due>>
    BY DEF FirstPage, StreamInited, TestBos, NewSerial, History, DecoderOnly
  <1>2. item.reply # 0 /\ (ws = "page" /\ stream.serial # 0 => item.reply # stream.serial)
    <2>1. item \in Page
      BY DEF Types, StreamTypes
    <2>2. item.reply # 0
      BY <2>1, DownlinkBounds DEF Page
    <2>3. QED
      BY <2>2 DEF Begun
  <1>3. NoGaps(item.reply, 2)' /\ due' = 0
    BY <1>1, BehindFirstPage DEF StreamBegins, Ordered, NothingTaken
  <1>4. NewStream(item.reply).serial = item.reply
    BY DEF NewStream
  <1>5. /\ ws' \in HasPage \ {"page"}
        /\ ws' = "begin" => stream' = NewStream(item.reply)
        /\ ws' \in {"bos", "serial"} =>
             inited' /\ (stream'.serial = item.reply => stream' = NewStream(item.reply)
                                                          /\ count' = 0 /\ ~parsed')
        /\ ws' = "pagein" => inited' /\ stream' = NewStream(item.reply) /\ count' = 0 /\ ~parsed'
    <2>1. CASE FirstPage
      <3>1. ws = "page" /\ (inited \/ (ws' = "begin" /\ stream' = NewStream(item.reply)))
        BY <2>1 DEF FirstPage, Uses
      <3>2. inited => ws' = "bos" /\ stream' = stream /\ inited' = inited
        BY <2>1 DEF FirstPage, Flags
      <3>3. QED
        BY <1>2, <3>1, <3>2 DEF HasPage
    <2>2. CASE StreamInited
      BY <2>2 DEF StreamInited, StreamBegins, HasPage
    <2>3. CASE TestBos
      <3>1. ws = "bos" /\ UNCHANGED <<stream, inited, parsed, count>> /\ inited
        BY <2>3 DEF TestBos, Flags, StreamBegins
      <3>2. ws' = "serial"
        BY <2>3, <3>1 DEF TestBos, Uses
      <3>3. QED
        BY <3>1, <3>2 DEF StreamBegins, Fresh, HasPage
    <2>4. CASE NewSerial
      <3>1. ws = "serial" /\ ws' = "pagein" /\ inited' = inited
        BY <2>4 DEF NewSerial, Uses
      <3>2. stream' = NewStream(item.reply) /\ count' = 0 /\ ~parsed'
        <4>1. CASE item.reply = stream.serial
          BY <2>4, <3>1, <4>1 DEF NewSerial, StreamBegins, Fresh
        <4>2. CASE item.reply # stream.serial
          BY <2>4, <4>2 DEF NewSerial
        <4>3. QED
          BY <4>1, <4>2
      <3>3. inited'
        BY <3>1 DEF StreamBegins
      <3>4. QED
        BY <3>1, <3>2, <3>3 DEF HasPage
    <2>5. QED
      BY <2>1, <2>2, <2>3, <2>4
  <1>6. ws' = "begin" => stream' = NewStream(item'.reply)
    BY <1>1, <1>5
  <1>7. ws' \in {"bos", "serial"} => inited' /\ (stream'.serial = item'.reply => Fresh')
    BY <1>1, <1>5 DEF Fresh, NewStream
  <1>8. ws' = "pagein" => inited' /\ Fresh'
    BY <1>1, <1>5 DEF Fresh, NewStream
  <1>9. ws' \in HasPage /\ item'.no = 0
    BY <1>1, <1>5
  <1>10. StreamBegins'
    BY <1>3, <1>6, <1>7, <1>8 DEF StreamBegins, NewStream
  <1>11. QED
    BY <1>9, <1>10 DEF OnItsWay

(* Any other page. *)
LEMMA PageGoesOn ==
  ASSUME Types, Ordered, Headers, Next, StreamIsWhole, HeadersCounted, item.no # 0,
         FirstPage \/ StreamInited \/ TestBos \/ NewSerial, ws' # "ruined"
  PROVE  OnItsWay'
  <1>1. UNCHANGED <<server, net, sync, item, due>> /\ inited /\ ws \notin {"begin", "serial"}
    BY DEF FirstPage, StreamInited, TestBos, NewSerial, History, DecoderOnly, StreamIsWhole
  <1>2. /\ UNCHANGED <<stream, inited, parsed, count>>
        /\ ws \in HasPage /\ ws' \in {"bos", "pagein"}
    <2>1. CASE FirstPage
      BY <1>1, <2>1 DEF FirstPage, Flags, HasPage
    <2>2. CASE TestBos
      BY <1>1, <2>2 DEF TestBos, Uses, Flags, HasPage
    <2>3. QED
      BY <1>1, <2>1, <2>2 DEF StreamInited, NewSerial
  <1>3. StreamIsWhole'
    BY <1>1, <1>2, StreamGoesOn DEF Headers, HasPage, NothingTaken
  <1>4. HeadersCounted'
    BY <1>1, <1>2 DEF HeadersCounted, HasPage
  <1>5. QED
    BY <1>1, <1>3, <1>4 DEF OnItsWay

(* The stream takes the page. *)
LEMMA TakenWhole ==
  ASSUME Types, Ordered, Headers, OnItsWay, Next, TakePage, ws' # "ruined"
  PROVE  OnItsWay'
  <1>1. /\ ws = "pagein" /\ ws' = "packets" /\ ws \in HasPage /\ ws' \notin HasPage
        /\ UNCHANGED <<server, net, sync, inited, parsed, count, due>>
    BY DEF TakePage, Uses, HasPage, Flags, History, DecoderOnly
  <1>2. PICK page \in Page : page = item
    BY PageTaken
  <1>3. /\ stream'.serial = stream.serial
        /\ \/ page.reply # stream.serial /\ stream' = stream
           \/ /\ page.reply = stream.serial /\ stream'.next = page.no + 1
              /\ page.no = stream.next => stream'.packets = Append(stream.packets, page)
    BY <1>2, PageTaken
  <1>4. ~AtHandOfStream' /\ Expected' = stream'.next
    BY <1>1 DEF AtHandOfStream, Expected
  <1>5. PICK r \in Nat, q \in Nat : r = page.reply /\ q = page.no /\ r # 0
    BY PageFields, DownlinkBounds DEF Page
  <1>6. page = [reply |-> r, no |-> q]
    BY <1>5 DEF Page
  <1>7. CASE q = 0
    <2>1. StreamBegins /\ Fresh /\ inited
      BY <1>1, <1>2, <1>5, <1>7 DEF OnItsWay, StreamBegins
    <2>2. stream.serial = r /\ stream.next = 0 /\ stream.packets = <<>>
      BY <1>2, <1>5, <2>1 DEF Fresh, NewStream
    <2>3. stream'.serial = r /\ stream'.next = 1 /\ stream'.packets = <<page>>
      BY <1>3, <1>5, <1>7, <2>2
    <2>4. due' = 0 /\ ~parsed' /\ count' = 0 /\ inited'
      BY <1>1, <2>1 DEF StreamBegins, Fresh
    <2>5. Ahead(1)'
      <3>1. Past(page)
        BY <1>1, <1>2 DEF Ordered, AtHand
      <3>2. \A f : Upstream(f)' <=> Upstream(f)
        BY <1>1 DEF Upstream, InSync, InNet
      <3>3. server.page \in Nat /\ \A f \in Fragment : f.page.no \in Nat
        BY FragmentFields, PageFields DEF Types, LineTypes
      <3>4. /\ \A f \in Fragment : Upstream(f) /\ f.page.reply = r => 1 <= f.page.no
            /\ server.reply = r => 1 <= server.page
        <4>1. /\ \A f \in Fragment : Upstream(f) /\ f.page.reply = r => q < f.page.no
              /\ server.reply = r => q < server.page
          BY <1>5, <3>1, PastPage
        <4>2. QED
          BY <1>7, <3>3, <4>1
      <3>5. QED
        BY <1>1, <2>3, <3>2, <3>4 DEF Ahead
    <2>6. NoGaps(r, 2)'
      <3>1. r = item.reply
        BY <1>2, <1>5
      <3>2. NoGaps(r, 2)
        BY <2>1, <3>1 DEF StreamBegins
      <3>3. QED
        BY <1>1, <3>2, GapsKept DEF Ordered, NothingTaken
    <2>7. NoGaps(stream.serial, 2 * Expected)' /\ Ahead(Expected)'
      <3>1. PICK n \in Nat, from \in Nat : n = 1 /\ from = 2 * n /\ from = 2
        OBVIOUS
      <3>2. r = stream'.serial /\ n = Expected' /\ NoGaps(r, from)' /\ Ahead(n)'
        BY <1>4, <2>3, <2>5, <2>6, <3>1
      <3>3. QED
        BY <3>1, <3>2, StretchNext
    <2>8. ASSUME NEW i \in 1..Len(stream'.packets)
          PROVE  stream'.packets[i] = [reply |-> stream'.serial, no |-> due' + i - 1]
      <3>1. i = 1 /\ stream'.packets[1] = page /\ due' + 1 - 1 = 0
        BY <2>3, <2>4
      <3>2. page = [reply |-> stream'.serial, no |-> 0]
        BY <1>6, <1>7, <2>3
      <3>3. QED
        BY <3>1, <3>2
    <2>9. stream'.next = due' + Len(stream'.packets) /\ stream'.serial # 0
      BY <1>5, <2>3, <2>4
    <2>10. StreamIsWhole'
      BY <1>1, <1>4, <2>4, <2>7, <2>8, <2>9 DEF StreamIsWhole
    <2>11. HeadersCounted'
      BY <1>1, <2>4 DEF HeadersCounted
    <2>12. QED
      BY <1>1, <2>10, <2>11 DEF OnItsWay
  <1>8. CASE q # 0
    <2>1. StreamIsWhole /\ HeadersCounted
      BY <1>2, <1>5, <1>8 DEF OnItsWay
    <2>2. HeadersCounted'
      BY <1>1, <2>1 DEF HeadersCounted
    <2>3. r = stream.serial => q = stream.next
      BY <1>1, <1>2, <1>5, <2>1 DEF StreamIsWhole, AtHandOfStream
    <2>4. Expected' = Expected
      BY <1>1, <1>2, <1>3, <1>4, <1>5, <2>3 DEF Expected, AtHandOfStream
    <2>5. NoGaps(stream.serial, 2 * Expected)' /\ Ahead(Expected)'
      BY <1>1, <1>3, <2>1, <2>4, StretchKept DEF Headers, NothingTaken
    <2>6. /\ \A i \in 1..Len(stream'.packets) :
               stream'.packets[i] = [reply |-> stream.serial, no |-> due + i - 1]
          /\ stream'.next = due + Len(stream'.packets)
      <3>1. CASE stream' = stream
        BY <2>1, <3>1 DEF StreamIsWhole
      <3>2. CASE page.reply = stream.serial /\ stream'.next = page.no + 1
                 /\ (page.no = stream.next => stream'.packets = Append(stream.packets, page))
        <4>1. /\ stream.packets \in Seq(Page \cup {Hole}) /\ due \in Nat
              /\ page \in Page \cup {Hole}
          BY DEF Types, StreamTypes
        <4>2. /\ q = due + Len(stream.packets) /\ r = stream.serial
              /\ stream'.packets = Append(stream.packets, page) /\ stream'.next = q + 1
          BY <1>5, <2>1, <2>3, <3>2 DEF StreamIsWhole
        <4>3. /\ Len(stream'.packets) = Len(stream.packets) + 1 /\ Len(stream.packets) \in Nat
              /\ \A i \in 1..Len(stream.packets) : stream'.packets[i] = stream.packets[i]
              /\ stream'.packets[Len(stream.packets) + 1] = page
          BY <4>1, <4>2, Appended
        <4>4. ASSUME NEW i \in 1..Len(stream'.packets)
              PROVE  stream'.packets[i] = [reply |-> stream.serial, no |-> due + i - 1]
          <5>1. CASE i \in 1..Len(stream.packets)
            BY <2>1, <4>3, <5>1 DEF StreamIsWhole
          <5>2. CASE i \notin 1..Len(stream.packets)
            <6>1. i = Len(stream.packets) + 1
              BY <4>3, <5>2
            <6>2. q = due + i - 1
              BY <4>1, <4>2, <4>3, <6>1
            <6>3. QED
              BY <1>6, <4>2, <4>3, <6>1, <6>2
          <5>3. QED
            BY <5>1, <5>2
        <4>5. stream'.next = due + Len(stream'.packets)
          BY <4>1, <4>2, <4>3
        <4>6. QED
          BY <4>4, <4>5
      <3>3. QED
        BY <1>3, <3>1, <3>2
    <2>7. stream'.serial # 0 /\ inited'
      BY <1>1, <1>3, <2>1 DEF StreamIsWhole
    <2>8. StreamIsWhole'
      BY <1>1, <1>3, <1>4, <2>5, <2>6, <2>7 DEF StreamIsWhole
    <2>9. QED
      BY <1>1, <2>2, <2>8 DEF OnItsWay
  <1>9. QED
    BY <1>7, <1>8

(* The packet that is taken is the one that is due. *)
LEMMA NextIsDue ==
  ASSUME Types, Ordered, Headers, StreamIsWhole, HeadersCounted, Next, PacketOut, intact'
  PROVE  OnItsWay'
  <1>1. /\ stream.packets # <<>>
        /\ stream'.serial = stream.serial /\ stream'.next = stream.next
        /\ stream'.packets = Tail(stream.packets) /\ item' = stream.packets[1]
    BY PacketTaken DEF PacketOut, NoMorePackets
  <1>2. stream.packets \in Seq(Page \cup {Hole}) /\ due \in Nat
    BY DEF Types, StreamTypes
  <1>3. /\ 1 \in 1..Len(stream.packets) /\ Len(stream.packets) \in Nat
        /\ Len(stream'.packets) = Len(stream.packets) - 1
        /\ \A i \in 1..Len(stream'.packets) :
             i + 1 \in 1..Len(stream.packets) /\ stream'.packets[i] = stream.packets[i + 1]
    BY <1>1, <1>2
  <1>4. /\ ws = "packets" /\ ws' = "packet" /\ ws \notin HasPage /\ ws' \notin HasPage
        /\ UNCHANGED <<server, net, sync, inited, parsed, count, seen>>
        /\ due' = item'.no + 1
    BY DEF PacketOut, HasPage, Flags, DecoderOnly
  <1>5. item'.no = due /\ due' = due + 1
    <2>1. item' = [reply |-> stream.serial, no |-> due + 1 - 1]
      BY <1>1, <1>3 DEF StreamIsWhole
    <2>2. item'.no = due
      BY <1>2, <2>1
    <2>3. QED
      BY <1>4, <2>2
  <1>6. ASSUME NEW i \in 1..Len(stream'.packets)
        PROVE  stream'.packets[i] = [reply |-> stream'.serial, no |-> due' + i - 1]
    <2>1. stream'.packets[i] = [reply |-> stream.serial, no |-> due + (i + 1) - 1]
      BY <1>3 DEF StreamIsWhole
    <2>2. due + (i + 1) - 1 = due' + i - 1
      BY <1>2, <1>5
    <2>3. QED
      BY <1>1, <2>1, <2>2
  <1>7. stream'.next = due' + Len(stream'.packets)
    <2>1. stream.next = due + Len(stream.packets)
      BY DEF StreamIsWhole
    <2>2. PICK length \in Nat : length = Len(stream.packets)
      BY <1>3
    <2>3. due + length = due + 1 + (length - 1)
      BY <1>2
    <2>4. Len(stream'.packets) = length - 1 /\ stream'.next = due + length
      BY <1>1, <1>3, <2>1, <2>2
    <2>5. QED
      BY <1>5, <2>3, <2>4
  <1>8. NoGaps(stream.serial, 2 * Expected)' /\ Ahead(Expected)' /\ ~AtHandOfStream'
    <2>1. Expected' = Expected /\ ~AtHandOfStream'
      BY <1>1, <1>4 DEF Expected, AtHandOfStream
    <2>2. QED
      BY <1>1, <1>4, <2>1, StretchKept DEF Headers, NothingTaken
  <1>9. StreamIsWhole'
    BY <1>1, <1>4, <1>6, <1>7, <1>8 DEF StreamIsWhole
  <1>10. HeadersCounted'
    BY <1>4, <1>5 DEF HeadersCounted
  <1>11. QED
    BY <1>4, <1>9, <1>10 DEF OnItsWay

(* The end of the loop over the packets; a whole stream has no hole. *)
LEMMA NoHoles ==
  ASSUME Types, StreamIsWhole, NoMorePackets
  PROVE  stream' = stream
  <1>1. SUFFICES ASSUME stream.packets # <<>>, stream.packets[1] = Hole PROVE FALSE
    BY PacketTaken DEF NoMorePackets, PacketOut
  <1>2. 1 \in 1..Len(stream.packets)
    BY <1>1 DEF Types, StreamTypes
  <1>3. stream.packets[1].reply = stream.serial /\ stream.serial # 0
    <2>1. stream.serial # 0
          /\ stream.packets[1] = [reply |-> stream.serial, no |-> due + 1 - 1]
      BY <1>2 DEF StreamIsWhole
    <2>2. QED
      BY <2>1
  <1>4. QED
    BY <1>1, <1>3 DEF Hole

(* A packet at hand is counted, or decoded. *)
LEMMA PacketGoesOn ==
  ASSUME Types, Ordered, Headers, StreamIsWhole, HeadersCounted, Next,
         \/ CopyData \/ NoMorePackets \/ TestParsed \/ SkipHeader \/ HeadersParsed
         \/ Decode \/ StorePcm,
         ws' # "ruined"
  PROVE  OnItsWay'
  <1>1. /\ UNCHANGED <<server, net, sync, due, inited>>
        /\ ws \notin HasPage
        /\ ws' \in {"pages", "packets", "parse", "packet", "header", "decode", "pcm"}
    BY DEF CopyData, NoMorePackets, TestParsed, SkipHeader, HeadersParsed, Decode, StorePcm,
           Uses, HasPage, Flags, History, DecoderOnly
  <1>2. ws' \notin HasPage
    BY <1>1 DEF HasPage
  <1>3. stream' = stream
    BY NoHoles DEF CopyData, TestParsed, SkipHeader, HeadersParsed, Decode, StorePcm
  <1>4. StreamIsWhole'
    BY <1>1, <1>2, <1>3, StreamGoesOn DEF Headers, NothingTaken
  <1>5. HeadersCounted'
    <2>1. CASE CopyData
      BY <2>1 DEF CopyData, Uses, Flags, History, HeadersCounted
    <2>2. CASE NoMorePackets
      BY <2>2 DEF NoMorePackets, Flags, History, HeadersCounted
    <2>3. CASE TestParsed
      BY <2>3 DEF TestParsed, Flags, History, HeadersCounted
    <2>4. CASE SkipHeader
      <3>1. /\ ws = "header" /\ seen = item.no /\ item.no < 2 /\ due = item.no + 1
            /\ due' = due /\ parsed' = parsed /\ seen \in 0..2
            /\ count' = (IF seen = 0 THEN 1 ELSE 2)
            /\ ws' = (IF seen = 0 THEN "packets" ELSE "parse")
        BY <2>4 DEF SkipHeader, History, HeadersCounted, Types, StreamTypes
      <3>2. CASE seen = 0
        <4>1. due' = 1 /\ count' = 1 /\ ws' = "packets"
          BY <3>1, <3>2
        <4>2. QED
          BY <4>1 DEF HeadersCounted
      <3>3. CASE seen # 0
        BY <3>1, <3>3 DEF HeadersCounted
      <3>4. QED
        BY <3>2, <3>3
    <2>5. CASE HeadersParsed
      BY <2>5 DEF HeadersParsed, HeadersCounted
    <2>6. CASE Decode
      BY <2>6 DEF Decode, Uses, Flags, History, HeadersCounted
    <2>7. CASE StorePcm
      BY <2>7 DEF StorePcm, Flags, History, HeadersCounted
    <2>8. QED
      BY <2>1, <2>2, <2>3, <2>4, <2>5, <2>6, <2>7
  <1>6. QED
    BY <1>2, <1>4, <1>5 DEF OnItsWay

(* What the other tasks do leaves what is on its way. *)
LEMMA OthersWhole ==
  ASSUME Types, Ordered, Headers, OnItsWay, Next, ~DecodeOgg, ~Resets, ws # "ruined", ws' # "ruined"
  PROVE  OnItsWay'
  <1>1. /\ UNCHANGED <<stream, inited, parsed, count, seen, due>>
        /\ NothingTaken
    <2>1. CASE WsTakes
      BY <2>1 DEF WsTakes, NothingTaken
    <2>2. CASE ~WsTakes
      BY <2>2, OthersLeave DEF NothingTaken
    <2>3. QED
      BY <2>1, <2>2
  <1>2. CASE ws' = ws /\ item' = item
    <2>1. CASE ws \in HasPage /\ item.no = 0
      <3>1. StreamBegins
        BY <2>1 DEF OnItsWay
      <3>2. NoGaps(item.reply, 2)'
        BY <1>1, <1>2, <3>1, BehindFirstPage DEF StreamBegins, Ordered
      <3>3. Fresh => Fresh'
        BY <1>1, <1>2 DEF Fresh, NewStream
      <3>4. StreamBegins'
        BY <1>1, <1>2, <3>1, <3>2, <3>3 DEF StreamBegins, NewStream
      <3>5. QED
        BY <1>2, <2>1, <3>4 DEF OnItsWay
    <2>2. CASE ~(ws \in HasPage /\ item.no = 0)
      <3>1. StreamIsWhole /\ HeadersCounted
        BY <2>2 DEF OnItsWay
      <3>2. ws' \notin {"begin", "serial"}
        BY <1>2, <3>1 DEF StreamIsWhole
      <3>3. StreamIsWhole'
        BY <1>1, <1>2, <3>1, <3>2, StreamGoesOn DEF Headers
      <3>4. HeadersCounted'
        BY <1>1, <1>2, <3>1 DEF HeadersCounted
      <3>5. QED
        BY <1>2, <2>2, <3>3, <3>4 DEF OnItsWay
    <2>3. QED
      BY <2>1, <2>2
  <1>3. CASE ws = "idle" /\ ws' \in {"idle", "copy"}
    <2>1. ws \notin HasPage /\ ws' \notin HasPage
      BY <1>3 DEF HasPage
    <2>2. StreamIsWhole /\ HeadersCounted
      BY <2>1 DEF OnItsWay
    <2>3. StreamIsWhole'
      BY <1>1, <1>3, <2>1, <2>2, StreamGoesOn DEF Headers
    <2>4. HeadersCounted'
      BY <1>1, <1>3, <2>2 DEF HeadersCounted
    <2>5. QED
      BY <2>1, <2>3, <2>4 DEF OnItsWay
  <1>4. QED
    BY <1>2, <1>3, WsMoves

(* Every step keeps what is known of the replies as a whole.               *)
LEMMA WholeKept ==
  ASSUME Types, Ordered, Headers, Whole, Next
  PROVE  Whole'
  <1>1. Contiguously' /\ Begun'
    BY ContiguouslyKept, BegunKept DEF Ordered, Headers, Whole
  <1>2. SUFFICES ASSUME intact', ws' # "ruined" PROVE OnItsWay'
    BY <1>1 DEF Whole
  <1>3. ws # "ruined" /\ ~Resets /\ (intact \/ PageOut)
    BY <1>2, IntactMoves
  <1>4. CASE PageOut
    BY <1>2, <1>4, PageOutWhole
  <1>5. CASE ~PageOut
    <2>1. OnItsWay /\ Begun
      BY <1>3, <1>5 DEF Whole
    <2>2. CASE ~DecodeOgg
      BY <1>2, <1>3, <2>1, <2>2, OthersWhole
    <2>3. CASE FirstPage \/ StreamInited \/ TestBos \/ NewSerial
      <3>1. ws \in HasPage
        BY <2>3 DEF FirstPage, StreamInited, TestBos, NewSerial, HasPage
      <3>2. QED
        BY <1>2, <2>1, <2>3, <3>1, FirstPageGoesOn, PageGoesOn DEF OnItsWay
    <2>4. CASE TakePage
      BY <1>2, <2>1, <2>4, TakenWhole
    <2>5. CASE \/ NoMorePages \/ PacketOut \/ CopyData \/ NoMorePackets \/ TestParsed
               \/ SkipHeader \/ HeadersParsed \/ Decode \/ StorePcm
      <3>1. ws \notin HasPage
        BY <2>5
        DEF NoMorePages, PacketOut, CopyData, NoMorePackets, TestParsed, SkipHeader,
            HeadersParsed, Decode, StorePcm, HasPage
      <3>2. StreamIsWhole /\ HeadersCounted
        BY <2>1, <3>1 DEF OnItsWay
      <3>3. CASE NoMorePages
        <4>1. ws' = "idle" /\ UNCHANGED <<parsed, count, due>> /\ ws = "pages"
          BY <3>3 DEF NoMorePages, Flags, History
        <4>2. ws' \notin HasPage /\ HeadersCounted'
          BY <3>2, <4>1 DEF HeadersCounted, HasPage
        <4>3. QED
          BY <3>2, <3>3, <4>2, NotTakenWhole DEF OnItsWay
      <3>4. CASE PacketOut
        BY <1>2, <3>2, <3>4, NextIsDue
      <3>5. CASE \/ CopyData \/ NoMorePackets \/ TestParsed \/ SkipHeader \/ HeadersParsed
                 \/ Decode \/ StorePcm
        BY <1>2, <3>2, <3>5, PacketGoesOn
      <3>6. QED
        BY <2>5, <3>3, <3>4, <3>5
    <2>6. QED
      BY <1>5, <2>2, <2>3, <2>4, <2>5 DEF DecodeOgg
  <1>6. QED
    BY <1>4, <1>5

LEMMA AlwaysWhole == Spec => []Whole
  <1>1. Init => Whole
    BY DEF Init, Whole, Contiguously, Covered, Upstream, InSync, InNet, Begun, NoStream
  <1>2. Types /\ Ordered /\ Headers /\ Whole /\ [Next]_vars => Whole'
    <2>1. ASSUME Whole, UNCHANGED vars PROVE Whole'
      <3>1. UNCHANGED <<server, net, sync, stream, due, intact, ws, item, inited, parsed, count,
                        seen>>
        BY <2>1 DEF vars
      <3>2. \A f \in Fragment : Upstream(f)' <=> Upstream(f)
        BY <3>1 DEF Upstream, InSync, InNet
      <3>3. \A r, h : Covered(r, h)' <=> Covered(r, h)
        BY <3>2, CoveredFollows
      <3>4. \A r, from : NoGaps(r, from)' <=> NoGaps(r, from)
        BY <3>1, <3>2, GapsSame
      <3>5. Half' = Half
        BY DEF Half
      <3>6. Contiguously'
        BY <2>1, <3>3, <3>4, <3>5 DEF Whole, Contiguously
      <3>7. \A n : Ahead(n)' <=> Ahead(n)
        BY <3>1, <3>2 DEF Ahead
      <3>8. Begun'
        BY <2>1, <3>1, <3>7 DEF Whole, Begun
      <3>9. StreamBegins => StreamBegins'
        <4>1. NoGaps(item.reply, 2) => NoGaps(item.reply, 2)'
          <5>1. PICK r : r = item.reply
            OBVIOUS
          <5>2. r = item'.reply
            BY <3>1, <5>1
          <5>3. NoGaps(r, 2)' => NoGaps(item.reply, 2)'
            BY <5>2 DEF NoGaps, Covered, Sending, NextHalf, Carries, FirstHalf, LastHalf
          <5>4. QED
            BY <3>4, <5>1, <5>3
        <4>2. Fresh => Fresh'
          BY <3>1 DEF Fresh, NewStream
        <4>3. QED
          BY <3>1, <4>1, <4>2 DEF StreamBegins, NewStream
      <3>10. StreamIsWhole => StreamIsWhole'
        <4>1. Expected' = Expected /\ (AtHandOfStream' <=> AtHandOfStream)
          BY <3>1 DEF Expected, AtHandOfStream
        <4>2. PICK r, n, from : r = stream.serial /\ n = Expected /\ from = 2 * n
          OBVIOUS
        <4>3. r = stream'.serial /\ n = Expected'
          BY <3>1, <4>1, <4>2
        <4>4. StreamIsWhole => NoGaps(r, from) /\ Ahead(n)
          BY <4>2 DEF StreamIsWhole
        <4>5. StreamIsWhole => NoGaps(stream.serial, 2 * Expected)' /\ Ahead(Expected)'
          BY <3>4, <3>7, <4>2, <4>3, <4>4, StretchNext
        <4>6. QED
          BY <3>1, <4>1, <4>5 DEF StreamIsWhole
      <3>11. HeadersCounted => HeadersCounted'
        BY <3>1 DEF HeadersCounted
      <3>12. QED
        BY <2>1, <3>1, <3>6, <3>8, <3>9, <3>10, <3>11 DEF Whole, OnItsWay
    <2>2. QED
      BY <2>1, WholeKept
  <1>3. QED
    BY <1>1, <1>2, AlwaysTyped, AlwaysOrdered, AlwaysHeaders, PTL DEF Spec

(* Of a reply whose first page was taken after the last reset every packet *)
(* is taken, once and in order, and only the headers are skipped: however  *)
(* its pages are cut into messages, whatever broken pages of other replies *)
(* lie between, and wherever the reset before it cut into the              *)
(* demultiplexing (opus_proc_decode_ogg, opus_proc_reset_ogg).             *)
THEOREM RepliesDecodedWhole == Spec => []RepliesAreDecodedWhole
  <1>1. Types /\ Whole => RepliesAreDecodedWhole
    <2>1. SUFFICES ASSUME Types, Whole, intact
                   PROVE  /\ ws = "packets" /\ Packet
                               => Head(stream.packets) = [reply |-> stream.serial, no |-> due]
                          /\ ws = "header" => item.no < 2
      BY DEF RepliesAreDecodedWhole
    <2>2. ASSUME ws = "packets", Packet
          PROVE  Head(stream.packets) = [reply |-> stream.serial, no |-> due]
      <3>1. StreamIsWhole
        BY <2>1, <2>2 DEF Whole, OnItsWay, HasPage
      <3>2. stream.packets \in Seq(Page \cup {Hole}) /\ stream.packets # <<>> /\ due \in Nat
        BY <2>1, <2>2 DEF Packet, Types, StreamTypes
      <3>3. 1 \in 1..Len(stream.packets) /\ Head(stream.packets) = stream.packets[1]
        BY <3>2
      <3>4. stream.packets[1] = [reply |-> stream.serial, no |-> due + 1 - 1]
        BY <3>1, <3>3 DEF StreamIsWhole
      <3>5. due + 1 - 1 = due
        BY <3>2
      <3>6. QED
        BY <3>3, <3>4, <3>5
    <2>3. ws = "header" => item.no < 2
      BY <2>1 DEF Whole, OnItsWay, HeadersCounted, HasPage
    <2>4. QED
      BY <2>2, <2>3
  <1>2. QED
    BY <1>1, AlwaysTyped, AlwaysWhole, PTL

=============================================================================
