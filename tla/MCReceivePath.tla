---------------------------- MODULE MCReceivePath ----------------------------
(* ReceivePath with an audio packet, a compressed event and an error.      *)
EXTENDS ReceivePath

(* A stand-in for deflate: a stream is marked by its first byte. *)
Deflated(data) == <<3>> \o data
MCInflate(stream) ==
  IF stream # <<>> /\ Head(stream) = 3 THEN Tail(stream) ELSE CannotInflate

(* Ten bytes of header with a file name, the stream, eight of trailer. *)
Gzipped(data) ==
  <<31, 139, 8, 8, 0, 0, 0, 0, 2, 255>> \o <<97, 0>> \o Deflated(data)
    \o <<1, 2, 3, 4>> \o <<Len(data), 0, 0, 0>>

Audio == [type |-> ACK, serial |-> 0, seq |-> <<>>, event |-> <<>>,
          sid |-> <<115>>, payload |-> <<17, 144>>]

(* EVENT_TTS_ENDED without a payload. *)
Ended == [type |-> FULL_RESPONSE, serial |-> 1, seq |-> <<255, 255, 255, 254>>,
          event |-> U32(359), sid |-> <<>>, payload |-> <<>>]

Text == [type |-> FULL_RESPONSE, serial |-> 1, seq |-> <<>>, event |-> U32(350),
         sid |-> <<>>, payload |-> <<123, 125>>]

Failure == [type |-> ERROR, serial |-> 0, seq |-> <<>>, event |-> <<0, 0, 178, 192>>,
            sid |-> <<>>, payload |-> <<101>>]

MCMeanings == {Audio, Ended, Text, Failure}

MCEncode(msg) ==
  IF msg = Text THEN ServerMessage(msg, Gzipped(msg.payload), COMPRESS_GZIP)
  ELSE IF msg = Failure THEN ServerError(msg, msg.payload, 0)
  ELSE ServerMessage(msg, msg.payload, 0)

(* These are messages of the protocol: the instance is one of those        *)
(* ReceivePathProofs speaks about.                                         *)
ASSUME ServerKeepsTheFormat ==
  \A msg \in MCMeanings :
    \E body \in {msg.payload, Gzipped(msg.payload)}, compression \in {0, COMPRESS_GZIP} :
      SaysIt(MCEncode(msg), msg, body, compression)

MCShapes == {<<Len(MCEncode(msg))>> : msg \in MCMeanings}

=============================================================================
