----------------------------- MODULE EmbeddedData -----------------------------
(***************************************************************************)
(* Embedded data (efp_c_api.cpp): chunks of side data put in front of the  *)
(* payload of a SuperFrame, and taken off again before the receive         *)
(* callback of the C API is called.  A chunk is an octet of type, with a   *)
(* flag on the chunk next to the payload, two octets of size, low octet    *)
(* first, and the data.  A frame is a sequence of octets: nothing tells    *)
(* the octets of a payload from those of a chunk but the parse.            *)
(***************************************************************************)
EXTENDS Integers, Sequences

CONSTANT Base        \* values of an octet: 256 in the code

ASSUME EmbeddedAssumption == Base \in Nat /\ Base > 3 /\ Base % 2 = 0

HeaderSize == 3
EFP_EMBEDDED_LAST == Base \div 2
EFP_EMBEDDED_ILLEGAL == 0

\* What the two octets can say: uint16_t.
MaxChunkSize == (Base * Base) - 1

\* aType | EFP_EMBEDDED_LAST on the last chunk.
TypeOctet(aType, aIsLast) ==
    IF aIsLast /\ aType < EFP_EMBEDDED_LAST THEN aType + EFP_EMBEDDED_LAST
    ELSE aType

IsLast(octet) == octet >= EFP_EMBEDDED_LAST
ActualType(octet) == octet % EFP_EMBEDDED_LAST

\* The destination buffer after efp_add_embedded_data; a size of more than
\* MaxChunkSize loses its high octets.
efp_add_embedded_data(aEmbeddedData, aPayloadData, aType, aIsLast) ==
    LET size == Len(aEmbeddedData)
    IN  <<TypeOctet(aType, aIsLast), size % Base, (size \div Base) % Base>>
          \o aEmbeddedData \o aPayloadData

\* lEmbSize of the chunk at an offset.
EmbSize(frame, offset) == frame[offset + 2] + (Base * frame[offset + 3])
ChunkEnd(frame, offset) == offset + HeaderSize + EmbSize(frame, offset)

\* Slip: a chunk must be followed by an octet.
HeaderFitsBefore(frame, offset) == offset + HeaderSize < Len(frame)

HeaderFits(frame, offset) == offset + HeaderSize <= Len(frame)

\* What the embedded callback is called with.
Chunk(frame, offset) ==
    [type |-> ActualType(frame[offset + 1]),
     data |-> SubSeq(frame, offset + HeaderSize + 1, ChunkEnd(frame, offset))]

\* The loop of ReceiveCallbackWrapper: the calls of the embedded callback from
\* an offset on, and lPayloadOffset, which only the last chunk sets.
ParseChunks(frame) ==
    LET parse[offset \in Nat] ==
          IF ~HeaderFits(frame, offset)
               \/ frame[offset + 1] = EFP_EMBEDDED_ILLEGAL
          THEN [calls |-> <<>>, payloadOffset |-> 0]
          ELSE LET next == ChunkEnd(frame, offset)
                   call == IF next <= Len(frame) THEN <<Chunk(frame, offset)>>
                           ELSE <<>>
                   rest == IF IsLast(frame[offset + 1])
                           THEN [calls |-> <<>>, payloadOffset |-> next]
                           ELSE parse[next]
               IN  [rest EXCEPT !.calls = call \o @]
    IN  parse[0]

\* ReceiveCallbackWrapper: the calls of the embedded callback and the offset
\* the main callback gets the frame from.
ReceiveCallback(frame, embeddedCallback, inlinePayload, broken) ==
    IF embeddedCallback /\ inlinePayload /\ ~broken THEN ParseChunks(frame)
    ELSE [calls |-> <<>>, payloadOffset |-> 0]

\* efp_extract_embedded_data: result, type, data and payload offset of the
\* first chunk.  The type is written for a chunk only.
efp_extract_embedded_data(frame) ==
    CASE ~HeaderFits(frame, 0) -> [result |-> "EFP_INVALID_PARAMETER"]
      [] HeaderFits(frame, 0) /\ frame[1] = EFP_EMBEDDED_ILLEGAL ->
           [result |-> "EFP_OK", data |-> <<>>, payloadOffset |-> 0]
      [] OTHER ->
           IF ChunkEnd(frame, 0) > Len(frame)
           THEN [result |-> "EFP_BUFFER_OUT_OF_BOUNDS"]
           ELSE [result |-> "EFP_OK", type |-> Chunk(frame, 0).type,
                 data |-> Chunk(frame, 0).data,
                 payloadOffset |-> ChunkEnd(frame, 0)]
===============================================================================
