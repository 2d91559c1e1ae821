------------------------------ MODULE FrameCodec ------------------------------
(***************************************************************************)
(* The codecs of craft/middleware/light_rpc over a stream: messages are    *)
(* encoded one after the other, their bytes arrive in pieces of any size,  *)
(* and the receiver calls Decode on what has arrived, keeping what         *)
(* remains.  The sender and the receiver are external: the channel that    *)
(* would use the codecs is still empty.                                    *)
(*                                                                         *)
(* The length is written in LengthBytes digits to the base Byte, and a     *)
(* payload may have any bytes, those of a header among them.               *)
(***************************************************************************)
EXTENDS Naturals, Sequences

CONSTANTS Byte, LengthBytes, Payloads, MaxSent

\* What is left of a number when its lowest bytes are taken away.
Rests(n) == LET rest[i \in 0..LengthBytes] == IF i = 0 THEN n ELSE rest[i - 1] \div Byte
            IN rest

\* A length fits into its bytes.
FrameCodecAssumption ==
    /\ Byte \in Nat \ {0, 1} /\ LengthBytes \in Nat \ {0}
    /\ Payloads \subseteq Seq(0..Byte - 1)
    /\ \A p \in Payloads : Rests(Len(p))[LengthBytes] = 0

VARIABLES codec,  \* "length" or "tlv"
          sent, wire, arrived, received

vars == <<codec, sent, wire, arrived, received>>

\* memcpy of the length into the message, the lowest byte first, and back.
Digits(n) == [i \in 1..LengthBytes |-> Rests(n)[i - 1] % Byte]

\* From the highest of the first LengthBytes bytes down.
Number(bytes) ==
    LET value[i \in 0..LengthBytes] ==
            IF i = 0 THEN 0 ELSE bytes[LengthBytes - i + 1] + Byte * value[i - 1]
    IN value[LengthBytes]

From(s, i) == SubSeq(s, i, Len(s))

NotYet == [ok |-> FALSE]

-------------------------------------------------------------------------------

LengthEncode(payload) == Digits(Len(payload)) \o payload

LengthDecode(buffer) ==
    IF Len(buffer) < LengthBytes THEN NotYet
    ELSE LET end == LengthBytes + Number(buffer)
         IN IF Len(buffer) < end THEN NotYet
            ELSE [ok |-> TRUE,
                  result |-> SubSeq(buffer, LengthBytes + 1, end),
                  remaining |-> From(buffer, end + 1)]

TlvEncode(payload) == <<1>> \o Digits(Len(payload)) \o payload

TlvDecode(buffer) ==
    IF Len(buffer) < 1 + LengthBytes \/ Head(buffer) # 1 THEN NotYet
    ELSE LET end == 1 + LengthBytes + Number(Tail(buffer))
         IN IF Len(buffer) < end THEN NotYet
            ELSE [ok |-> TRUE,
                  result |-> SubSeq(buffer, LengthBytes + 2, end),
                  remaining |-> From(buffer, end + 1)]

Encode(payload) == IF codec = "length" THEN LengthEncode(payload) ELSE TlvEncode(payload)

Decode(buffer) == IF codec = "length" THEN LengthDecode(buffer) ELSE TlvDecode(buffer)

-------------------------------------------------------------------------------

Init == /\ codec \in {"length", "tlv"}
        /\ sent = <<>> /\ wire = <<>> /\ arrived = <<>> /\ received = <<>>

Send(payload) ==
    /\ Len(sent) < MaxSent
    /\ sent' = Append(sent, payload)
    /\ wire' = wire \o Encode(payload)
    /\ UNCHANGED <<codec, arrived, received>>

Arrive(n) ==
    /\ arrived' = arrived \o SubSeq(wire, 1, n)
    /\ wire' = From(wire, n + 1)
    /\ UNCHANGED <<codec, sent, received>>

Receive ==
    /\ Decode(arrived).ok
    /\ received' = Append(received, Decode(arrived).result)
    /\ arrived' = Decode(arrived).remaining
    /\ UNCHANGED <<codec, sent, wire>>

Next == \/ \E payload \in Payloads : Send(payload)
        \/ \E n \in 1..Len(wire) : Arrive(n)
        \/ Receive

-------------------------------------------------------------------------------

\* The messages encoded one after the other.
Stream(messages) ==
    LET encoded[i \in 0..Len(messages)] ==
            IF i = 0 THEN <<>> ELSE encoded[i - 1] \o Encode(messages[i])
    IN encoded[Len(messages)]

\* Whatever pieces the bytes arrive in, what is decoded is what was sent, in order, and
\* what is on its way is the rest of it.
FramesAreKept ==
    /\ received = SubSeq(sent, 1, Len(received))
    /\ arrived \o wire = Stream(From(sent, Len(received) + 1))
===============================================================================
