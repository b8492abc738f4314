----------------------------- MODULE ByteStream -----------------------------
(***************************************************************************)
(* What a buffered channel of libdsys promises to one producer and one     *)
(* consumer, without a ring, a lock or a condition variable: the bytes put *)
(* come out once each, in the order they were put, a put is accepted as a  *)
(* whole and only when it fits, a get is answered as a whole, and only a   *)
(* conditional get may be turned down, when too little data is there.      *)
(***************************************************************************)
EXTENDS Naturals, Sequences

CONSTANTS Capacity,  \* bytes the channel holds
          PutSizes,  \* numbers of bytes a put may carry
          GetSizes,  \* numbers of bytes a get may ask for
          Byte       \* the values of a byte

VARIABLES stream,    \* bytes accepted and not yet delivered
          putting,   \* bytes of the put in progress, <<>> when there is none
          asked,     \* the get in progress, NoGet when there is none
          reply      \* the answer to the last get: preamble and data

avars == <<stream, putting, asked, reply>>

NoGet   == [bytes |-> 0, cond |-> FALSE]
NoReply == [preamble |-> "none", data |-> << >>]
Sorry   == [preamble |-> "sorry", data |-> << >>]

Strings(n) == [1..n -> Byte]

Init == /\ stream = << >>
        /\ putting = << >>
        /\ asked = NoGet
        /\ reply = NoReply

BeginPut == /\ putting = << >>
            /\ \E n \in PutSizes : putting' \in Strings(n)
            /\ UNCHANGED <<stream, asked, reply>>

Accept == /\ putting # << >>
          /\ Len(stream) + Len(putting) <= Capacity
          /\ stream' = stream \o putting
          /\ putting' = << >>
          /\ UNCHANGED <<asked, reply>>

BeginGet == /\ asked = NoGet
            /\ \E n \in GetSizes, c \in BOOLEAN : asked' = [bytes |-> n, cond |-> c]
            /\ reply' = NoReply
            /\ UNCHANGED <<stream, putting>>

Deliver == /\ asked # NoGet
           /\ Len(stream) >= asked.bytes
           /\ stream' = SubSeq(stream, asked.bytes + 1, Len(stream))
           /\ reply' = [preamble |-> IF asked.cond THEN "preamble" ELSE "none",
                        data     |-> SubSeq(stream, 1, asked.bytes)]
           /\ asked' = NoGet
           /\ UNCHANGED putting

Refuse == /\ asked.cond
          /\ Len(stream) < asked.bytes
          /\ reply' = Sorry
          /\ asked' = NoGet
          /\ UNCHANGED <<stream, putting>>

Next == BeginPut \/ Accept \/ BeginGet \/ Deliver \/ Refuse

Spec == Init /\ [][Next]_avars
=============================================================================
