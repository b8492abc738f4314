----------------------------- MODULE MC121Queue -----------------------------
(***************************************************************************)
(* The byte ring of libdsys/queue.c, struct bc_mc121_s: the buffer of a    *)
(* channel with one producer and one consumer and a copy on each side.     *)
(*                                                                         *)
(* Two threads of the producing process share it.  The computation thread  *)
(* puts (__bc_mc121_put); the service thread of the remote consumer sends  *)
(* (__bc_mc121_send) when a request arrives.  Both hold the queue's mutex  *)
(* from entry to return except while they wait on the condition variable   *)
(* no_suff, so one pass through a loop body, from acquiring the mutex to   *)
(* releasing it, is one step here.  A thread that was signalled has still  *)
(* to acquire the mutex again: it goes from "wait" to "lock".              *)
(*                                                                         *)
(* Pointers are offsets from buff_start; buff_end is Size.                 *)
(***************************************************************************)
EXTENDS Naturals, Sequences

CONSTANTS Size,      \* q->size, du * szdu
          PutSizes,  \* byte counts the application puts
          GetSizes,  \* byte counts the consumer asks for
          Byte       \* values of a byte

ASSUME SizeAssumption == Size \in Nat \ {0}
ASSUME RequestAssumption == /\ PutSizes \subseteq Nat \ {0}
                            /\ GetSizes \subseteq Nat \ {0}
ASSUME ByteAssumption == Byte # {}

VARIABLES mem,           \* the malloc'ed block
          free_start,    \* where free memory starts
          data_start,    \* where data starts
          bytes_inbuff,  \* data bytes in the buffer
          pc,            \* what each thread is doing
          local,         \* the bytes being put
          req,           \* the request being served
          reply          \* what was written to d_fd for the last request

ring == <<mem, free_start, data_start, bytes_inbuff>>
vars == <<mem, free_start, data_start, bytes_inbuff, pc, local, req, reply>>

Threads == {"producer", "service"}
Addr    == 0 .. Size - 1

NoReply == [preamble |-> "none", data |-> << >>]
Sorry   == [preamble |-> "sorry", data |-> << >>]
NoGet   == [bytes |-> 0, cond |-> FALSE]

(* memcpy of the n bytes that follow the first off bytes of src to dst *)
Memcpy(m, dst, src, off, n) ==
  [a \in Addr |-> IF dst <= a /\ a < dst + n THEN src[off + (a - dst) + 1] ELSE m[a]]

(* the n bytes at address a *)
Block(a, n) == [i \in 1 .. n |-> mem[a + i - 1]]

(* bc_cond_signal(&q->no_suff) by the other thread than t *)
Unsignalled(t) == pc[t]
Signalled(t) == IF pc[t] = "wait" THEN "lock" ELSE pc[t]

(* the signals at the end of __bc_putq_mc121 and of __bc_sendq_mc121 *)
SignalData == Signalled("service")
SignalSpaceIfFull == IF bytes_inbuff = Size THEN Signalled("producer") ELSE pc["producer"]
SignalSpace == Signalled("producer")

Init == /\ mem \in [Addr -> Byte]      \* malloc leaves the block as it was
        /\ free_start = 0
        /\ data_start = 0
        /\ bytes_inbuff = 0
        /\ pc = [t \in Threads |-> "idle"]
        /\ local = << >>
        /\ req = NoGet
        /\ reply = NoReply

(***************************************************************************)
(* The producer.                                                           *)
(***************************************************************************)
CallPut == /\ pc["producer"] = "idle"
           /\ \E n \in PutSizes : local' \in [1 .. n -> Byte]
           /\ pc' = [pc EXCEPT !["producer"] = "lock"]
           /\ UNCHANGED <<ring, req, reply>>

(* __bc_putq_mc121 does not return -1 *)
PutFitsStrictly == Size - bytes_inbuff > Len(local)
PutFits == ~ (Size - bytes_inbuff < Len(local))

(* __bc_putq_mc121 once there is room; before it, with >= in the first test *)
(* and with the second block copied from the start of the source            *)
PutQKeepsEnd ==
  LET bytes      == Len(local)
      upper_free == Size - free_start
  IN  /\ IF upper_free >= bytes
         THEN /\ mem' = Memcpy(mem, free_start, local, 0, bytes)
              /\ free_start' = free_start + bytes
         ELSE /\ mem' = Memcpy(Memcpy(mem, free_start, local, 0, upper_free),
                               0, local, upper_free, bytes - upper_free)
              /\ free_start' = bytes - upper_free
      /\ bytes_inbuff' = bytes_inbuff + bytes
      /\ UNCHANGED data_start
PutQSameSource ==
  LET bytes      == Len(local)
      upper_free == Size - free_start
  IN  /\ IF upper_free > bytes
         THEN /\ mem' = Memcpy(mem, free_start, local, 0, bytes)
              /\ free_start' = free_start + bytes
         ELSE /\ mem' = Memcpy(Memcpy(mem, free_start, local, 0, upper_free),
                               0, local, 0, bytes - upper_free)
              /\ free_start' = bytes - upper_free
      /\ bytes_inbuff' = bytes_inbuff + bytes
      /\ UNCHANGED data_start
PutQ ==
  LET bytes      == Len(local)
      upper_free == Size - free_start
  IN  /\ IF upper_free > bytes
         THEN /\ mem' = Memcpy(mem, free_start, local, 0, bytes)
              /\ free_start' = free_start + bytes
         ELSE /\ mem' = Memcpy(Memcpy(mem, free_start, local, 0, upper_free),
                               0, local, upper_free, bytes - upper_free)
              /\ free_start' = bytes - upper_free
      /\ bytes_inbuff' = bytes_inbuff + bytes
      /\ UNCHANGED data_start

PutDone == /\ pc["producer"] = "lock"
           /\ PutFits
           /\ PutQ
           /\ pc' = [producer |-> "idle", service |-> SignalData]
           /\ local' = << >>
           /\ UNCHANGED <<req, reply>>

PutWaits == /\ pc["producer"] = "lock"
            /\ ~ PutFits
            /\ pc' = [pc EXCEPT !["producer"] = "wait"]
            /\ UNCHANGED <<ring, local, req, reply>>

(***************************************************************************)
(* The service thread.  The consumer reads the whole answer before it asks *)
(* again, so reply holds the answer to one request.                        *)
(***************************************************************************)
Request == /\ pc["service"] = "idle"
           /\ \E n \in GetSizes, c \in BOOLEAN : req' = [bytes |-> n, cond |-> c]
           /\ pc' = [pc EXCEPT !["service"] = "lock"]
           /\ reply' = NoReply
           /\ UNCHANGED <<ring, local>>

(* __bc_sendq_mc121 does not return -1 *)
DataSuffices == ~ (bytes_inbuff < req.bytes)

(* __bc_sendq_mc121 once there is data; before it, with the reset to the    *)
(* start of the buffer on both branches of the wrap                         *)
SendQToStart ==
  LET bytes      == req.bytes
      upper_data == Size - data_start
  IN  /\ IF upper_data > bytes
         THEN /\ reply' = [preamble |-> "none", data |-> Block(data_start, bytes)]
              /\ data_start' = data_start + bytes
         ELSE /\ reply' = [preamble |-> "none",
                           data     |-> Block(data_start, upper_data)
                                          \o Block(0, bytes - upper_data)]
              /\ data_start' = 0
      /\ bytes_inbuff' = bytes_inbuff - bytes
      /\ UNCHANGED <<mem, free_start>>
SendQ ==
  LET bytes      == req.bytes
      upper_data == Size - data_start
  IN  /\ IF upper_data > bytes
         THEN /\ reply' = [preamble |-> IF req.cond THEN "preamble" ELSE "none",
                           data     |-> Block(data_start, bytes)]
              /\ data_start' = data_start + bytes
         ELSE /\ reply' = [preamble |-> IF req.cond THEN "preamble" ELSE "none",
                           data     |-> Block(data_start, upper_data)
                                          \o Block(0, bytes - upper_data)]
              /\ data_start' = bytes - upper_data
      /\ bytes_inbuff' = bytes_inbuff - bytes
      /\ UNCHANGED <<mem, free_start>>

SendDone == /\ pc["service"] = "lock"
            /\ DataSuffices
            /\ SendQ
            /\ pc' = [producer |-> SignalSpace, service |-> "idle"]
            /\ req' = NoGet
            /\ UNCHANGED local

SendSorry == /\ pc["service"] = "lock"
             /\ ~ DataSuffices
             /\ req.cond
             /\ reply' = Sorry
             /\ pc' = [pc EXCEPT !["service"] = "idle"]
             /\ req' = NoGet
             /\ UNCHANGED <<ring, local>>

SendWaits == /\ pc["service"] = "lock"
             /\ ~ DataSuffices
             /\ ~ req.cond
             /\ pc' = [pc EXCEPT !["service"] = "wait"]
             /\ UNCHANGED <<ring, local, req, reply>>

(* pthread_cond_wait may return without a signal *)
SpuriousWakeup == \E t \in Threads :
                    /\ pc[t] = "wait"
                    /\ pc' = [pc EXCEPT ![t] = "lock"]
                    /\ UNCHANGED <<ring, local, req, reply>>

Put  == PutDone \/ PutWaits
Send == SendDone \/ SendSorry \/ SendWaits

Next == CallPut \/ Put \/ Request \/ Send \/ SpuriousWakeup

Spec == Init /\ [][Next]_vars

(***************************************************************************)
(* A thread that can take the mutex takes it in the end.  Nothing is       *)
(* assumed of the application on either side, nor of spurious wakeups.     *)
(***************************************************************************)
Fairness == WF_vars(Put) /\ WF_vars(Send)

FairSpec == Spec /\ Fairness

-----------------------------------------------------------------------------
(* Addition on the ring *)
Wrap(k) == IF k < Size THEN k ELSE k - Size

(* The bytes put and not yet sent, oldest first *)
Contents == [i \in 1 .. bytes_inbuff |-> mem[Wrap(data_start + i - 1)]]

(* Every variable stays in range; no pointer ever stays at buff_end *)
TypeOK == /\ mem \in [Addr -> Byte]
          /\ free_start \in Addr
          /\ data_start \in Addr
          /\ bytes_inbuff \in 0 .. Size
          /\ pc \in [Threads -> {"idle", "lock", "wait"}]
          /\ \/ local = << >>
             \/ \E n \in PutSizes : local \in [1 .. n -> Byte]
          /\ req \in [bytes : GetSizes \cup {0}, cond : BOOLEAN]
          /\ \/ reply \in {NoReply, Sorry}
             \/ /\ reply.preamble \in {"none", "preamble"}
                /\ \E n \in GetSizes : reply.data \in [1 .. n -> Byte]

(* The two pointers and the byte count, each updated by its own code path, *)
(* agree: the free space starts where the data ends.                       *)
RingInv == free_start = Wrap(data_start + bytes_inbuff)

(* A thread sleeps on no_suff only while what it waits for is missing: the *)
(* single condition variable, shared by both threads and signalled with    *)
(* bc_cond_signal, never loses a wakeup (queue.c:188, 229).                *)
NoLostWakeup ==
  /\ pc["producer"] = "wait" => ~ PutFits
  /\ pc["service"] = "wait" => ~ DataSuffices /\ ~ req.cond

(* The precondition of the next property: no put and get together exceed   *)
(* the buffer by more than what leaves each of them one unit short.        *)
SizesFit == \A p \in PutSizes, g \in GetSizes : p + g <= Size + 1

(* Producer and service thread never sleep at once, the one for space and  *)
(* the other for data: with one condition variable and one signal that     *)
(* would be a deadlock of the channel.                                     *)
NeverBothWait == SizesFit => ~ (pc["producer"] = "wait" /\ pc["service"] = "wait")

(* The ring implements the byte stream: nothing lost, doubled, reordered   *)
(* or overwritten across the wrap of either pointer.                       *)
Stream == INSTANCE ByteStream WITH
            Capacity <- Size,
            stream   <- Contents,
            putting  <- local,
            asked    <- req,
            reply    <- reply

StreamSpec == Stream!Spec

(* As long as the consumer keeps asking, whatever amounts and with or      *)
(* without condition, every put returns (queue.c:111-123).                 *)
PutReturns  == []<>(pc["service"] # "idle") =>
                 (pc["producer"] # "idle" ~> pc["producer"] = "idle")

(* A get whose data is there is answered, whether or not the producer puts *)
(* again (queue.c:129-147).                                                *)
GetAnswered == (pc["service"] # "idle" /\ DataSuffices) ~> pc["service"] = "idle"

(* Nobody waits for ever: puts return and gets are answered.               *)
Progress == PutReturns /\ GetAnswered
=============================================================================
