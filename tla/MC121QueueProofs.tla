-------------------------- MODULE MC121QueueProofs --------------------------
(***************************************************************************)
(* Proofs about the byte ring of libdsys/queue.c, for every size of the    *)
(* ring, every set of transfer sizes and every byte alphabet.              *)
(*                                                                         *)
(* The inductive invariant adds to the type, the ring equation and the     *)
(* absence of lost wakeups what the program counters say of the local      *)
(* variables: a thread has a request exactly while it is in a call.        *)
(***************************************************************************)
EXTENDS MC121Queue, SequenceTheorems, TLAPS

USE SizeAssumption, RequestAssumption, ByteAssumption

Puts == UNION {[1 .. n -> Byte] : n \in PutSizes}

(* Program counters and local variables agree *)
InCall == /\ pc["producer"] = "idle" <=> local = << >>
          /\ pc["producer"] # "idle" => local \in Puts
          /\ pc["service"] = "idle" <=> req = NoGet
          /\ pc["service"] # "idle" => req.bytes \in GetSizes

Inv == TypeOK /\ RingInv /\ NoLostWakeup /\ InCall

-----------------------------------------------------------------------------
(* A function on 1 .. n is a sequence of length n                          *)
LEMMA FunctionIsSeq ==
  ASSUME NEW S, NEW n \in Nat, NEW f \in [1 .. n -> S]
  PROVE  f \in Seq(S) /\ Len(f) = n
  OBVIOUS

(* What a put carries has a size the application may use                   *)
LEMMA PutLength ==
  ASSUME NEW s \in Puts
  PROVE  /\ s \in Seq(Byte)
         /\ Len(s) \in PutSizes
         /\ Len(s) \in Nat \ {0}
         /\ s \in [1 .. Len(s) -> Byte]
<1>1. PICK n \in PutSizes : s \in [1 .. n -> Byte]
  BY DEF Puts
<1>2. n \in Nat \ {0}
  OBVIOUS
<1>3. s \in Seq(Byte) /\ Len(s) = n
  BY <1>1, <1>2, FunctionIsSeq
<1>4. QED
  BY <1>1, <1>2, <1>3

(* A copy that stays inside source and block leaves a block of bytes       *)
LEMMA MemcpyType ==
  ASSUME NEW m \in [Addr -> Byte], NEW src \in Seq(Byte),
         NEW dst \in Nat, NEW off \in Nat, NEW n \in Nat,
         off + n <= Len(src)
  PROVE  Memcpy(m, dst, src, off, n) \in [Addr -> Byte]
<1>1. SUFFICES ASSUME NEW a \in Addr, dst <= a, a < dst + n
               PROVE  src[off + (a - dst) + 1] \in Byte
  BY DEF Memcpy
<1>2. a \in Nat
  BY DEF Addr
<1>3. off + (a - dst) + 1 \in 1 .. Len(src)
  BY <1>1, <1>2
<1>4. QED
  BY <1>3, ElementOfSeq

(* Putting keeps the ring well-formed                                      *)
LEMMA PutQKeeps ==
  ASSUME TypeOK, RingInv, local \in Puts, PutFits, PutQ
  PROVE  /\ mem' \in [Addr -> Byte]
         /\ free_start' \in Addr
         /\ data_start' \in Addr
         /\ bytes_inbuff' \in 0 .. Size
         /\ RingInv'
<1> DEFINE bytes      == Len(local)
           upper_free == Size - free_start
<1>1. /\ bytes \in Nat \ {0}
      /\ local \in Seq(Byte)
  BY PutLength
<1>2. /\ free_start \in Nat /\ free_start < Size
      /\ data_start \in Nat /\ data_start < Size
      /\ bytes_inbuff \in Nat /\ bytes_inbuff <= Size
      /\ mem \in [Addr -> Byte]
      /\ Size \in Nat
  BY DEF TypeOK, Addr
<1>3. bytes_inbuff + bytes <= Size
  BY <1>1, <1>2 DEF PutFits
<1>4. free_start = IF data_start + bytes_inbuff < Size
                     THEN data_start + bytes_inbuff
                     ELSE data_start + bytes_inbuff - Size
  BY <1>2 DEF RingInv, Wrap
<1>5. bytes_inbuff' = bytes_inbuff + bytes /\ data_start' = data_start
  BY DEF PutQ
<1>6. CASE upper_free > bytes
  <2>1. /\ mem' = Memcpy(mem, free_start, local, 0, bytes)
        /\ free_start' = free_start + bytes
    BY <1>6 DEF PutQ
  <2>2. mem' \in [Addr -> Byte]
    BY <2>1, <1>1, <1>2, MemcpyType
  <2>3. free_start' \in Addr /\ RingInv'
    BY <2>1, <1>1, <1>2, <1>3, <1>4, <1>5, <1>6 DEF RingInv, Wrap, Addr
  <2>4. QED
    BY <2>2, <2>3, <1>1, <1>2, <1>3, <1>5 DEF Addr
<1>7. CASE ~ (upper_free > bytes)
  <2> DEFINE half == Memcpy(mem, free_start, local, 0, upper_free)
  <2>1. /\ mem' = Memcpy(half, 0, local, upper_free, bytes - upper_free)
        /\ free_start' = bytes - upper_free
    BY <1>7 DEF PutQ
  <2>2. upper_free \in Nat \ {0} /\ bytes - upper_free \in Nat
    BY <1>1, <1>2, <1>7
  <2>3. half \in [Addr -> Byte]
    BY <2>2, <1>1, <1>2, MemcpyType
  <2>4. mem' \in [Addr -> Byte]
    <3> HIDE DEF half
    <3>1. upper_free + (bytes - upper_free) <= Len(local)
      BY <1>1, <1>2
    <3>2. QED
      BY <3>1, <2>1, <2>2, <2>3, <1>1, MemcpyType
  <2>5. free_start' \in Addr /\ RingInv'
    BY <2>1, <2>2, <1>1, <1>2, <1>3, <1>4, <1>5, <1>7 DEF RingInv, Wrap, Addr
  <2>6. QED
    BY <2>4, <2>5, <1>1, <1>2, <1>3, <1>5 DEF Addr
<1>8. QED
  BY <1>6, <1>7

(* Reading keeps it well-formed, and yields as many bytes as were asked    *)
(* for                                                                     *)
LEMMA SendQKeeps ==
  ASSUME TypeOK, RingInv, req.bytes \in GetSizes, DataSuffices, SendQ
  PROVE  /\ data_start' \in Addr
         /\ bytes_inbuff' \in 0 .. Size
         /\ RingInv'
         /\ \E d \in [1 .. req.bytes -> Byte] :
               /\ reply' = [preamble |-> IF req.cond THEN "preamble" ELSE "none", data |-> d]
               /\ \A i \in 1 .. req.bytes : d[i] = mem[Wrap(data_start + i - 1)]
<1> DEFINE bytes      == req.bytes
           upper_data == Size - data_start
<1>1. bytes \in Nat \ {0} /\ bytes \in GetSizes /\ req.bytes = bytes
  OBVIOUS
<1>2. /\ free_start \in Nat /\ free_start < Size
      /\ data_start \in Nat /\ data_start < Size
      /\ bytes_inbuff \in Nat /\ bytes_inbuff <= Size
      /\ mem \in [Addr -> Byte]
      /\ Size \in Nat
  BY DEF TypeOK, Addr
<1>3. bytes <= bytes_inbuff
  BY <1>1, <1>2 DEF DataSuffices
<1>0. upper_data = Size - data_start
  OBVIOUS
<1>4. free_start = IF data_start + bytes_inbuff < Size
                     THEN data_start + bytes_inbuff
                     ELSE data_start + bytes_inbuff - Size
  BY <1>2 DEF RingInv, Wrap
<1>5. bytes_inbuff' = bytes_inbuff - bytes /\ free_start' = free_start
  BY DEF SendQ
<1>a. ASSUME upper_data > bytes
      PROVE  /\ reply' = [preamble |-> IF req.cond THEN "preamble" ELSE "none",
                          data     |-> Block(data_start, bytes)]
             /\ data_start' = data_start + bytes
  BY <1>a DEF SendQ
<1>b. ASSUME ~ (upper_data > bytes)
      PROVE  /\ reply' = [preamble |-> IF req.cond THEN "preamble" ELSE "none",
                          data     |-> Block(data_start, upper_data)
                                         \o Block(0, bytes - upper_data)]
             /\ data_start' = bytes - upper_data
  BY <1>b DEF SendQ
<1> HIDE DEF bytes, upper_data
<1>c. bytes_inbuff' \in 0 .. Size
  BY <1>1, <1>2, <1>3, <1>5
<1> DEFINE Answer(d) ==
             /\ reply' = [preamble |-> IF req.cond THEN "preamble" ELSE "none", data |-> d]
             /\ \A i \in 1 .. bytes : d[i] = mem[Wrap(data_start + i - 1)]
<1>6. CASE upper_data > bytes
  <2>1. /\ reply' = [preamble |-> IF req.cond THEN "preamble" ELSE "none",
                     data     |-> Block(data_start, bytes)]
        /\ data_start' = data_start + bytes
    BY <1>6, <1>a
  <2>2. data_start' \in Addr /\ RingInv'
    BY <2>1, <1>1, <1>2, <1>3, <1>4, <1>5, <1>6, <1>0 DEF RingInv, Wrap, Addr
  <2>3. \A i \in 1 .. bytes : /\ data_start + i - 1 \in Addr
                              /\ Wrap(data_start + i - 1) = data_start + i - 1
    BY <1>0, <1>1, <1>2, <1>6 DEF Wrap, Addr
  <2>4. /\ Block(data_start, bytes) \in [1 .. bytes -> Byte]
        /\ \A i \in 1 .. bytes :
             Block(data_start, bytes)[i] = mem[Wrap(data_start + i - 1)]
    BY <2>3, <1>2 DEF Block
  <2>5. Answer(Block(data_start, bytes))
    BY <2>1, <2>4
  <2>6. QED
    <3> HIDE DEF Answer
    <3>1. \E d \in [1 .. bytes -> Byte] : Answer(d)
      BY <2>4, <2>5
    <3>2. QED
      BY <3>1, <2>2, <1>1, <1>c DEF Answer
<1>7. CASE ~ (upper_data > bytes)
  <2> DEFINE first  == Block(data_start, upper_data)
             second == Block(0, bytes - upper_data)
  <2>1. /\ reply' = [preamble |-> IF req.cond THEN "preamble" ELSE "none",
                     data     |-> first \o second]
        /\ data_start' = bytes - upper_data
    BY <1>7, <1>b
  <2>2. /\ upper_data \in Nat \ {0}
        /\ bytes - upper_data \in Nat
        /\ bytes - upper_data < Size
    BY <1>0, <1>1, <1>2, <1>3, <1>7
  <2>3. data_start' \in Addr /\ RingInv'
    BY <2>1, <2>2, <1>1, <1>2, <1>3, <1>4, <1>5, <1>7, <1>0 DEF RingInv, Wrap, Addr
  <2>4. /\ first \in [1 .. upper_data -> Byte]
        /\ \A i \in 1 .. upper_data : first[i] = mem[data_start + i - 1]
    BY <1>0, <1>1, <2>2, <1>2 DEF Block, Addr
  <2>5. /\ second \in [1 .. bytes - upper_data -> Byte]
        /\ \A i \in 1 .. bytes - upper_data : second[i] = mem[i - 1]
    BY <1>0, <1>1, <2>2, <1>2 DEF Block, Addr
  <2>6. /\ first \in Seq(Byte) /\ Len(first) = upper_data
        /\ second \in Seq(Byte) /\ Len(second) = bytes - upper_data
    <3> HIDE DEF first, second
    <3>1. QED
      BY <2>2, <2>4, <2>5, FunctionIsSeq
  <2> HIDE DEF first, second
  <2>7. /\ first \o second \in Seq(Byte)
        /\ Len(first \o second) = bytes
        /\ \A i \in 1 .. bytes : (first \o second)[i] =
              IF i <= upper_data THEN first[i] ELSE second[i - upper_data]
    <3>1. Len(first) + Len(second) = bytes
      BY <2>6, <2>2, <1>1, <1>2
    <3>2. QED
      BY <3>1, <2>6, ConcatProperties
  <2>8. first \o second \in [1 .. bytes -> Byte]
    BY <2>7, LenProperties
  <2>9. ASSUME NEW i \in 1 .. bytes
        PROVE  (first \o second)[i] = mem[Wrap(data_start + i - 1)]
    <3>1. CASE i <= upper_data
      <4>1. Wrap(data_start + i - 1) = data_start + i - 1
        BY <3>1, <1>0, <1>1, <1>2 DEF Wrap
      <4>2. QED
        BY <4>1, <3>1, <2>4, <2>7, <2>2, <1>1
    <3>2. CASE ~ (i <= upper_data)
      <4>1. Wrap(data_start + i - 1) = i - upper_data - 1
        BY <3>2, <1>0, <1>1, <1>2 DEF Wrap
      <4>2. i - upper_data \in 1 .. bytes - upper_data
        BY <3>2, <2>2, <1>1
      <4>3. QED
        BY <4>1, <4>2, <3>2, <2>5, <2>7
    <3>3. QED
      BY <3>1, <3>2
  <2>10. QED
    <3>1. Answer(first \o second)
      BY <2>1, <2>9
    <3> HIDE DEF Answer
    <3>2. \E d \in [1 .. bytes -> Byte] : Answer(d)
      BY <2>8, <3>1
    <3>3. QED
      BY <3>2, <2>3, <1>1, <1>c DEF Answer
<1>8. QED
  BY <1>6, <1>7

-----------------------------------------------------------------------------
(* malloc, the empty ring and two idle threads satisfy the invariant       *)
LEMMA InitInv == Init => Inv
<1> SUFFICES ASSUME Init
             PROVE  Inv
  OBVIOUS
<1>1. TypeOK
  BY DEF Init, TypeOK, Addr, Threads, NoGet
<1>2. RingInv
  BY DEF Init, RingInv, Wrap
<1>3. NoLostWakeup /\ InCall
  BY DEF Init, NoLostWakeup, InCall, Threads
<1>4. QED
  BY <1>1, <1>2, <1>3 DEF Inv

(* Every step keeps the invariant.  Only PutDone and SendDone move data,   *)
(* and both wake the thread that waits for it; all other steps leave the   *)
(* ring, and with it what a sleeper waits for, as it is.                   *)
LEMMA NextInv == Inv /\ [Next]_vars => Inv'
<1> SUFFICES ASSUME Inv, [Next]_vars
             PROVE  Inv'
  OBVIOUS
<1> USE DEF Threads
<1>0. /\ TypeOK /\ RingInv /\ NoLostWakeup /\ InCall
      /\ pc \in [Threads -> {"idle", "lock", "wait"}]
      /\ bytes_inbuff \in Nat
  BY DEF Inv, TypeOK
<1>1. CASE CallPut
  <2>1. PICK n \in PutSizes : local' \in [1 .. n -> Byte]
    BY <1>1 DEF CallPut
  <2>2. local' \in Puts
    BY <2>1 DEF Puts
  <2>3. local' # << >>
    <3>1. \A t \in Puts : t # << >>
      BY PutLength
    <3>2. QED
      BY <2>2, <3>1
  <2>4. TypeOK'
    BY <1>0, <1>1, <2>1 DEF CallPut, TypeOK, ring
  <2>5. RingInv'
    BY <1>0, <1>1 DEF CallPut, RingInv, Wrap, ring
  <2>6. NoLostWakeup'
    BY <1>0, <1>1 DEF CallPut, NoLostWakeup, PutFits, DataSuffices, ring
  <2>7. InCall'
    BY <1>0, <1>1, <2>2, <2>3 DEF CallPut, InCall
  <2>8. QED
    BY <2>4, <2>5, <2>6, <2>7 DEF Inv
<1>2. CASE PutDone
  <2>1. /\ mem' \in [Addr -> Byte] /\ free_start' \in Addr /\ data_start' \in Addr
        /\ bytes_inbuff' \in 0 .. Size /\ RingInv'
    BY <1>0, <1>2, PutQKeeps DEF PutDone, InCall
  <2>2. /\ local' = << >> /\ req' = req /\ reply' = reply
        /\ pc' = [producer |-> "idle", service |-> Signalled("service")]
    BY <1>2 DEF PutDone, SignalData
  <2>3. pc' \in [Threads -> {"idle", "lock", "wait"}] /\ pc'["service"] # "wait"
    BY <1>0, <2>2 DEF Signalled
  <2>4. TypeOK'
    BY <1>0, <2>1, <2>2, <2>3 DEF TypeOK
  <2>5. NoLostWakeup'
    BY <2>2, <2>3 DEF NoLostWakeup
  <2>6. InCall'
    BY <1>0, <2>2 DEF InCall, Signalled
  <2>7. QED
    BY <2>1, <2>4, <2>5, <2>6 DEF Inv
<1>3. CASE PutWaits
  <2>1. TypeOK'
    BY <1>0, <1>3 DEF PutWaits, TypeOK, ring
  <2>2. RingInv'
    BY <1>0, <1>3 DEF PutWaits, RingInv, Wrap, ring
  <2>3. NoLostWakeup'
    BY <1>0, <1>3 DEF PutWaits, NoLostWakeup, PutFits, DataSuffices, ring
  <2>4. InCall'
    BY <1>0, <1>3 DEF PutWaits, InCall
  <2>5. QED
    BY <2>1, <2>2, <2>3, <2>4 DEF Inv
<1>4. CASE Request
  <2>1. PICK n \in GetSizes, c \in BOOLEAN : req' = [bytes |-> n, cond |-> c]
    BY <1>4 DEF Request
  <2>2. TypeOK'
    BY <1>0, <1>4, <2>1 DEF Request, TypeOK, ring
  <2>3. RingInv'
    BY <1>0, <1>4 DEF Request, RingInv, Wrap, ring
  <2>4. NoLostWakeup'
    BY <1>0, <1>4 DEF Request, NoLostWakeup, PutFits, DataSuffices, ring
  <2>5. InCall'
    BY <1>0, <1>4, <2>1 DEF Request, InCall, NoGet
  <2>6. QED
    BY <2>2, <2>3, <2>4, <2>5 DEF Inv
<1>5. CASE SendDone
  <2>1. /\ data_start' \in Addr /\ bytes_inbuff' \in 0 .. Size /\ RingInv'
        /\ \E d \in [1 .. req.bytes -> Byte] :
              reply' = [preamble |-> IF req.cond THEN "preamble" ELSE "none", data |-> d]
    BY <1>0, <1>5, SendQKeeps DEF SendDone, InCall
  <2>2. /\ local' = local /\ req' = NoGet
        /\ mem' = mem /\ free_start' = free_start
        /\ pc' = [producer |-> Signalled("producer"), service |-> "idle"]
    BY <1>5 DEF SendDone, SignalSpace, SendQ
  <2>3. pc' \in [Threads -> {"idle", "lock", "wait"}] /\ pc'["producer"] # "wait"
    BY <1>0, <2>2 DEF Signalled
  <2>4. \/ reply' \in {NoReply, Sorry}
        \/ /\ reply'.preamble \in {"none", "preamble"}
           /\ \E n \in GetSizes : reply'.data \in [1 .. n -> Byte]
    <3>1. PICK d \in [1 .. req.bytes -> Byte] :
                 reply' = [preamble |-> IF req.cond THEN "preamble" ELSE "none", data |-> d]
      BY <2>1
    <3>2. req.bytes \in GetSizes
      BY <1>0, <1>5 DEF InCall, SendDone
    <3>3. /\ reply'.preamble \in {"none", "preamble"}
          /\ reply'.data = d
      BY <3>1
    <3>4. QED
      BY <3>2, <3>3
  <2>5. TypeOK'
    BY <1>0, <2>1, <2>2, <2>3, <2>4 DEF TypeOK, NoGet
  <2>6. NoLostWakeup'
    BY <2>2, <2>3 DEF NoLostWakeup
  <2>7. InCall'
    BY <1>0, <2>2 DEF InCall, Signalled
  <2>8. QED
    BY <2>1, <2>5, <2>6, <2>7 DEF Inv
<1>6. CASE SendSorry
  <2>1. TypeOK'
    BY <1>0, <1>6 DEF SendSorry, TypeOK, ring, NoGet
  <2>2. RingInv'
    BY <1>0, <1>6 DEF SendSorry, RingInv, Wrap, ring
  <2>3. NoLostWakeup'
    BY <1>0, <1>6 DEF SendSorry, NoLostWakeup, PutFits, DataSuffices, ring
  <2>4. InCall'
    BY <1>0, <1>6 DEF SendSorry, InCall
  <2>5. QED
    BY <2>1, <2>2, <2>3, <2>4 DEF Inv
<1>7. CASE SendWaits
  <2>1. TypeOK'
    BY <1>0, <1>7 DEF SendWaits, TypeOK, ring
  <2>2. RingInv'
    BY <1>0, <1>7 DEF SendWaits, RingInv, Wrap, ring
  <2>3. NoLostWakeup'
    BY <1>0, <1>7 DEF SendWaits, NoLostWakeup, PutFits, DataSuffices, ring
  <2>4. InCall'
    BY <1>0, <1>7 DEF SendWaits, InCall
  <2>5. QED
    BY <2>1, <2>2, <2>3, <2>4 DEF Inv
<1>8. CASE SpuriousWakeup
  <2>1. TypeOK'
    BY <1>0, <1>8 DEF SpuriousWakeup, TypeOK, ring
  <2>2. RingInv'
    BY <1>0, <1>8 DEF SpuriousWakeup, RingInv, Wrap, ring
  <2>3. NoLostWakeup'
    BY <1>0, <1>8 DEF SpuriousWakeup, NoLostWakeup, PutFits, DataSuffices, ring
  <2>4. InCall'
    BY <1>0, <1>8 DEF SpuriousWakeup, InCall
  <2>5. QED
    BY <2>1, <2>2, <2>3, <2>4 DEF Inv
<1>9. CASE UNCHANGED vars
  BY <1>0, <1>9 DEF vars, Inv, TypeOK, RingInv, Wrap, NoLostWakeup, PutFits, DataSuffices, InCall
<1>10. QED
  BY <1>1, <1>2, <1>3, <1>4, <1>5, <1>6, <1>7, <1>8, <1>9 DEF Next, Put, Send

(* The inductive invariant holds throughout.                               *)
THEOREM Invariance == Spec => []Inv
  BY InitInv, NextInv, PTL DEF Spec

(* No pointer leaves the block, none stays at its end, and no more bytes   *)
(* than the ring has are counted (queue.c:168-185, 209-226).               *)
THEOREM TypeCorrect == Spec => []TypeOK
<1>1. Inv => TypeOK
  BY DEF Inv
<1>2. QED
  BY <1>1, Invariance, PTL

(* The free pointer is always where the data ends: put and send, which     *)
(* each move one pointer and the shared count, cannot drift apart.         *)
THEOREM RingCorrect == Spec => []RingInv
<1>1. Inv => RingInv
  BY DEF Inv
<1>2. QED
  BY <1>1, Invariance, PTL

(* A thread sleeps on no_suff only while what it waits for is missing:     *)
(* single signals on a shared condition variable suffice for two threads.  *)
THEOREM WakeupsCorrect == Spec => []NoLostWakeup
<1>1. Inv => NoLostWakeup
  BY DEF Inv
<1>2. QED
  BY <1>1, Invariance, PTL

(* Producer and service thread never both sleep, provided that no put and  *)
(* get together are larger than the ring and one byte.                     *)
THEOREM DeadlockFree == Spec => []NeverBothWait
<1>1. Inv => NeverBothWait
  <2> SUFFICES ASSUME Inv, SizesFit, pc["producer"] = "wait", pc["service"] = "wait"
               PROVE  FALSE
    BY DEF NeverBothWait
  <2>1. /\ ~ PutFits /\ ~ DataSuffices
        /\ local \in Puts /\ req.bytes \in GetSizes
        /\ bytes_inbuff \in Nat
    BY DEF Inv, NoLostWakeup, InCall, TypeOK
  <2>2. Len(local) \in PutSizes /\ Len(local) \in Nat
    BY <2>1, PutLength
  <2>3. Len(local) + req.bytes <= Size + 1
    BY <2>1, <2>2 DEF SizesFit
  <2>4. /\ Size - bytes_inbuff < Len(local)
        /\ bytes_inbuff < req.bytes
    BY <2>1 DEF PutFits, DataSuffices
  <2>5. req.bytes \in Nat
    BY <2>1
  <2>6. QED
    BY <2>1, <2>2, <2>3, <2>4, <2>5
<1>2. QED
  BY <1>1, Invariance, PTL

-----------------------------------------------------------------------------
(* The n bytes from address d on, in the memory m                          *)
Window(m, d, n) == [i \in 1 .. n |-> m[Wrap(d + i - 1)]]

(* The window of a ring is a sequence of bytes                             *)
LEMMA WindowSeq ==
  ASSUME NEW m \in [Addr -> Byte], NEW d \in Addr, NEW n \in 0 .. Size
  PROVE  /\ Window(m, d, n) \in Seq(Byte)
         /\ Len(Window(m, d, n)) = n
         /\ \A i \in 1 .. n : Window(m, d, n)[i] = m[Wrap(d + i - 1)]
<1>1. \A i \in 1 .. n : Wrap(d + i - 1) \in Addr
  BY DEF Wrap, Addr
<1>2. Window(m, d, n) \in [1 .. n -> Byte]
  BY <1>1 DEF Window
<1>3. Window(m, d, n) \in Seq(Byte) /\ Len(Window(m, d, n)) = n
  BY <1>2, FunctionIsSeq
<1>4. QED
  BY <1>3 DEF Window

(* Going on from a wrapped address is going on from the address            *)
LEMMA WrapTwice ==
  ASSUME NEW d \in Nat, NEW n \in Nat, NEW i \in Nat \ {0},
         d < Size, n + i <= Size
  PROVE  Wrap(Wrap(d + n) + i - 1) = Wrap(d + (n + i) - 1)
<1>1. CASE d + n < Size
  BY <1>1 DEF Wrap
<1>2. CASE ~ (d + n < Size)
  <2>1. Wrap(d + n) = d + n - Size
    BY <1>2 DEF Wrap
  <2>2. ~ (d + (n + i) - 1 < Size) /\ d + n - Size + i - 1 < Size
    BY <1>2
  <2>3. QED
    BY <2>1, <2>2 DEF Wrap
<1>3. QED
  BY <1>1, <1>2

(* A put appends its bytes to the contents, and overwrites none of them    *)
LEMMA PutQAppends ==
  ASSUME TypeOK, TypeOK', RingInv, local \in Puts, PutFits, PutQ
  PROVE  Contents' = Contents \o local
<1> DEFINE bytes      == Len(local)
           upper_free == Size - free_start
           b          == bytes_inbuff
           at(i)      == Wrap(data_start + i - 1)
<1>1. /\ bytes \in Nat \ {0}
      /\ local \in Seq(Byte)
  BY PutLength
<1>2. /\ free_start \in Nat /\ free_start < Size
      /\ data_start \in Nat /\ data_start < Size /\ data_start \in Addr
      /\ b \in Nat /\ b <= Size
      /\ mem \in [Addr -> Byte] /\ mem' \in [Addr -> Byte]
  BY DEF TypeOK, Addr
<1>3. b + bytes <= Size
  BY <1>1, <1>2 DEF PutFits
<1>4. free_start = IF data_start + b < Size
                     THEN data_start + b
                     ELSE data_start + b - Size
  BY <1>2 DEF RingInv, Wrap
<1>5. bytes_inbuff' = b + bytes /\ data_start' = data_start
  BY DEF PutQ
<1>6. /\ Contents = Window(mem, data_start, b)
      /\ Contents' = Window(mem', data_start, b + bytes)
  BY <1>5 DEF Contents, Window, Wrap
<1>7. /\ Contents \in Seq(Byte) /\ Len(Contents) = b
      /\ \A i \in 1 .. b : Contents[i] = mem[at(i)]
  BY <1>2, <1>6, WindowSeq
<1>8. /\ Contents' \in Seq(Byte) /\ Len(Contents') = b + bytes
      /\ \A i \in 1 .. b + bytes : Contents'[i] = mem'[at(i)]
  <2>1. b + bytes \in 0 .. Size
    BY <1>1, <1>2, <1>3
  <2>2. QED
    BY <2>1, <1>2, <1>6, WindowSeq
<1>9. /\ Contents \o local \in Seq(Byte) /\ Len(Contents \o local) = b + bytes
      /\ \A i \in 1 .. b + bytes : (Contents \o local)[i] =
            IF i <= b THEN Contents[i] ELSE local[i - b]
  BY <1>1, <1>7, ConcatProperties
<1>10. ASSUME NEW i \in 1 .. b + bytes
       PROVE  mem'[at(i)] = IF i <= b THEN mem[at(i)] ELSE local[i - b]
  <2>1. /\ at(i) \in Nat /\ at(i) < Size /\ at(i) \in Addr
        /\ at(i) = IF data_start + i - 1 < Size
                     THEN data_start + i - 1
                     ELSE data_start + i - 1 - Size
    BY <1>1, <1>2, <1>3 DEF Wrap, Addr
  <2>2. CASE upper_free > bytes
    <3>1. mem' = Memcpy(mem, free_start, local, 0, bytes)
      BY <2>2 DEF PutQ
    <3>2. mem'[at(i)] = IF free_start <= at(i) /\ at(i) < free_start + bytes
                          THEN local[0 + (at(i) - free_start) + 1] ELSE mem[at(i)]
      BY <3>1, <2>1 DEF Memcpy
    <3> HIDE DEF at
    <3>3. CASE i <= b
      <4>1. ~ (free_start <= at(i) /\ at(i) < free_start + bytes)
        BY <3>3, <2>1, <2>2, <1>1, <1>2, <1>3, <1>4
      <4>2. QED
        BY <4>1, <3>2, <3>3
    <3>4. CASE ~ (i <= b)
      <4>1. /\ free_start <= at(i) /\ at(i) < free_start + bytes
            /\ 0 + (at(i) - free_start) + 1 = i - b
        BY <3>4, <2>1, <2>2, <1>1, <1>2, <1>3, <1>4
      <4>2. QED
        BY <4>1, <3>2, <3>4
    <3>5. QED
      BY <3>3, <3>4
  <2>3. CASE ~ (upper_free > bytes)
    <3> DEFINE half == Memcpy(mem, free_start, local, 0, upper_free)
               rest == bytes - upper_free
    <3>1. mem' = Memcpy(half, 0, local, upper_free, rest)
      BY <2>3 DEF PutQ
    <3>2. half[at(i)] = IF free_start <= at(i) /\ at(i) < free_start + upper_free
                          THEN local[0 + (at(i) - free_start) + 1] ELSE mem[at(i)]
      BY <2>1 DEF Memcpy
    <3>3. mem'[at(i)] = IF 0 <= at(i) /\ at(i) < 0 + rest
                          THEN local[upper_free + (at(i) - 0) + 1] ELSE half[at(i)]
      <4> HIDE DEF half
      <4>1. QED
        BY <3>1, <2>1 DEF Memcpy
    <3> HIDE DEF at, half
    <3>4. CASE i <= b
      <4>1. ~ (free_start <= at(i)) /\ ~ (at(i) < 0 + rest)
        BY <3>4, <2>1, <2>3, <1>1, <1>2, <1>3, <1>4
      <4>2. QED
        BY <4>1, <3>2, <3>3, <3>4
    <3>5. CASE ~ (i <= b) /\ at(i) < rest
      <4>1. upper_free + (at(i) - 0) + 1 = i - b
        BY <3>5, <2>1, <2>3, <1>1, <1>2, <1>3, <1>4
      <4>2. 0 <= at(i) /\ at(i) < 0 + rest
        BY <3>5, <2>1, <1>1, <1>2
      <4>3. QED
        BY <4>1, <4>2, <3>3, <3>5
    <3>6. CASE ~ (i <= b) /\ ~ (at(i) < rest)
      <4>1. /\ free_start <= at(i) /\ at(i) < free_start + upper_free
            /\ 0 + (at(i) - free_start) + 1 = i - b
            /\ ~ (at(i) < 0 + rest)
        BY <3>6, <2>1, <2>3, <1>1, <1>2, <1>3, <1>4
      <4>2. QED
        BY <4>1, <3>2, <3>3, <3>6
    <3>7. QED
      BY <3>4, <3>5, <3>6
  <2>4. QED
    BY <2>2, <2>3
<1>11. \A i \in 1 .. Len(Contents') : Contents'[i] = (Contents \o local)[i]
  <2> HIDE DEF at
  <2>1. TAKE i \in 1 .. Len(Contents')
  <2>2. i \in 1 .. b + bytes
    BY <1>8
  <2>3. CASE i <= b
    <3>1. i \in 1 .. b
      BY <2>2, <2>3, <1>1, <1>2
    <3>2. QED
      BY <3>1, <2>2, <2>3, <1>7, <1>8, <1>9, <1>10
  <2>4. CASE ~ (i <= b)
    BY <2>2, <2>4, <1>8, <1>9, <1>10
  <2>5. QED
    BY <2>3, <2>4
<1>12. QED
  BY <1>8, <1>9, <1>11, SeqEqual

(* A get takes the first bytes of the contents, and answers with them      *)
LEMMA SendQTakes ==
  ASSUME TypeOK, TypeOK', RingInv, req.bytes \in GetSizes, DataSuffices, SendQ
  PROVE  /\ Contents' = SubSeq(Contents, req.bytes + 1, Len(Contents))
         /\ reply' = [preamble |-> IF req.cond THEN "preamble" ELSE "none",
                      data     |-> SubSeq(Contents, 1, req.bytes)]
<1> DEFINE bytes == req.bytes
           b     == bytes_inbuff
           at(i) == Wrap(data_start + i - 1)
<1>1. bytes \in Nat \ {0} /\ bytes = req.bytes
  OBVIOUS
<1>2. PICK d \in [1 .. bytes -> Byte] :
         /\ reply' = [preamble |-> IF req.cond THEN "preamble" ELSE "none", data |-> d]
         /\ \A i \in 1 .. bytes : d[i] = mem[at(i)]
  BY SendQKeeps
<1>3. /\ data_start \in Nat /\ data_start < Size /\ data_start \in Addr
      /\ data_start' \in Addr
      /\ b \in Nat /\ b <= Size
      /\ mem \in [Addr -> Byte]
  BY DEF TypeOK, Addr
<1>4. bytes <= b
  BY <1>1, <1>3 DEF DataSuffices
<1>5. bytes_inbuff' = b - bytes /\ mem' = mem
  BY DEF SendQ
<1>6. data_start' = IF data_start + bytes < Size THEN data_start + bytes
                    ELSE data_start + bytes - Size
  BY <1>1, <1>3, <1>4 DEF SendQ
<1> HIDE DEF bytes
<1>7. /\ Contents = Window(mem, data_start, b)
      /\ Contents' = Window(mem, data_start', b - bytes)
  BY <1>5 DEF Contents, Window, Wrap
<1>8. /\ Contents \in Seq(Byte) /\ Len(Contents) = b
      /\ \A i \in 1 .. b : Contents[i] = mem[at(i)]
  BY <1>3, <1>7, WindowSeq
<1>9. /\ Contents' \in Seq(Byte) /\ Len(Contents') = b - bytes
      /\ \A i \in 1 .. b - bytes : Contents'[i] = mem[Wrap(data_start' + i - 1)]
  <2>1. b - bytes \in 0 .. Size
    BY <1>1, <1>3, <1>4
  <2>2. QED
    BY <2>1, <1>3, <1>7, WindowSeq
<1>10. /\ SubSeq(Contents, bytes + 1, b) \in Seq(Byte)
       /\ Len(SubSeq(Contents, bytes + 1, b)) = b - bytes
       /\ \A i \in 1 .. b - bytes : SubSeq(Contents, bytes + 1, b)[i] = Contents[bytes + i]
  <2>1. \A i \in bytes + 1 .. b : Contents[i] \in Byte
    BY <1>1, <1>3, <1>8, ElementOfSeq
  <2>2. /\ SubSeq(Contents, bytes + 1, b) \in Seq(Byte)
        /\ Len(SubSeq(Contents, bytes + 1, b)) =
              IF bytes + 1 <= b THEN b - (bytes + 1) + 1 ELSE 0
        /\ \A i \in 1 .. b - (bytes + 1) + 1 :
              SubSeq(Contents, bytes + 1, b)[i] = Contents[bytes + 1 + i - 1]
    <3>1. bytes + 1 \in Int /\ b \in Int
      BY <1>1, <1>3
    <3> HIDE DEF b
    <3>2. QED
      BY <2>1, <3>1, SubSeqProperties
  <2>3. \A i \in 1 .. b - bytes : /\ i \in 1 .. b - (bytes + 1) + 1
                                  /\ bytes + 1 + i - 1 = bytes + i
    BY <1>1, <1>3
  <2>4. (IF bytes + 1 <= b THEN b - (bytes + 1) + 1 ELSE 0) = b - bytes
    BY <1>1, <1>3, <1>4
  <2>5. QED
    BY <2>2, <2>3, <2>4
<1>11. /\ SubSeq(Contents, 1, bytes) \in Seq(Byte)
       /\ Len(SubSeq(Contents, 1, bytes)) = bytes
       /\ \A i \in 1 .. bytes : SubSeq(Contents, 1, bytes)[i] = Contents[i]
  <2>1. \A i \in 1 .. bytes : Contents[i] \in Byte
    BY <1>1, <1>3, <1>4, <1>8, ElementOfSeq
  <2>2. /\ SubSeq(Contents, 1, bytes) \in Seq(Byte)
        /\ Len(SubSeq(Contents, 1, bytes)) = IF 1 <= bytes THEN bytes - 1 + 1 ELSE 0
        /\ \A i \in 1 .. bytes - 1 + 1 : SubSeq(Contents, 1, bytes)[i] = Contents[1 + i - 1]
    BY <2>1, <1>1, SubSeqProperties
  <2>3. \A i \in 1 .. bytes : i \in 1 .. bytes - 1 + 1 /\ 1 + i - 1 = i
    BY <1>1
  <2>4. (IF 1 <= bytes THEN bytes - 1 + 1 ELSE 0) = bytes
    BY <1>1
  <2>5. QED
    BY <2>2, <2>3, <2>4
<1>12. \A i \in 1 .. b - bytes : /\ Wrap(data_start' + i - 1) = at(bytes + i)
                                 /\ bytes + i \in 1 .. b
  <2>1. TAKE i \in 1 .. b - bytes
  <2>2. /\ data_start' = Wrap(data_start + bytes)
        /\ i \in Nat \ {0} /\ bytes + i <= b /\ bytes + i <= Size
    BY <1>1, <1>3, <1>4, <1>6 DEF Wrap
  <2>3. data_start \in Nat /\ data_start < Size /\ bytes \in Nat /\ Size \in Nat
    BY <1>1, <1>3
  <2>4. Wrap(Wrap(data_start + bytes) + i - 1) = Wrap(data_start + (bytes + i) - 1)
    BY <2>2, <2>3, WrapTwice
  <2>5. bytes + i \in 1 .. b
    BY <2>2, <1>1, <1>3
  <2>6. QED
    BY <2>2, <2>4, <2>5
<1> HIDE DEF at
<1>13. Contents' = SubSeq(Contents, bytes + 1, b)
  <2>1. \A i \in 1 .. b - bytes : Contents'[i] = SubSeq(Contents, bytes + 1, b)[i]
    BY <1>8, <1>9, <1>10, <1>12
  <2>2. QED
    BY <2>1, <1>9, <1>10, SeqEqual
<1>14. d = SubSeq(Contents, 1, bytes)
  <2>1. d \in Seq(Byte) /\ Len(d) = bytes
    BY <1>1, FunctionIsSeq
  <2>2. \A i \in 1 .. bytes : i \in 1 .. b
    BY <1>1, <1>3, <1>4
  <2>3. \A i \in 1 .. bytes : d[i] = SubSeq(Contents, 1, bytes)[i]
    BY <2>2, <1>2, <1>8, <1>11
  <2>4. QED
    BY <2>1, <2>3, <1>11, SeqEqual
<1>15. QED
  BY <1>1, <1>2, <1>8, <1>13, <1>14

-----------------------------------------------------------------------------
(* The empty ring is the empty stream                                      *)
LEMMA InitRefines == Init => Stream!Init
<1> SUFFICES ASSUME Init
             PROVE  Stream!Init
  OBVIOUS
<1>1. Contents = << >>
  BY DEF Init, Contents
<1>2. QED
  BY <1>1 DEF Init, Stream!Init, NoGet, NoReply, Stream!NoGet, Stream!NoReply

(* A step that moves no data leaves the stream as it is                    *)
LEMMA RingSame == UNCHANGED ring => UNCHANGED Contents
  BY DEF ring, Contents, Wrap

(* Every step of the ring is a step of the stream, or is not seen there:   *)
(* a put is accepted when its bytes are copied, a get delivered when its   *)
(* answer is sent, and waiting for the mutex or for a signal is stuttering *)
LEMMA StepRefines == Inv /\ Inv' /\ [Next]_vars => [Stream!Next]_(Stream!avars)
<1> SUFFICES ASSUME Inv, Inv', [Next]_vars
             PROVE  Stream!Next \/ UNCHANGED Stream!avars
  OBVIOUS
<1> USE DEF Threads
<1>0. /\ TypeOK /\ TypeOK' /\ RingInv /\ InCall
      /\ pc \in [Threads -> {"idle", "lock", "wait"}]
      /\ bytes_inbuff \in Nat
      /\ Len(Contents) = bytes_inbuff
  <2>1. TypeOK /\ TypeOK' /\ RingInv /\ InCall
    BY DEF Inv
  <2>2. /\ mem \in [Addr -> Byte] /\ data_start \in Addr
        /\ bytes_inbuff \in 0 .. Size
        /\ pc \in [Threads -> {"idle", "lock", "wait"}]
    BY <2>1 DEF TypeOK
  <2>3. Contents = Window(mem, data_start, bytes_inbuff)
    BY DEF Contents, Window
  <2>4. QED
    BY <2>1, <2>2, <2>3, WindowSeq
<1>1. CASE CallPut
  <2>1. UNCHANGED Contents
    BY <1>1, RingSame DEF CallPut
  <2>2. Stream!BeginPut
    BY <1>0, <1>1, <2>1 DEF CallPut, InCall, Stream!BeginPut, Stream!Strings
  <2>3. QED
    BY <2>2 DEF Stream!Next
<1>2. CASE PutDone
  <2>1. /\ PutFits /\ PutQ /\ pc["producer"] = "lock"
        /\ local' = << >> /\ req' = req /\ reply' = reply
    BY <1>2 DEF PutDone
  <2>2. local \in Puts /\ local # << >>
    BY <1>0, <2>1 DEF InCall
  <2>3. Contents' = Contents \o local
    BY <1>0, <2>1, <2>2, PutQAppends
  <2>4. Len(Contents) + Len(local) <= Size
    BY <1>0, <2>1, <2>2, PutLength DEF PutFits
  <2>5. Stream!Accept
    BY <2>1, <2>2, <2>3, <2>4 DEF Stream!Accept
  <2>6. QED
    BY <2>5 DEF Stream!Next
<1>3. CASE PutWaits \/ SendWaits \/ SpuriousWakeup
  <2>1. UNCHANGED <<ring, local, req, reply>>
    BY <1>3 DEF PutWaits, SendWaits, SpuriousWakeup
  <2>2. QED
    BY <2>1, RingSame DEF Stream!avars
<1>4. CASE Request
  <2>1. UNCHANGED Contents
    BY <1>4, RingSame DEF Request
  <2>2. req = Stream!NoGet
    BY <1>0, <1>4 DEF Request, InCall, NoGet, Stream!NoGet
  <2>3. Stream!BeginGet
    BY <1>4, <2>1, <2>2 DEF Request, Stream!BeginGet, NoReply, Stream!NoReply
  <2>4. QED
    BY <2>3 DEF Stream!Next
<1>5. CASE SendDone
  <2>1. /\ DataSuffices /\ SendQ /\ pc["service"] = "lock"
        /\ req' = NoGet /\ local' = local
    BY <1>5 DEF SendDone
  <2>2. req.bytes \in GetSizes /\ req # NoGet
    BY <1>0, <2>1 DEF InCall
  <2>3. /\ Contents' = SubSeq(Contents, req.bytes + 1, Len(Contents))
        /\ reply' = [preamble |-> IF req.cond THEN "preamble" ELSE "none",
                     data     |-> SubSeq(Contents, 1, req.bytes)]
    BY <1>0, <2>1, <2>2, SendQTakes
  <2>4. Len(Contents) >= req.bytes
    <3>1. req.bytes \in Nat
      BY <2>2
    <3>2. ~ (bytes_inbuff < req.bytes)
      BY <2>1 DEF DataSuffices
    <3>3. bytes_inbuff >= req.bytes
      BY <3>1, <3>2, <1>0
    <3>4. QED
      BY <3>3, <1>0
  <2>5. req # Stream!NoGet /\ req' = Stream!NoGet
    BY <2>1, <2>2 DEF NoGet, Stream!NoGet
  <2>6. Stream!Deliver
    BY <2>1, <2>3, <2>4, <2>5 DEF Stream!Deliver
  <2>7. QED
    BY <2>6 DEF Stream!Next
<1>6. CASE SendSorry
  <2>1. UNCHANGED Contents
    BY <1>6, RingSame DEF SendSorry
  <2>2. req.bytes \in GetSizes
    BY <1>0, <1>6 DEF InCall, SendSorry
  <2>3. Len(Contents) < req.bytes
    BY <1>0, <1>6, <2>2 DEF SendSorry, DataSuffices
  <2>4. Stream!Refuse
    BY <1>6, <2>1, <2>3 DEF SendSorry, Stream!Refuse, NoGet, Sorry, Stream!NoGet, Stream!Sorry
  <2>5. QED
    BY <2>4 DEF Stream!Next
<1>7. CASE UNCHANGED vars
  <2>1. UNCHANGED <<ring, local, req, reply>>
    BY <1>7 DEF vars, ring
  <2>2. QED
    BY <2>1, RingSame DEF Stream!avars
<1>8. QED
  BY <1>1, <1>2, <1>3, <1>4, <1>5, <1>6, <1>7 DEF Next, Put, Send

(* The ring implements the byte stream: what the consumer receives is what *)
(* the producer put, once, whole and in order, for every size of the ring. *)
THEOREM Refinement == Spec => StreamSpec
<1>1. Inv /\ Inv' /\ [Next]_vars => [Stream!Next]_(Stream!avars)
  BY StepRefines
<1>2. QED
  BY <1>1, InitRefines, Invariance, PTL DEF Spec, StreamSpec, Stream!Spec
=============================================================================
