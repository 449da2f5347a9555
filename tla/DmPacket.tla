------------------------------ MODULE DmPacket ------------------------------
(***************************************************************************)
(* The packets of dm_packet.cpp: DmPacketRead collects a packet from a byte *)
(* stream that arrives in pieces.  A packet is "[DM-", its length in four   *)
(* bytes, the data, the CRC of all this, and "-NR]".                        *)
(*                                                                          *)
(* Each reader is a thread with a DmPacket of its own, as each server of    *)
(* the examples has, calling DmPacketRead until its stream is read.  The    *)
(* buffers come from the allocator of DebugNew, which other threads use     *)
(* too.                                                                     *)
(*                                                                          *)
(* Bytes, positions and lengths are the code's but for the largest length.  *)
(***************************************************************************)
EXTENDS DebugNew, Crc32

CONSTANTS
  Reader,          \* threads that read packets
  Stream,          \* the byte streams they may be sent
  Sent,            \* the packets senders made, damaged or not on their way
  ReadSize,        \* bound: the sizes of the pieces they read
  MaxOfMsgSize,    \* kMaxOfMsgSize, 8 MiB in the code
  OtherSize,       \* bound: the sizes of what other threads allocate
  MaxHeld,         \* bound: how many blocks another thread has
  BeyondTorn       \* bound: is a run followed beyond a lost update of the total

ASSUME StreamsAssumption ==
  /\ Reader \subseteq Thread
  /\ \A s \in Stream : s \in Seq(0..255)
  /\ ReadSize \subseteq Nat \ {0}
  /\ MaxOfMsgSize \in Nat /\ MaxOfMsgSize >= 16
  /\ OtherSize \subseteq Nat
  /\ MaxHeld \in Nat /\ BeyondTorn \in BOOLEAN

\* A packet as a sender makes it, by the definition of the CRC.
ASSUME SentAssumption ==
  \A s \in Sent :
    LET n == Len(s) IN
    s = SubSeq(s, 1, n - 8) \o Bytes(BitwiseCrc(SubSeq(s, 1, n - 8))) \o SubSeq(s, n - 3, n)

kMsgHeader == <<91, 68, 77, 45>>
kMsgTail   == <<45, 78, 82, 93>>
HeaderSize == 4
DataPos    == 8
MinLength  == 16

Other == Thread \ Reader

VARIABLES
  stream,      \* what the peer of each reader sends
  got,         \* bytes consumed: b_r_len of all calls
  rx_len,      \* bytes of the current call still to read
  pos_, len_, remain_len_,
  header_buf_,
  p_buf_,      \* the block, or Nil
  data,        \* what p_buf_ points to
  frames,      \* ghost: offsets of the packets returned
  held         \* the blocks each other thread has

packet == <<pos_, len_, remain_len_, header_buf_, p_buf_, data>>
reader == <<stream, got, rx_len, packet, frames>>
vars   == <<debugVars, stream, got, rx_len, pos_, len_, remain_len_, header_buf_, p_buf_,
            data, frames, held>>

LeastOf(m, n) == IF m < n THEN m ELSE n

\* memcpy(&length, s, 4) on a little-endian machine.
LengthOf(s) == s[1] + 256 * s[2] + 65536 * s[3] + 16777216 * s[4]

\* IsDmPacketValid.
IsDmPacketValid(s) ==
  LET n == Len(s) IN
  /\ SubSeq(s, 1, HeaderSize) = kMsgHeader
  /\ LengthOf(SubSeq(s, 5, 8)) = n
  /\ SubSeq(s, n - 3, n) = kMsgTail
  /\ SubSeq(s, n - 7, n - 4) = Bytes(CalculateStm32Crc(SubSeq(s, 1, n - 8)))

Init ==
  /\ DebugInit
  /\ stream \in [Reader -> Stream]
  /\ got = [r \in Reader |-> 0]
  /\ rx_len = [r \in Reader |-> 0]
  /\ pos_ = [r \in Reader |-> 0]
  /\ len_ = [r \in Reader |-> 0]
  /\ remain_len_ = [r \in Reader |-> 0]
  /\ header_buf_ = [r \in Reader |-> <<>>]
  /\ p_buf_ = [r \in Reader |-> Nil]
  /\ data = [r \in Reader |-> <<>>]
  /\ frames = [r \in Reader |-> <<>>]
  /\ held = [t \in Other |-> {}]

----------------------------------------------------------------------------
(* DmPacketRead.                                                            *)

\* The reader is inside the loop, and not inside new or delete.
Looping(r) == rx_len[r] > 0 /\ ~InCall(r)

Unread(r) == Len(stream[r]) - got[r]

\* A call with the next piece of the stream.
DmPacketRead(r, nbytes) ==
  /\ rx_len[r] = 0 /\ ~InCall(r)
  /\ Unread(r) > 0
  /\ rx_len' = [rx_len EXCEPT ![r] = LeastOf(nbytes, Unread(r))]
  /\ UNCHANGED <<debugVars, stream, got, packet, frames, held>>

\* An iteration copies up to n bytes: the bytes, and how many.
Taken(r, n)   == LeastOf(n, rx_len[r])
Copied(r, n)  == SubSeq(stream[r], got[r] + 1, got[r] + Taken(r, n))
Consume(r, n) ==
  /\ got' = [got EXCEPT ![r] = @ + Taken(r, n)]
  /\ rx_len' = [rx_len EXCEPT ![r] = @ - Taken(r, n)]

\* DmPacket::Reset.
Reset(r) ==
  /\ pos_' = [pos_ EXCEPT ![r] = 0]
  /\ len_' = [len_ EXCEPT ![r] = 0]
  /\ remain_len_' = [remain_len_ EXCEPT ![r] = 0]
  /\ IF p_buf_[r] = Nil
     THEN UNCHANGED <<p_buf_, data, debugVars>>
     ELSE /\ Delete(r, p_buf_[r], TRUE)
          /\ p_buf_' = [p_buf_ EXCEPT ![r] = Nil]
          /\ data' = [data EXCEPT ![r] = <<>>]

Advance(r, n) == pos_' = [pos_ EXCEPT ![r] = @ + Taken(r, n)]

\* Mutant of HeaderWith: the bytes are copied to the beginning of header_buf_.
HeaderAtStart(r, n) == Copied(r, n)

\* header_buf_ with the bytes copied to pos_.
HeaderWith(r, n) == SubSeq(header_buf_[r], 1, pos_[r]) \o Copied(r, n)

\* Mutant of ReadHeader: a wrong header is not dropped.
AnyHeader(r) ==
  /\ Looping(r)
  /\ pos_[r] < HeaderSize
  /\ header_buf_' = [header_buf_ EXCEPT ![r] = HeaderWith(r, HeaderSize - pos_[r])]
  /\ Consume(r, HeaderSize - pos_[r])
  /\ Advance(r, HeaderSize - pos_[r])
  /\ UNCHANGED <<len_, remain_len_, p_buf_, data, debugVars, stream, frames, held>>

\* The header, dropped as a whole when it is wrong.
ReadHeader(r) ==
  /\ Looping(r)
  /\ pos_[r] < HeaderSize
  /\ LET n == HeaderSize - pos_[r]
         h == HeaderWith(r, n) IN
       /\ header_buf_' = [header_buf_ EXCEPT ![r] = h]
       /\ Consume(r, n)
       /\ IF Len(h) = HeaderSize /\ h # kMsgHeader
          THEN Reset(r)
          ELSE Advance(r, n) /\ UNCHANGED <<len_, remain_len_, p_buf_, data, debugVars>>
  /\ UNCHANGED <<stream, frames, held>>

\* Mutant of LengthAllowed: the header, CRC and tail are not counted.
AnyLength(n) == n < MaxOfMsgSize

LengthAllowed(n) == n >= MinLength /\ n < MaxOfMsgSize

\* The length: when it is complete, a buffer is allocated, or all is dropped.
ReadLength(r) ==
  /\ Looping(r)
  /\ pos_[r] >= HeaderSize /\ pos_[r] < DataPos
  /\ LET n == DataPos - pos_[r]
         h == HeaderWith(r, n) IN
       /\ header_buf_' = [header_buf_ EXCEPT ![r] = h]
       /\ Consume(r, n)
       /\ \/ /\ Len(h) < DataPos
             /\ Advance(r, n)
             /\ UNCHANGED <<len_, remain_len_, p_buf_, data, debugVars>>
          \/ /\ Len(h) = DataPos
             /\ ~LengthAllowed(LengthOf(SubSeq(h, 5, 8)))
             /\ Reset(r)
          \/ /\ Len(h) = DataPos
             /\ LET msg_len == LengthOf(SubSeq(h, 5, 8)) IN
                /\ LengthAllowed(msg_len)
                /\ \E b \in Block :
                     /\ New(r, b, msg_len, TRUE)
                     /\ p_buf_' = [p_buf_ EXCEPT ![r] = b]
                /\ len_' = [len_ EXCEPT ![r] = msg_len]
                /\ remain_len_' = [remain_len_ EXCEPT ![r] = msg_len - DataPos]
             /\ data' = [data EXCEPT ![r] = h]
             /\ Advance(r, n)
  /\ UNCHANGED <<stream, frames, held>>

\* The data, into p_buf_ at pos_.
DataWith(r) == SubSeq(data[r], 1, pos_[r]) \o Copied(r, remain_len_[r])

ReadDataPart(r) ==
  /\ Looping(r)
  /\ pos_[r] >= DataPos /\ remain_len_[r] > rx_len[r]
  /\ data' = [data EXCEPT ![r] = DataWith(r)]
  /\ Consume(r, remain_len_[r])
  /\ Advance(r, remain_len_[r])
  /\ remain_len_' = [remain_len_ EXCEPT ![r] = @ - rx_len[r]]
  /\ UNCHANGED <<len_, header_buf_, p_buf_, debugVars, stream, frames, held>>

\* The last of it: a valid packet is returned, with the rest of the bytes not
\* looked at and the packet left as it is ...
ReturnPacket(r) ==
  /\ Looping(r)
  /\ pos_[r] >= DataPos /\ remain_len_[r] \in 1..rx_len[r]
  /\ IsDmPacketValid(DataWith(r))
  /\ data' = [data EXCEPT ![r] = DataWith(r)]
  /\ got' = [got EXCEPT ![r] = @ + remain_len_[r]]
  /\ rx_len' = [rx_len EXCEPT ![r] = 0]
  /\ Advance(r, remain_len_[r])
  /\ remain_len_' = [remain_len_ EXCEPT ![r] = 0]
  /\ frames' = [frames EXCEPT ![r] = Append(@, got[r] - pos_[r])]
  /\ UNCHANGED <<len_, header_buf_, p_buf_, debugVars, stream, held>>

\* Mutant of DropPacket: an invalid packet is left in the buffer, whose
\* pointer is forgotten.
DropLeaks(r) ==
  /\ Looping(r)
  /\ pos_[r] >= DataPos /\ remain_len_[r] \in 1..rx_len[r]
  /\ ~IsDmPacketValid(DataWith(r))
  /\ Consume(r, remain_len_[r])
  /\ pos_' = [pos_ EXCEPT ![r] = 0]
  /\ remain_len_' = [remain_len_ EXCEPT ![r] = 0]
  /\ p_buf_' = [p_buf_ EXCEPT ![r] = Nil]
  /\ UNCHANGED <<len_, data, header_buf_, debugVars, stream, frames, held>>

\* ... an invalid one is dropped.
DropPacket(r) ==
  /\ Looping(r)
  /\ pos_[r] >= DataPos /\ remain_len_[r] \in 1..rx_len[r]
  /\ ~IsDmPacketValid(DataWith(r))
  /\ Consume(r, remain_len_[r])
  /\ Reset(r)
  /\ UNCHANGED <<header_buf_, stream, frames, held>>

\* Mutant of ReadNext: the buffer is freed, and pos_ stays behind it.
ReadNextKeepsPos(r) ==
  /\ Looping(r)
  /\ pos_[r] >= DataPos /\ remain_len_[r] = 0 /\ p_buf_[r] # Nil
  /\ Delete(r, p_buf_[r], TRUE)
  /\ p_buf_' = [p_buf_ EXCEPT ![r] = Nil]
  /\ UNCHANGED <<pos_, len_, remain_len_, data, header_buf_, stream, got, rx_len, frames, held>>

\* The packet returned by an earlier call is still there: it is dropped, and
\* len being 0 nothing is consumed.
ReadNext(r) ==
  /\ Looping(r)
  /\ pos_[r] >= DataPos /\ remain_len_[r] = 0
  /\ Reset(r)
  /\ UNCHANGED <<header_buf_, stream, got, rx_len, frames, held>>

\* The caller may Reset the packet itself when it has dealt with one that was
\* returned.  A Reset in the middle of one, which nothing in the repository
\* does, is not modelled.
CallerResets(r) ==
  /\ rx_len[r] = 0 /\ ~InCall(r)
  /\ pos_[r] >= DataPos /\ remain_len_[r] = 0
  /\ Reset(r)
  /\ UNCHANGED <<header_buf_, stream, got, rx_len, frames, held>>

----------------------------------------------------------------------------
(* Other threads allocate and free objects of their own.                    *)

OtherNew(t, b, n) ==
  /\ Cardinality(held[t]) < MaxHeld
  /\ New(t, b, n, FALSE)
  /\ held' = [held EXCEPT ![t] = @ \cup {b}]
  /\ UNCHANGED reader

OtherDelete(t, b) ==
  /\ b \in held[t]
  /\ Delete(t, b, FALSE)
  /\ held' = [held EXCEPT ![t] = @ \ {b}]
  /\ UNCHANGED reader

\* The leak report comes at the program's exit, when the servers have been
\* stopped.
AtExit ==
  /\ \A r \in Reader : Unread(r) = 0 /\ ~Looping(r)
  /\ CheckLeaks
  /\ UNCHANGED <<reader, held>>

ReaderStep(r) ==
  \/ ReadHeader(r) \/ ReadLength(r) \/ ReadDataPart(r) \/ ReturnPacket(r) \/ DropPacket(r)
  \/ ReadNext(r)

AllocatorStep(t) == CallStep(t) /\ UNCHANGED <<reader, held>>

\* Bound: a run need not be followed beyond a lost update of total_mem_alloc,
\* which nothing but its own updates reads.
Next ==
  /\ torn => BeyondTorn
  /\ \/ \E r \in Reader : ReaderStep(r) \/ CallerResets(r)
     \/ \E r \in Reader, n \in ReadSize : DmPacketRead(r, n)
     \/ \E t \in Other, b \in Block :
          OtherDelete(t, b) \/ \E n \in OtherSize : OtherNew(t, b, n)
     \/ \E t \in Thread : AllocatorStep(t)
     \/ AtExit

Spec == Init /\ [][Next]_vars
----------------------------------------------------------------------------
(* Properties.                                                              *)

\* Every variable keeps its type; a packet is never longer than its buffer.
TypeOK ==
  /\ DebugTypeOK
  /\ stream \in [Reader -> Stream]
  /\ \A r \in Reader :
       /\ got[r] + rx_len[r] \in 0..Len(stream[r])
       /\ pos_[r] + remain_len_[r] \in 0..MaxOfMsgSize
       /\ len_[r] \in {0} \cup MinLength..MaxOfMsgSize - 1
       /\ p_buf_[r] # Nil => pos_[r] + remain_len_[r] = size[p_buf_[r]]
       /\ Len(header_buf_[r]) =< DataPos
       /\ p_buf_[r] \in Block \cup {Nil}
       /\ Len(data[r]) =< MaxOfMsgSize
       /\ Len(frames[r]) =< Len(stream[r])
  /\ held \in [Other -> SUBSET Block]

\* What one pass over the first n bytes of s, all at once, finds from offset i
\* on: a header and a length allowed start a packet, and anything else is
\* skipped; a packet counts if it is good.
PacketsIn(Good(_), s, n) ==
  LET Allowed(i) == LengthAllowed(LengthOf(SubSeq(s, i + 5, i + 8)))
      End(i)     == i + LengthOf(SubSeq(s, i + 5, i + 8))
      from[i \in 0..n] ==
        IF i + HeaderSize > n THEN <<>>
        ELSE IF SubSeq(s, i + 1, i + HeaderSize) # kMsgHeader THEN from[i + HeaderSize]
        ELSE IF i + DataPos > n THEN <<>>
        ELSE IF ~Allowed(i) THEN from[i + DataPos]
        ELSE IF End(i) > n THEN <<>>
        ELSE (IF Good(SubSeq(s, i + 1, End(i))) THEN <<i>> ELSE <<>>) \o from[End(i)]
  IN from[0]

\* However the stream is cut into reads, and whether the caller resets the
\* packet or not, the packets returned are the valid ones of the uncut
\* stream: none is lost, found twice, or put together from two.
CutsDoNotMatter == \A r \in Reader : frames[r] = PacketsIn(IsDmPacketValid, stream[r], got[r])

\* They are the intact ones: the check of a packet accepts what a sender made,
\* and nothing else of what the streams hold.
SamePackets ==
  \A r \in Reader : frames[r] = PacketsIn(LAMBDA p : p \in Sent, stream[r], got[r])

\* The CRC of each packet collected, intact or damaged, is what polynomial
\* division gives: bytes are taken in the order of the hardware's words, and
\* none is left out or misplaced when the length is not a multiple of four.
\* It does not depend on the other threads, so states in which they have
\* blocks are left out.
CrcIsRemainder ==
  \A r \in Reader :
    used = {p_buf_[r]} /\ remain_len_[r] \in 1..rx_len[r] =>
      LET s == DataWith(r)
          n == Len(s) IN
      CalculateStm32Crc(SubSeq(s, 1, n - 8)) = BitwiseCrc(SubSeq(s, 1, n - 8))

\* Each block given out belongs to one owner: the packet that is being read,
\* another thread, or a call of new or delete under way.  Nothing leaks when
\* a packet is dropped, and nothing is freed twice or by the wrong operator.
Owners ==
  {p_buf_[r] : r \in Reader} \cup (UNION {held[t] : t \in Other}) \cup {dptr[t] : t \in Thread}

BuffersOwned ==
  /\ used = Owners \ {Nil}
  /\ \A r \in Reader : p_buf_[r] # Nil <=> pos_[r] >= DataPos
  /\ \A r1, r2 \in Reader : p_buf_[r1] = p_buf_[r2] => r1 = r2 \/ p_buf_[r1] = Nil
  /\ ~aborted

\* The loop of DmPacketRead ends: each iteration consumes a byte, or consumes
\* none and leaves a packet of which the next one does.
Measure(r) == 2 * Unread(r) + (IF pos_[r] >= DataPos THEN 1 ELSE 0)
PacketOf(r) == <<pos_[r], len_[r], remain_len_[r], header_buf_[r], p_buf_[r], data[r], got[r]>>
Iterates(r) == Looping(r) /\ PacketOf(r)' # PacketOf(r)

IterationsAdvance == [][\A r \in Reader : Iterates(r) => Measure(r)' < Measure(r)]_vars
=============================================================================
