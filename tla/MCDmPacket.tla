----------------------------- MODULE MCDmPacket -----------------------------
(* DmPacket for TLC: the streams its readers are sent. *)
EXTENDS DmPacket

\* Each entry of the code's table is the remainder of its byte.
ASSUME TableAssumption ==
  \A b \in Byte : crc32_table[b] = DivideByte[<<0, 0, 0, 0>>, b]

\* Packets as a sender makes them: without data, with one to three bytes, and
\* with a header for data.
Empty == <<91, 68, 77, 45, 16, 0, 0, 0, 31, 142, 183, 173, 45, 78, 82, 93>>
One   == <<91, 68, 77, 45, 17, 0, 0, 0, 7, 248, 28, 185, 20, 45, 78, 82, 93>>
Two   == <<91, 68, 77, 45, 18, 0, 0, 0, 7, 8, 61, 247, 230, 69, 45, 78, 82, 93>>
Short == <<91, 68, 77, 45, 19, 0, 0, 0, 7, 8, 9, 15, 88, 246, 3, 45, 78, 82, 93>>
Inner == <<91, 68, 77, 45, 20, 0, 0, 0, 91, 68, 77, 45,
           90, 214, 118, 249, 45, 78, 82, 93>>

\* One with a byte changed.
Damaged(s, i) == [s EXCEPT ![i] = (@ + 1) % 256]

\* What may come before a good packet: another one; one with a byte of the
\* header, the length, the data or the tail damaged, the first of which puts
\* the next packet out of step; one with a length too small; one cut off.
\* The lengths without CRC and tail leave each remainder by four.
First ==
  {Inner, Damaged(Short, 2), Damaged(Short, 7), Damaged(One, 9), Damaged(Two, 18),
   [Short EXCEPT ![5] = 15], SubSeq(Short, 1, 10)}

mc_Stream == {s \o Empty : s \in First}
mc_Sent     == {Empty, One, Two, Short, Inner}
mc_ReadSize == {1, 21}

Symmetry == Permutations(Block)
=============================================================================
