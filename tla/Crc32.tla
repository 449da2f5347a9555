------------------------------- MODULE Crc32 -------------------------------
(***************************************************************************)
(* get_stm32_crc of common_funcs.cpp: the CRC a DmPacket carries, computed  *)
(* by table, a word of four bytes at a time, from the last byte of the word *)
(* to its first; a last word that is not full is filled with zeros.         *)
(* BitwiseCrc is the definition it is meant to compute: polynomial division *)
(* bit by bit.                                                              *)
(*                                                                          *)
(* A word is its four bytes, the highest first.                             *)
(***************************************************************************)
EXTENDS Naturals, Sequences, SequencesExt

Byte == 0..255
Word == Byte \X Byte \X Byte \X Byte

\* Exclusive or, from that of half bytes.
XorHalf ==
  [x, y \in 0..15 |->
    LET bit(k) == ((x \div k) + (y \div k)) % 2 IN bit(1) + 2*bit(2) + 4*bit(4) + 8*bit(8)]
XorByte(x, y) == 16 * XorHalf[x \div 16, y \div 16] + XorHalf[x % 16, y % 16]
Xor(v, w) ==
  <<XorByte(v[1], w[1]), XorByte(v[2], w[2]), XorByte(v[3], w[3]), XorByte(v[4], w[4])>>

AllOnes    == <<255, 255, 255, 255>>
POLYNOMIAL == <<4, 193, 29, 183>>

\* The bytes of a word in memory.
Bytes(w) == Reverse(w)

----------------------------------------------------------------------------
(* The reference: one bit at a time, the highest first.                     *)

ShiftBit(w) ==
  <<(2*w[1] + w[2] \div 128) % 256, (2*w[2] + w[3] \div 128) % 256,
    (2*w[3] + w[4] \div 128) % 256, (2*w[4]) % 256>>

DivideBit[w \in Word] ==
  IF w[1] >= 128 THEN Xor(ShiftBit(w), POLYNOMIAL) ELSE ShiftBit(w)

DivideByte[w \in Word, byte \in Byte] ==
  LET after[k \in 0..8] ==
        IF k = 0 THEN Xor(w, <<byte, 0, 0, 0>>) ELSE DivideBit[after[k - 1]]
  IN after[8]

\* s is filled up with zeros to full words, each of them swapped.
BitwiseCrc(s) ==
  LET padded == s \o [i \in 1..((4 - (Len(s) % 4)) % 4) |-> 0]
      after[n \in 0..Len(padded)] ==
        IF n = 0 THEN AllOnes
        ELSE DivideByte[after[n - 1], padded[4 * ((n - 1) \div 4) + 4 - ((n - 1) % 4)]]
  IN after[Len(padded)]

----------------------------------------------------------------------------
(* The code.                                                                *)

\* The upper and lower halves of the table's entries.
Halves == <<
  <<0, 0>>, <<1217, 7607>>, <<2434, 15214>>, <<3395, 9945>>, <<4868, 30428>>, <<6085, 27499>>,
  <<6790, 19890>>, <<7751, 20485>>, <<9736, 60856>>, <<8905, 61455>>, <<12170, 54998>>, <<11083, 52065>>,
  <<13580, 39780>>, <<12749, 34515>>, <<15502, 40970>>, <<14415, 48573>>, <<19473, 56176>>, <<18640, 50887>>,
  <<17811, 57374>>, <<16722, 64937>>, <<24341, 44460>>, <<23508, 45083>>, <<22167, 38594>>, <<21078, 35701>>,
  <<27161, 14024>>, <<28376, 11135>>, <<25499, 3494>>, <<26458, 4113>>, <<31005, 16404>>, <<32220, 23971>>,
  <<28831, 31610>>, <<29790, 26317>>, <<38947, 46816>>, <<40162, 43863>>, <<37281, 36238>>, <<38240, 36921>>,
  <<35623, 49212>>, <<36838, 56715>>, <<33445, 64338>>, <<34404, 59109>>, <<48683, 23384>>, <<47850, 18159>>,
  <<47017, 24630>>, <<45928, 32129>>, <<44335, 11652>>, <<43502, 12339>>, <<42157, 5866>>, <<41068, 2909>>,
  <<54322, 28048>>, <<53491, 28711>>, <<56752, 22270>>, <<55665, 19273>>, <<50998, 6988>>, <<50167, 1787>>,
  <<52916, 8226>>, <<51829, 15765>>, <<62010, 32808>>, <<63227, 40351>>, <<64440, 47942>>, <<65401, 42737>>,
  <<57662, 63220>>, <<58879, 60227>>, <<59580, 52634>>, <<60541, 53293>>, <<13446, 28791>>, <<12359, 28096>>,
  <<15620, 19225>>, <<14789, 22190>>, <<10114, 1707>>, <<9027, 6940>>, <<11776, 15813>>, <<10945, 8306>>,
  <<4750, 40399>>, <<5711, 32888>>, <<6924, 42657>>, <<8141, 47894>>, <<394, 60179>>, <<1355, 63140>>,
  <<2056, 53373>>, <<3273, 52682>>, <<30871, 43783>>, <<31830, 46768>>, <<28949, 36969>>, <<30164, 36318>>,
  <<27539, 56795>>, <<28498, 49260>>, <<25105, 59061>>, <<26320, 64258>>, <<24223, 18111>>, <<23134, 23304>>,
  <<22301, 32209>>, <<21468, 24678>>, <<19867, 12387>>, <<18778, 11732>>, <<17433, 2829>>, <<16600, 5818>>,
  <<44197, 50839>>, <<43108, 56096>>, <<42279, 65017>>, <<41446, 57422>>, <<49057, 45131>>, <<47968, 44540>>,
  <<46627, 35621>>, <<45794, 38546>>, <<35501, 11055>>, <<36460, 13976>>, <<33583, 4161>>, <<34798, 3574>>,
  <<39337, 24051>>, <<40296, 16452>>, <<36907, 26269>>, <<38122, 31530>>, <<57524, 7655>>, <<58485, 80>>,
  <<59702, 9865>>, <<60919, 15166>>, <<62384, 27451>>, <<63345, 30348>>, <<64050, 20565>>, <<65267, 19938>>,
  <<50876, 61535>>, <<49789, 60904>>, <<53054, 52017>>, <<52223, 54918>>, <<54712, 34435>>, <<53625, 39732>>,
  <<56378, 48621>>, <<55547, 41050>>, <<26892, 57582>>, <<28109, 64857>>, <<24718, 56192>>, <<25679, 50743>>,
  <<31240, 38450>>, <<32457, 35717>>, <<29578, 44380>>, <<30539, 45291>>, <<20228, 3414>>, <<19397, 4321>>,
  <<18054, 13880>>, <<16967, 11151>>, <<23552, 31626>>, <<22721, 26173>>, <<21890, 16612>>, <<20803, 23891>>,
  <<9501, 15262>>, <<8668, 9769>>, <<11423, 240>>, <<10334, 7495>>, <<13849, 19778>>, <<13016, 20725>>,
  <<16283, 30252>>, <<15194, 27547>>, <<789, 54822>>, <<2004, 52113>>, <<2711, 60744>>, <<3670, 61695>>,
  <<4113, 41210>>, <<5328, 48461>>, <<6547, 39828>>, <<7506, 34339>>, <<61743, 22030>>, <<62958, 19385>>,
  <<63661, 28000>>, <<64620, 28887>>, <<57899, 8402>>, <<59114, 15717>>, <<60329, 7100>>, <<61288, 1547>>,
  <<55079, 48054>>, <<54246, 42497>>, <<56997, 32984>>, <<55908, 40303>>, <<50211, 52586>>, <<49378, 53469>>,
  <<52641, 62980>>, <<51552, 60339>>, <<48446, 36222>>, <<47615, 37065>>, <<46268, 46608>>, <<45181, 43943>>,
  <<44602, 64418>>, <<43771, 58901>>, <<42936, 49356>>, <<41849, 56699>>, <<39734, 24774>>, <<40951, 32113>>,
  <<37556, 23464>>, <<38517, 17951>>, <<34866, 5658>>, <<36083, 2989>>, <<33200, 11636>>, <<34161, 12483>>,
  <<23946, 37017>>, <<22859, 36142>>, <<21512, 44023>>, <<20681, 46656>>, <<20110, 58949>>, <<19023, 64498>>,
  <<18188, 56619>>, <<17357, 49308>>, <<31618, 32033>>, <<32579, 24726>>, <<29184, 17999>>, <<30401, 23544>>,
  <<26758, 3069>>, <<27719, 5706>>, <<24836, 12435>>, <<26053, 11556>>, <<4507, 19433>>, <<5466, 22110>>,
  <<6169, 28807>>, <<7384, 27952>>, <<671, 15669>>, <<1630, 8322>>, <<2845, 1627>>, <<4060, 7148>>,
  <<14227, 42577>>, <<13138, 48102>>, <<15889, 40255>>, <<15056, 32904>>, <<9367, 53389>>, <<8278, 52538>>,
  <<11541, 60387>>, <<10708, 63060>>, <<50601, 9849>>, <<49512, 15310>>, <<52267, 7447>>, <<51434, 160>>,
  <<54957, 20645>>, <<53868, 19730>>, <<57135, 27595>>, <<56302, 30332>>, <<58273, 52161>>, <<59232, 54902>>,
  <<59939, 61615>>, <<61154, 60696>>, <<61605, 48413>>, <<62564, 41130>>, <<63783, 34419>>, <<64998, 39876>>,
  <<35256, 64777>>, <<36217, 57534>>, <<32826, 50791>>, <<34043, 56272>>, <<39612, 35797>>, <<40573, 38498>>,
  <<37694, 45243>>, <<38911, 44300>>, <<44976, 4273>>, <<43889, 3334>>, <<42546, 11231>>, <<41715, 13928>>,
  <<48308, 26221>>, <<47221, 31706>>, <<46390, 23811>>, <<45559, 16564>> >>

Entry(n) ==
  <<Halves[n][1] \div 256, Halves[n][1] % 256, Halves[n][2] \div 256, Halves[n][2] % 256>>


crc32_table == [b \in Byte |-> Entry(b + 1)]

\* One byte: crc = crc32_table[(crc >> 24) ^ byte] ^ (crc << 8).
CrcByte[crc \in Word, byte \in Byte] ==
  Xor(crc32_table[XorByte(crc[1], byte)], <<crc[2], crc[3], crc[4], 0>>)

\* Mutant of WordAt: the bytes of a last word that is not full are taken in
\* the order of memory.
WordUnswapped(s, p) ==
  [k \in 1..4 |-> IF p + 4 > Len(s)
                  THEN (IF p + k =< Len(s) THEN s[p + k] ELSE 0)
                  ELSE s[p + 5 - k]]

\* The word at p, from p[3] to p[0].
WordAt(s, p) == [k \in 1..4 |-> IF p + 4 - k < Len(s) THEN s[p + 5 - k] ELSE 0]

\* Mutant of CrcOrder: bytes after the last full word are left out.
RemainderLost(s) == FlattenSeq([n \in 1..(Len(s) \div 4) |-> WordAt(s, 4 * (n - 1))])

\* The bytes in the order the loop and its remainder take them.
CrcOrder(s) == FlattenSeq([n \in 1..((Len(s) + 3) \div 4) |-> WordAt(s, 4 * (n - 1))])

get_stm32_crc(crc, s) ==
  LET order == CrcOrder(s)
      after[n \in 0..Len(order)] ==
        IF n = 0 THEN crc ELSE CrcByte[after[n - 1], order[n]]
  IN after[Len(order)]

CalculateStm32Crc(s) == get_stm32_crc(AllOnes, s)
=============================================================================
