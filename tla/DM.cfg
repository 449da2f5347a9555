CONSTANTS
  Thread = {r1, o1}
  Reader = {r1}
  Block = {b1, b2, b3}
  new_ptr_list = new_ptr_list
  Nil = Nil
  TotalRange = 64
  Stream <- mc_Stream
  Sent <- mc_Sent
  ReadSize <- mc_ReadSize
  MaxOfMsgSize = 32
  OtherSize = {5}
  MaxHeld = 2
  BeyondTorn = FALSE
SYMMETRY Symmetry
SPECIFICATION Spec
INVARIANT TypeOK
INVARIANT CutsDoNotMatter
INVARIANT SamePackets
INVARIANT CrcIsRemainder
INVARIANT BuffersOwned
INVARIANT LinksAgree
INVARIANT TotalTracks
PROPERTY ListIsBlocks
PROPERTY IterationsAdvance
CHECK_DEADLOCK FALSE
