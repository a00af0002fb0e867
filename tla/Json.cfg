CONSTANTS IntBits = 29
LongBits = 30
SignificandDigits = 4
FastLimit = 100000
HugeDouble = 100000
MaxExponent = 12
HugeExponent = 100
Alignment = 8
ChunkCapacity = 256
Indent = 1
BufferCapacity = 4
ValueBytes = 16
ShortMax = 2
StackValues = 2
LengthBlock = 7
Jobs <- JobsUsed
SPECIFICATION JsonSpec
INVARIANTS ParsersAgree NumbersAreExact EncodingsReadBack AcceptsAsDefined ReceivedAsSent WrittenIsReserved BlocksDisjoint EqualMeansContent
PROPERTY EditsKeepMembers
CHECK_DEADLOCK FALSE
