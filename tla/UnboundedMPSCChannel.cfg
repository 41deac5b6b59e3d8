CONSTANTS
  Senders = {s1, s2, s3}
  First = s1
  MaxSends = 2
SPECIFICATION ChannelFairSpec
INVARIANTS SleepsOnNothing
PROPERTIES ChannelIsFifo EndIsSeen SentIsReceived
CHECK_DEADLOCK FALSE
