\* Three messages: one under way while another is cut by the end of a segment.
CONSTANTS
  Base = 5
  LBrace = 4
  NL = 2
  CR = 3
  Lines <- MCLines
  Frames <- MCFrames
  MaxMessages = 3
SPECIFICATION FairSpec
INVARIANTS InSync AcceptedIsCanonical
PROPERTIES EveryMessageHandled
