CONSTANTS
  s1 = s1
  s2 = s2
  short = short
  long = long
  Subscriptions <- MCSubscriptions
  Channels <- MCChannels
  ChannelOf <- MCChannelOf
  LikeMatches <- MCLikeMatches
  Limit = 1
  MaxId = 2
SPECIFICATION FairSpec
CHECK_DEADLOCK FALSE
INVARIANTS
  OnlyOvertakenRowsAreLost
PROPERTIES
  ImplementsOrderedFeed
  NewRowsAreHandedOut
  CancelledLoopsEnd
