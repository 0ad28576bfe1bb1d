--------------------------- MODULE MCStreamPubSub ---------------------------
\* TLC instances of StreamPubSub: two subscriptions, one of them to a channel
\* whose name is a prefix of the other's.
EXTENDS StreamPubSub, TLC

CONSTANTS s1, s2, short, long

MCSubscriptions == {s1, s2}
MCChannels == {short, long}
MCChannelOf == (s1 :> short) @@ (s2 :> long)
MCLikeMatches == (short :> {short, long}) @@ (long :> {long})
OneSubscription == {s1}
OneChannelOf == (s1 :> short)
=============================================================================
