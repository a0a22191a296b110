--------------------------- MODULE MCChannelLoop ---------------------------
EXTENDS ChannelLoop, TLC

CONSTANTS c1, c2, c3, f1, f2, null

\* Two descriptors; c3 is the channel of a later file that got f1 again.
MCChannels == {c1, c2, c3}
MCFds == {f1, f2}
MCFd == (c1 :> f1) @@ (c2 :> f2) @@ (c3 :> f1)

=============================================================================
