-------------------------- MODULE MCTcpConnection --------------------------
EXTENDS TcpConnection, TLC

CONSTANTS c, f, null

MCChannels == {c}
MCFds == {f}
MCFd == c :> f
=============================================================================
