---------------------------- MODULE MCTcpServer ----------------------------
EXTENDS TcpServer
CONSTANTS a1, a2
MCAddrs == {a1, a2}
MCBadAddrs == {a2}
MCMaxSocks == 2
MCMaxClients == 2
MCMaxCalls == 4
=============================================================================
