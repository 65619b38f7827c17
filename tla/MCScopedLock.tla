---------------------------- MODULE MCScopedLock ----------------------------
EXTENDS ScopedLock
CONSTANTS t1, t2, t3
MCThreads == {t1, t2, t3}
MCMaxRelocks == 2
=============================================================================
