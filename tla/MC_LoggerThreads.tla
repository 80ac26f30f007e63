-------------------------- MODULE MC_LoggerThreads --------------------------
(***************************************************************************)
(* Instances of LoggerThreads: two threads that call the library, and, for *)
(* the signal handler, a third one hosted by the first.                    *)
(***************************************************************************)
EXTENDS LoggerThreads

CONSTANTS t1, t2, handler

NoHost      == [h \in {} |-> t1]
HostIsFirst == [h \in {handler} |-> t1]

=============================================================================
