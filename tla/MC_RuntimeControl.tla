------------------------- MODULE MC_RuntimeControl -------------------------
(***************************************************************************)
(* Instances of RuntimeControl: processes that follow one another on a     *)
(* small set of process ids.                                               *)
(***************************************************************************)
EXTENDS RuntimeControl, TLC

CONSTANTS p1, p2, p3

Interchangeable == Permutations(Process)

(* initialised is a history: written by some steps and read by none. *)
BarHistory == << status, pid, progname, isLogInited, g_dl_socket,
                 g_dl_socket_pid, level, rebinding, path, queue, made, ctl >>

=============================================================================
