----------------------------- MODULE RemoteLevels -----------------------------
(***************************************************************************)
(* What changing a level from outside promises (docs/README.md:54): every  *)
(* running process has a mailbox of its own.  A request put there is taken *)
(* out once, in order, by that process and no other, and sets its level; a *)
(* mailbox is emptied otherwise only when its owner gives it up.  A new    *)
(* process starts with an empty one.  RuntimeControl implements this with  *)
(* sockets, paths and descriptors that survive fork and exit.              *)
(***************************************************************************)
EXTENDS Sequences

CONSTANTS Process, Level, FirstLevel

VARIABLES status, level, mailbox

vars == << status, level, mailbox >>

Put(f, p, v) == [f EXCEPT ![p] = v]

Start(p) ==
  /\ status[p] = "unborn" /\ status' = Put(status, p, "running")
  /\ \E l \in {FirstLevel} \cup { level[q] : q \in Process } : level' = Put(level, p, l)
  /\ mailbox[p] = << >> /\ UNCHANGED mailbox

Request(p, l) ==
  /\ status[p] = "running"
  /\ mailbox' = Put(mailbox, p, Append(mailbox[p], l))
  /\ UNCHANGED << status, level >>

Apply(p) ==
  /\ status[p] = "running" /\ mailbox[p] # << >>
  /\ level' = Put(level, p, Head(mailbox[p]))
  /\ mailbox' = Put(mailbox, p, Tail(mailbox[p]))
  /\ UNCHANGED status

Set(p, l) ==
  /\ status[p] = "running"
  /\ level' = Put(level, p, l)
  /\ UNCHANGED << status, mailbox >>

GiveUp(p) ==
  /\ status[p] = "running"
  /\ status' \in { status, Put(status, p, "exited") }
  /\ mailbox' = Put(mailbox, p, << >>)
  /\ UNCHANGED level

Init ==
  /\ status = [p \in Process |-> "unborn"]
  /\ level = [p \in Process |-> FirstLevel]
  /\ mailbox = [p \in Process |-> << >>]

Next ==
  \E p \in Process :
    \/ Start(p) \/ Apply(p) \/ GiveUp(p)
    \/ \E l \in Level : Request(p, l) \/ Set(p, l)

Spec == Init /\ [][Next]_vars

=============================================================================
