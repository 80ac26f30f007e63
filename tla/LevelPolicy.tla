----------------------------- MODULE LevelPolicy -----------------------------
(***************************************************************************)
(* What the library promises about levels (README.md:18, docs/README.md:32 *)
(* and 415-416): every module has one level, the one debug.ini gives it or *)
(* else the level of LOG.RDK.DEFAULT; a call can change it; a message is   *)
(* let through if its level is not beyond it, and asking gives that same   *)
(* answer.  LevelControl implements this where it is used as documented.   *)
(***************************************************************************)
EXTENDS LogLevels, Sequences

CONSTANTS Modules, DefaultCategory, Files, RuntimeLevels, MessageLevels

VARIABLES level, configured, answer

vars == << level, configured, answer >>

Passes(threshold, l) == threshold # NONE /\ l <= threshold

(* The level a setting of the file stands for. *)
Meant(value) == IF value \in MessageLevel THEN value ELSE NONE

LastOf(indices) == CHOOSE i \in indices : \A j \in indices : j <= i

(* LOG.RDK.DEFAULT: its last line with a level in it, or log4crc's WARN. *)
DefaultOf(f) ==
  LET at == { i \in 1 .. Len(f) : f[i].name = DefaultCategory
                                  /\ f[i].value # Unrecognised }
  IN  IF at = {} THEN WARN ELSE Meant(f[LastOf(at)].value)

(* A module: the last line that names it, or the default. *)
LevelOf(f, m) ==
  LET at == { i \in 1 .. Len(f) : f[i].name = m }
  IN  IF at = {} THEN DefaultOf(f) ELSE Meant(f[LastOf(at)].value)

Answers(call, m, l, result) ==
  answer' = [call |-> call, module |-> m, level |-> l, result |-> result]

Configure ==
  /\ ~ configured /\ configured' = TRUE
  /\ \E f \in Files : level' = [m \in Modules |-> LevelOf(f, m)]
  /\ UNCHANGED answer

Ask(call, m, l) ==
  /\ configured
  /\ Answers(call, m, l, l # NONE /\ Passes(level[m], l))
  /\ UNCHANGED << level, configured >>

Report(m) ==
  /\ configured
  /\ Answers("get", m, level[m], TRUE)
  /\ UNCHANGED << level, configured >>

Change(call, m, l) ==
  /\ configured
  /\ level' = [level EXCEPT ![m] = l]
  /\ Answers(call, m, l, TRUE)
  /\ UNCHANGED configured

Refuse(m, l) ==
  /\ configured
  /\ Answers("ext_init", m, l, FALSE)
  /\ UNCHANGED << level, configured >>

Init ==
  /\ level = [m \in Modules |-> WARN]
  /\ configured = FALSE
  /\ answer.call = "none"

Next ==
  \/ Configure
  \/ \E call \in {"log", "enabled"}, m \in Modules, l \in MessageLevels :
       Ask(call, m, l)
  \/ \E m \in Modules : Report(m)
  \/ \E call \in {"set", "enable", "ext_init"}, m \in Modules,
        l \in RuntimeLevels : Change(call, m, l)
  \/ \E m \in Modules, l \in RuntimeLevels : Refuse(m, l)

Spec == Init /\ [][Next]_vars

=============================================================================
