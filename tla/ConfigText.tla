------------------------------ MODULE ConfigText ------------------------------
(***************************************************************************)
(* The text of debug.ini, from characters to the settings LevelControl     *)
(* works on (rdk_logger_parse_config and trim in rdk_debug_priv.c), and    *)
(* the words for levels (rdk_logger_level_from_string in rdk_debug.c).     *)
(* A text is a sequence of characters.                                     *)
(***************************************************************************)
EXTENDS LogLevels, Sequences

CONSTANTS
  Char,      (* the characters of a file                                     *)
  LineBuf    (* line_buf_len, 256 in the code                                *)

ASSUME LineBufAssumption == LineBuf \in Nat /\ LineBuf > 1

Blank == {" ", "\t", "\n"}

Least(s)    == CHOOSE i \in s : \A j \in s : i <= j
Greatest(s) == CHOOSE i \in s : \A j \in s : i >= j

-----------------------------------------------------------------------------
(* fgets: up to and including the first newline, LineBuf - 1 characters at   *)
(* most.                                                                     *)
FgetsLength(text) ==
  Least({Len(text), LineBuf - 1} \cup { i \in 1 .. Len(text) : text[i] = "\n" })

Trim(instr) ==
  LET solid == { i \in 1 .. Len(instr) : instr[i] \notin Blank }
  IN  IF solid = {} THEN << >> ELSE SubSeq(instr, Least(solid), Greatest(solid))

Equals(line) == { i \in 1 .. Len(line) : line[i] = "=" }

(* What one turn of the loop takes from the buffer. *)
ParseLineAtLastEquals(line) ==  \* slip: strrchr for strchr
  IF line[1] = "#" \/ Equals(line) = {} THEN << >>
  ELSE LET eq == Greatest(Equals(line))
       IN  << [name  |-> Trim(SubSeq(line, 1, eq - 1)),
               value |-> Trim(SubSeq(line, eq + 1, Len(line)))] >>

ParseLine(line) ==
  IF line[1] = "#" \/ Equals(line) = {} THEN << >>
  ELSE LET eq == Least(Equals(line))
       IN  << [name  |-> Trim(SubSeq(line, 1, eq - 1)),
               value |-> Trim(SubSeq(line, eq + 1, Len(line)))] >>

(* The index at which the loop ends `value`: one past the copy it makes of   *)
(* the line's rest and its terminator.  Counted from 0.                      *)
ValueEndUncut(line) ==          \* slip: the length of the whole line
  IF line[1] = "#" \/ Equals(line) = {} THEN 0 ELSE Len(line) + 1

ValueEnd(line) ==
  IF line[1] = "#" \/ Equals(line) = {} THEN 0
  ELSE Len(line) - (Least(Equals(line)) - 1) + 1

(* The buffers the loop goes through. *)
Buffers[text \in Seq(Char)] ==
  IF text = << >> THEN << >>
  ELSE << SubSeq(text, 1, FgetsLength(text)) >>
         \o Buffers[SubSeq(text, FgetsLength(text) + 1, Len(text))]

(* rdk_logger_parse_config: the settings in the order they are applied. *)
Settings[buffers \in Seq(Seq(Char))] ==
  IF buffers = << >> THEN << >>
  ELSE ParseLine(Head(buffers)) \o Settings[Tail(buffers)]

-----------------------------------------------------------------------------
(* Words for levels.  No level's name begins another's, so a word is the     *)
(* level's name it begins with, in any case, or "", and what comes after it. *)

LevelName == << "FATAL", "ERROR", "WARN", "NOTICE", "INFO", "DEBUG", "TRACE",
                "NONE" >>
Word == [stem : {""} \cup { LevelName[i] : i \in DOMAIN LevelName },
         tail : STRING, upper : BOOLEAN]

Begins(word, name) == word.stem = name
Whole(word) == word.tail = "" \/ (word.stem = "WARN" /\ word.tail = "ING")

(* The level with this name. *)
LevelNamed(name) == (CHOOSE i \in DOMAIN LevelName : LevelName[i] = name) - 1

(* rdk_logger_level_from_string: strcasecmp with each name, and WARNING. *)
LevelFromStringByCase(word) ==  \* slip: strcmp
  IF word.stem # "" /\ Whole(word) /\ word.upper
  THEN LevelNamed(word.stem) ELSE NONE

LevelFromString(word) ==
  IF word.stem # "" /\ Whole(word) THEN LevelNamed(word.stem) ELSE NONE

(* How rdk_logger_parse_config tells NONE from a word it does not know. *)
SettingOf(word) ==
  IF word.stem = "NONE" /\ word.tail = "" THEN NONE
  ELSE IF LevelFromString(word) # NONE THEN LevelFromString(word)
  ELSE Unrecognised

=============================================================================
