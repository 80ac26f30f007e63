------------------------------ MODULE MC_LogText ------------------------------
(* Inputs for LogText. *)
EXTENDS LogText

CONSTANTS MaxText, MaxMessage

MCChar == {"#", "=", " ", "a", "\n"}
MCTexts == UNION { [1 .. n -> MCChar] : n \in 0 .. MaxText }

MCCategories == UNION { [1 .. n -> {".", "m"}] : n \in 0 .. 3 }
MCMessages == UNION { [1 .. n -> {"a", "\n", "DEL"}] : n \in 0 .. MaxMessage }

MCTimes == [sec : 0 .. 2, nsec : {0, 999999, 1000000, 999999999}]

MCWords ==
  [stem : {""} \cup { LevelName[i] : i \in DOMAIN LevelName },
   tail : {"", "ING", "1"}, upper : BOOLEAN]

MCNames == [length : 0 .. (NameMax + 1), prefixed : BOOLEAN]

MCArgLists ==
  [count : 2 .. 4, pid : {"positive", "zero", "word"}, module : MCNames,
   word : MCWords]

MCProcesses == [exists : BOOLEAN, name : [length : 0 .. (NameMax + 1)]]

=============================================================================
