----------------------------- MODULE MCProcess -------------------------------
(* A small instance of Process for TLC. *)
EXTENDS Process, TLC

\* The text of a number is the number; the other texts are nodes of "logs".
Parse(name, text) == IF text = Junk THEN Junk
                     ELSE IF name = "logs" THEN LogDefines(text) ELSE text

FileAt(file, level, fmt) ==
    [type |-> "FileLogAppender", file |-> file, level |-> level, formatter |-> fmt]
File(level, fmt) == FileAt("f", level, fmt)
NoFile == [type |-> "FileLogAppender", file |-> "", level |-> 1, formatter |-> ""]
Node(name, level, fmt, apps) ==
    [name |-> name, level |-> level, formatter |-> fmt, appenders |-> apps]

Root == Node("root", 1, "", <<File(0, BadPattern)>>)
RootElsewhere == Node("root", 1, "", <<FileAt("g", 0, BadPattern)>>)
Both == <<Root, Node("sys", 5, "p", <<NoFile, File(5, "own"), File(0, "")>>), Node("sys", 1, "", <<>>)>>

Order == <<"root", "sys", "user">>
VarNames == {"late", "logs", "timeout"}
Defaults == [n \in VarNames |-> IF n = "logs" THEN <<>> ELSE 0]
First == [n \in VarNames |-> CASE n = "logs" -> <<"log">> [] n = "timeout" -> <<"copy">>
                                [] n = "late" -> <<>>]
Values == {<<"timeout", 1>>, <<"timeout", 0>>}
          \cup {<<"logs", LogDefines(nodes)>> : nodes \in {Both, <<Root>>, <<RootElsewhere>>}}
Docs == {<<<<"timeout", Junk>>, <<"logs", Both>>, <<"late", 1>>>>}
SymThreads == Permutations(Threads)
Msgs == {<<"sys", FATAL>>, <<"root", FATAL>>, <<"user", FATAL>>}
=============================================================================
