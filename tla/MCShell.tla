------------------------------- MODULE MCShell --------------------------------
(* A character, the mark of the history, the command history and the end *)
(* of a command; a shell with a prompt, one of a process, and one of lines.  *)
EXTENDS Shell

MCChar == {"a", "!", "h", ";"}
MCFiles == {<<"a", "a">>, <<"a", ";">>, <<"h", "a">>}
MCClips == {<<"!", "a">>}
MCHistories == {<<>>, <<<<"h", "a">>, <<"a">>>>}
MCSetups == {[end |-> "eol", vi |-> TRUE, parent |-> TRUE, process |-> FALSE],
             [end |-> "eol", vi |-> TRUE, parent |-> FALSE, process |-> TRUE],
             [end |-> ";", vi |-> FALSE, parent |-> TRUE, process |-> FALSE]}
===============================================================================
