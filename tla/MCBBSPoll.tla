------------------------------ MODULE MCBBSPoll -----------------------------
(***************************************************************************)
(* A board with a menu, a prompt, and a line for each of two answers, one  *)
(* of which is eight characters long.                                      *)
(***************************************************************************)
EXTENDS BBSPoll

Menu   == <<89, 73, 66, 77, 10>>             \* "YIBM\n"
Prompt == <<111, 107, 63, 10>>                \* "ok?\n"
Found  == <<70, 79, 85, 78, 68, 32, 73, 84, 10>>   \* "FOUND IT\n"
Poem   == <<115, 111, 32, 109, 97, 110, 121, 10>>    \* "so many\n"

MCLines   == {Menu, Prompt, Found, Poem}
MCAnswers == {<<70, 79, 85, 78, 68, 32, 73, 84>>, <<109>>}   \* "FOUND IT", "m"
=============================================================================
