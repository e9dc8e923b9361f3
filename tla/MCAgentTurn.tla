---------------------------- MODULE MCAgentTurn ----------------------------
(* Model-checking instances of AgentTurn: a direct message and a group post.  *)
EXTENDS AgentTurn
CONSTANTS dm, post, friend, group, report
\* Media of every kind (a video goes the way of a file), of up to two sections
\* and a rest; the post is a file of the same name.
AnyKind == [m \in Messages |-> IF m = dm THEN {"voice", "inline", "image", "file"} ELSE {"file"}]
FilesOnly == [m \in Messages |-> {"file"}]
Sizes == [m \in Messages |-> IF m = dm THEN 4 ELSE 1]
OneName == [m \in Messages |-> report]
Apart == [t \in Turns |-> IF t = dm THEN friend ELSE group]
LongAndShort == [t \in Turns |-> IF t = dm THEN {<<"captioned", "quote">>} ELSE {<<"text">>}]
TwoForOne == [t \in Turns |-> IF t = dm THEN 2 ELSE 0]
NoLosses == [t \in Turns |-> 0]
NoReplies == [t \in Turns |-> {}]
=============================================================================
