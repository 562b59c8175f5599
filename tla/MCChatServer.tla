---------------------------- MODULE MCChatServer ----------------------------
(***************************************************************************)
(* ChatServer for TLC: a library call with two empty prompts, which stay   *)
(* in the queue and whose thread meanwhile iterates over the other's       *)
(* request, and a chat request, which is streamed; its message may have a  *)
(* role that the server does not know.  The cap on the iterations of the   *)
(* chat request has nothing to spare.                                      *)
(***************************************************************************)
EXTENDS ChatServer

CONSTANTS lib, chat

TwoThreads == {lib, chat}
ChatRoles == [t \in {chat} |-> {<<"user">>, <<"tool">>}]
CallPrompts == [t \in TwoThreads |-> IF t = lib THEN <<0, 0>> ELSE <<2>>]
CallTokens == [t \in TwoThreads |-> IF t = lib THEN 1 ELSE 2]
EqualPrompts == [t \in TwoThreads |-> <<2>>]
OneStream == {chat}
SomeTexts == {11}

=============================================================================
