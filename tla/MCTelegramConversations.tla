------------------------ MODULE MCTelegramConversations ------------------------
(* TelegramConversations with interchangeable names and jobs. *)
EXTENDS TelegramConversations, TLC

MCUserOf == [c \in Chats |-> IF c = "group of u2" THEN "u2" ELSE "u1"]
MCIdOf == [c \in Chats |-> IF c = "friend of u1" THEN "friend" ELSE "group"]
MCSymmetry == Permutations(Names) \cup Permutations(Jobs)
=============================================================================
