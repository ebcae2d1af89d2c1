---------------------- MODULE MCConversationScheduler ----------------------
(* TLC instances of ConversationScheduler: one chat, a few messages.        *)
EXTENDS ConversationScheduler

CONSTANTS MCLast

MCMessages == 1 .. MCLast
MCSlots == Tokens \X LeaseKinds
\* One user, except that the second message is another's.
MCSender == [m \in MCMessages |-> IF m = 2 THEN "u2" ELSE "u1"]
MCOneSender == [m \in MCMessages |-> "u1"]
=============================================================================
