-------------------------- MODULE MCConversations --------------------------
(***************************************************************************)
(* TLC instances of ConversationScheduler in one run: a group chat and a   *)
(* private one where runs fail, steer and wait, a private one whose engine *)
(* is stopped and started again, and a crowded one where everything that   *)
(* the code handles goes wrong: its inbox is full, its decisions expire,   *)
(* and a stop leaves consumers behind.  A behaviour is one of the chat it  *)
(* starts with.                                                            *)
(***************************************************************************)
EXTENDS ConversationScheduler

VARIABLE chat

chatVars == <<inbox, leasedCount, running, nextToken, mstate, lease, cons, turn,
              history, engine>>

SlotsUpTo(token) == (1 .. token) \X LeaseKinds
MCSlots == SlotsUpTo(MaxToken)

\* The group is the specification itself.  Three of its messages are ambient;
\* the second is another user's, so that an ambient turn that waits does not
\* claim it: if a direct task came before the claimed batch is committed, the
\* batch would be lost.  The crowded chat has one user.
MCSender == [m \in Messages |-> IF m = 2 THEN "u2" ELSE "u1"]

Private == INSTANCE ConversationScheduler WITH
  Messages <- 1 .. 4, Ambient <- {}, Direct <- {},
  Sender <- [m \in 1 .. 4 |-> "u1"],
  MaxToken <- 6, Slots <- SlotsUpTo(6), Features <- {"fail", "steer", "wait"}

Stopped == INSTANCE ConversationScheduler WITH
  Messages <- 1 .. 4, Ambient <- {}, Direct <- {},
  Sender <- [m \in 1 .. 4 |-> "u1"],
  MaxToken <- 7, Slots <- SlotsUpTo(7), Features <- {"stop", "steer", "wait"}

Crowded == INSTANCE ConversationScheduler WITH
  Messages <- 1 .. 4, Ambient <- {1, 2}, Direct <- {3, 4},
  Sender <- [m \in 1 .. 4 |-> "u1"],
  MaxInbox <- 3, MaxToken <- 3, Slots <- SlotsUpTo(3), OrderlyStop <- FALSE,
  AmbientQuiet <- FALSE, Features <- Optional

ChatInit == \/ chat = "group" /\ SchedInit
            \/ chat = "private" /\ Private!SchedInit
            \/ chat = "stopped" /\ Stopped!SchedInit
            \/ chat = "crowded" /\ Crowded!SchedInit

GroupMoves == chat = "group" /\ SchedNext
PrivateMoves == chat = "private" /\ Private!SchedNext
StoppedMoves == chat = "stopped" /\ Stopped!SchedNext
CrowdedMoves == chat = "crowded" /\ Crowded!SchedNext

ChatNext == /\ GroupMoves \/ PrivateMoves \/ StoppedMoves \/ CrowdedMoves
            /\ UNCHANGED chat

ChatSpec == ChatInit /\ [][ChatNext]_<<chat, chatVars>>

Each(group, private, stopped, crowded) ==
  CASE chat = "group" -> group
    [] chat = "private" -> private
    [] chat = "stopped" -> stopped
    [] chat = "crowded" -> crowded

\* ConversationScheduler!SchedTypeOK, of every chat.
ChatTypeOK == Each(SchedTypeOK, Private!SchedTypeOK, Stopped!SchedTypeOK, Crowded!SchedTypeOK)

\* ConversationScheduler!NoAcceptedLost, of every chat but the crowded one: a
\* full inbox, a stop that leaves consumers behind, an ambient decision that
\* expires and a direct task that comes before an ambient turn has committed
\* what it claimed take a message, its turn or its place away, by the code as
\* it is.
ChatLosesNothing ==
  Each(NoAcceptedLost, Private!NoAcceptedLost, Stopped!NoAcceptedLost, TRUE)

\* ConversationScheduler!LiveTurnOwned, of every chat but the crowded one.
ChatTurnsOwned ==
  Each(LiveTurnOwned, Private!LiveTurnOwned, Stopped!LiveTurnOwned, TRUE)

\* ConversationScheduler!PipelineSorted, of every chat.
ChatInOrder ==
  Each(PipelineSorted, Private!PipelineSorted, Stopped!PipelineSorted,
       Crowded!PipelineSorted)

\* ConversationScheduler!ServedByOne, of every chat but the crowded one.
ChatServedByOne == Each(ServedByOne, Private!ServedByOne, Stopped!ServedByOne, TRUE)

\* ConversationScheduler!AdmissionFIFO, of every chat but the crowded one.
ChatAdmissionFIFO ==
  [][Each(AdmitsInOrder, Private!AdmitsInOrder, Stopped!AdmitsInOrder, TRUE)]_chatVars

\* ConversationScheduler!Inert, of every chat.
ChatStaleInert == [][Each(Inert, Private!Inert, Stopped!Inert, Crowded!Inert)]_chatVars
=============================================================================
