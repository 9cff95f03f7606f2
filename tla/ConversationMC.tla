---------------------------- MODULE ConversationMC ----------------------------
(* Conversation on small instances. *)
EXTENDS Conversation

MCTurns == Roles \X Numbers

\* The call_ids of an adapter that begins to count again in every response.
RestartedIds == [n \in 1..MaxTools |-> 1]

\* The behaviours in which a pump that is free takes the event that waits before anything
\* else happens: what goes wrong in them takes no unlucky order of the event loop's tasks.
PromptSpec ==
  ConversationInit /\ [][ConversationNext /\ (NextEvent => PumpStep)]_conversationVars
===============================================================================
