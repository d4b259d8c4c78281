---- MODULE MCConversation ----
EXTENDS Conversation
====
