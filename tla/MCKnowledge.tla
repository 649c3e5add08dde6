---------------------------- MODULE MCKnowledge ----------------------------
(* One question, answered while a backfill and a client write.              *)
EXTENDS KnowledgeVault

OneQuestion == [t \in Turns |-> "question"]
OneReply == [t \in Turns |-> "reply"]
=============================================================================
