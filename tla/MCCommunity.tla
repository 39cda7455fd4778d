---- MODULE MCCommunity ----
(* A small instance of the social graph, the messages and the moderation of
   them for TLC: two requests on two replicas. *)
EXTENDS Moderation

MCReplicaOf == [h \in {"h1", "h2"} |-> h]
============================
