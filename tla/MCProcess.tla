---------------------------- MODULE MCProcess ----------------------------
(* Process for TLC: the log server, a client and a child of CServer.       *)
EXTENDS Process

CONSTANTS logServer, client, business

MCChildren == {logServer, client, business}
MCEntry == [c \in MCChildren |-> CASE c = logServer -> "log"
                                   [] c = client -> "client"
                                   [] c = business -> "null"]
=============================================================================
