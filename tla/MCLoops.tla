------------------------------ MODULE MCLoops ------------------------------
(* The three servers that serve several clients, each in states of its own: *)
(* Server M, the chat server, and the server that forks a child for each    *)
(* client.  One of them runs, the others stay in their initial state.       *)
EXTENDS ChatServer, ForkServer

CONSTANT Chatters \* bound: the clients that use the chat server

ASSUME ChattersAssumption == Chatters \subseteq Clients

VARIABLE server  \* the one that runs

allVars == <<server, vars, forkVars>>

LoopsInit ==
  /\ server \in {"serverM", "testPollServer", "TestServer"}
  /\ ChatInit
  /\ ForkInit

ServerMRuns ==
  /\ server = "serverM" /\ Next
  /\ UNCHANGED <<server, chatVars, forkVars>>
ChatServerRuns ==
  /\ server = "testPollServer"
  /\ ServerStep \/ \E c \in Chatters : ChatRead(c) \/ ChatClient(c)
  /\ UNCHANGED <<server, forkVars>>
ForkServerRuns ==
  /\ server = "TestServer" /\ ForkNext
  /\ UNCHANGED <<server, vars>>

LoopsNext == ServerMRuns \/ ChatServerRuns \/ ForkServerRuns

(* main of Server M is one loop that waits in poll only, as long as each    *)
(* request returns: Serve is one step here.  In serverM.cpp operationType   *)
(* also waits for a server, and in TCPrecv for a person's Y or N; that one  *)
(* who does not answer stops the loop is what run multiplex shows.          *)
MainGoesOn ==
  WF_loopVars(server = "serverM" /\ (LoopStep \/ \E c \in Clients : Serve(c)))

(* The chat server is one loop, too, and people read what they are sent.    *)
ChatGoesOn ==
  /\ WF_vars(server = "testPollServer" /\ ServerStep)
  /\ \A c \in Chatters : WF_vars(server = "testPollServer" /\ ChatRead(c))

LoopsSpec ==
  /\ LoopsInit /\ [][LoopsNext]_allVars
  /\ MainGoesOn /\ ChatGoesOn /\ ForkGoesOn

----------------------------------------------------------------------------
(* Whatever a client has sent is received, though other clients come, go    *)
(* and send all the time, and a scan may pass it over: by the scan that     *)
(* finds its connection, or the one that accepts it first (main of          *)
(* serverM.cpp).  This is the strong fairness ExchangeProps takes for       *)
(* ServeStep.                                                               *)
EveryoneIsServed ==
  \A c \in Clients :
    server = "serverM" /\ inbox[c] # <<>> ~> inbox[c] = <<>>
=============================================================================
