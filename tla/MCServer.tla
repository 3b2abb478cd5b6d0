------------------------------ MODULE MCServer ------------------------------
(***************************************************************************)
(* Small instances of the server with one websocket messenger.             *)
(***************************************************************************)
EXTENDS MontrayServer

\* Every key reported with the same condition.
MCUpdates == {ItemsUpdate([k \in ItemKey |-> x]) : x \in Item}

\* The server after every peer has connected and its send loop has read the
\* still empty board.
MCConnected ==
    /\ CoreInit /\ LoggerInit
    /\ subs = Conns
    /\ closing = FALSE
    /\ webPc = "recv" /\ serve = "serving"
    /\ fanNotif = NoNotification /\ fanTodo = {}
    /\ conn = [c \in Conns |-> "open"]
    /\ removedBy = [c \in Conns |-> "nobody"]
    /\ rxPc = [c \in Conns |-> "read"]
    /\ txPc = [c \in Conns |-> "snapshot"]
    /\ queue = [c \in Conns |-> <<>>]
    /\ txMsg = [c \in Conns |-> board]
    /\ view = [c \in Conns |-> NoMessage]

MCConnectedSpec == MCConnected /\ [][Next]_vars /\ Fairness
=============================================================================
