---- MODULE MCTcpConn ----
EXTENDS TcpConn
MCToWrite == [e \in Ends |-> IF e = "client" THEN 2 ELSE 0]
====
