------------------------------ MODULE MCStack -------------------------------
(***************************************************************************)
(* The parts of the firmware below the two threads, next to each other     *)
(* for TLC: the stream with its traffic, and the parts of lwIP and of its  *)
(* port that share no state with each other in these models.  A behaviour  *)
(* is one of one part; the others stay in their initial states.            *)
(***************************************************************************)
EXTENDS Stream, Timeouts, Etharp, IpFrag, Netconn, EnetRx, EnetTx, Heap, Pbuf, Dhcp, Sockets, PppFsm

CONSTANT Parts     \* the parts a run looks at
VARIABLE part

MCSamples == 0..MaxFrames
MCInterval ==
  [h \in CyclicTimers \cup {"tcp"} |-> CASE h = "arp" -> 4 [] h = "dhcp" -> 3 [] h = "tcp" -> 2]
MCInterests == {{<<"read", 1>>, <<"read", 2>>, <<"write", 2>>}}
MCFlags == [e \in Ends |-> IF e = "a" THEN {} ELSE {"RESTART"}]
MCGrantable == [e \in Ends |-> IF e = "a" THEN {0, 1, 2} ELSE {0, 2}]
MCLeases == {[t0 |-> 3, t1 |-> 1, t2 |-> 2]}

stackVars == <<part, vars, toVars, arpVars, reassVars, apiVars, rxVars, txVars, heapVars, pbufVars, dhcpVars,
  sockVars, pppVars>>

\* A step of part p.
Of(p) ==
  /\ part = p /\ UNCHANGED part
  /\ p \notin {"stream", "traffic"} => UNCHANGED vars
  /\ p # "timeouts" => UNCHANGED toVars
  /\ p # "arp" => UNCHANGED arpVars
  /\ p # "reassembly" => UNCHANGED reassVars
  /\ p # "api" => UNCHANGED apiVars
  /\ p # "receive" => UNCHANGED rxVars
  /\ p # "transmit" => UNCHANGED txVars
  /\ p # "heap" => UNCHANGED heapVars
  /\ p # "pbufs" => UNCHANGED pbufVars
  /\ p # "dhcp" => UNCHANGED dhcpVars
  /\ p # "sockets" => UNCHANGED sockVars
  /\ p # "ppp" => UNCHANGED pppVars

StackInit ==
  /\ Init /\ TimeoutsInit /\ EtharpInit /\ IpFragInit /\ NetconnInit
  /\ EnetRxInit /\ EnetTxInit /\ HeapInit /\ PbufInit /\ DhcpInit
  /\ SocketsInit /\ PppInit
  /\ part \in Parts

StackNext ==
  \/ Of("stream") /\ Next
  \/ Of("traffic") /\ TrafficNext
  \/ Of("timeouts") /\ TimeoutsNext
  \/ Of("arp") /\ EtharpNext
  \/ Of("reassembly") /\ IpFragNext
  \/ Of("api") /\ NetconnNext
  \/ Of("receive") /\ EnetRxNext
  \/ Of("transmit") /\ EnetTxNext
  \/ Of("heap") /\ HeapNext
  \/ Of("pbufs") /\ PbufNext
  \/ Of("dhcp") /\ DhcpNext
  \/ Of("sockets") /\ SocketsNext
  \/ Of("ppp") /\ PppNext

StackSpec == StackInit /\ [][StackNext]_stackVars

\* The fairness of each part, which its module justifies.  Only one part moves: the first action of
\* every part can share one condition, the second another, and so on.
Fair1 ==
  \/ Of("traffic") /\ Thread
  \/ Of("timeouts") /\ TimeoutsFair
  \/ Of("api") /\ AppReady
  \/ Of("transmit") /\ SenderSteps
Fair2 ==
  \/ Of("traffic") /\ Traffic
  \/ Of("api") /\ netconn_recv
  \/ Of("transmit") /\ Transmit
Fair3 ==
  \/ Of("api") /\ StackWork
  \/ Of("transmit") /\ Interrupts
Fair4 == Of("transmit") /\ SetBits

LiveSpec ==
  StackSpec /\ WF_stackVars(Fair1) /\ WF_stackVars(Fair2) /\ WF_stackVars(Fair3) /\ WF_stackVars(Fair4)
=============================================================================
