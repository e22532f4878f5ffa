---------------------------- MODULE MCAtonRuntime ----------------------------
(* Small networks for AtonRuntime. *)
EXTENDS AtonRuntime

Pure(wait) == [kind |-> "hw", blob |-> FALSE, wait |-> wait, op |-> None]
Blob == [kind |-> "hw", blob |-> TRUE, wait |-> {}, op |-> None]
Soft == [kind |-> "sw", blob |-> FALSE, wait |-> {}, op |-> None]
Hybrid(op) == [kind |-> "hybrid", blob |-> FALSE, wait |-> {}, op |-> op]

(* One operator of each form: a copy in turns; a fill by one DMA transfer whose
   callback starts a copy; a copy whose callback ends the operator. *)
SomeOps ==
  [copy |-> [rounds |-> <<TRUE, FALSE, TRUE>>, dma |-> 1, resets |-> TRUE, then |-> "last"],
   fill |-> [rounds |-> <<TRUE>>, dma |-> 2, resets |-> FALSE, then |-> "pad"],
   pad |-> [rounds |-> <<FALSE, TRUE>>, dma |-> 1, resets |-> TRUE, then |-> "back"]]

(* In a build with parallel networks two threads with a network each, A and B, which
   have every kind of block; in the application's build one thread with its network
   C, that of app/Model/network.c, and a second one D to take turns with. *)
AllInst == {"A", "B", "C", "D"}
AllThreads == {"t1", "t2", "main"}
AllServes ==
  [t \in AllThreads |-> CASE t = "t1" -> {"A"} [] t = "t2" -> {"B"} [] OTHER -> {"C", "D"}]
BothBuilds == [p \in BOOLEAN |-> IF p THEN {"t1", "t2"} ELSE {"main"}]
AllNetworks ==
  [i \in AllInst |->
     CASE i = "A" -> <<Blob, Hybrid("fill"), Pure({0, 1})>>
       [] i = "B" -> <<Soft, Hybrid("copy"), Hybrid(None), Blob>>
       [] i = "C" -> <<Blob, Soft, Blob>>
       [] i = "D" -> <<Pure({0, 1}), Soft, Pure({1})>>]

(* The application's build with a hybrid block in the first of two networks. *)
TwoInst == {"A", "B"}
OneThread == {"main"}
OneServes == [t \in OneThread |-> TwoInst]
AppBuild == [p \in {FALSE} |-> OneThread]
HybridNetworks == [i \in TwoInst |-> IF i = "A" THEN <<Hybrid("copy")>> ELSE <<Blob>>]
=============================================================================
