------------------------------ MODULE MCThread ------------------------------
(* An instance of Thread: two threads on one node and a third on another.  *)
EXTENDS Thread

MCNode == [t \in Threads |-> IF t = "s" THEN "n2" ELSE "n1"]

Shared == {"en_strm", "en_avx", "joins"}
Legacy == {"en_strm"}
Rash == {"en_strm", "en_avx", "busy"}
Queue == {"en_strm", "en_avx", "en_tcp"}
Alone == {"en_strm", "en_avx", "en_wb"}
Rdma == {"en_rdma", "en_avx"}
RdmaLegacy == {"en_rdma"}
RdmaNetwork == {"en_rdma", "en_avx", "first", "netfail", "mapfail", "nomem"}
RdmaLoop == {"en_rdma", "en_avx", "loop"}
Failing == {"en_strm", "en_mem", "EN_GPU", "badargs", "nomem", "mapfail"}
Frees == {"en_mem", "en_avx", "free"}

Connected == {Rdma, RdmaLegacy, RdmaNetwork, RdmaLoop}
MCEnvironments == {Shared, Legacy, Rash, Queue, Alone, Failing, Frees} \cup Connected
MCActive ==
  [e \in MCEnvironments |->
     CASE e \in {Shared, Legacy, Rash} -> {"c", "d"} [] e \in Connected -> {"c", "s"} [] OTHER -> {"c"}]
MCOps ==
  [e \in MCEnvironments |->
     CASE e = Shared -> {"LOCAL_TRANSFER"}
       [] e = Legacy -> {"LOCAL_WRITE", "LOCAL_READ"}
       [] e = Rash -> {"LOCAL_WRITE"}
       [] e = Queue -> {"LOCAL_WRITE", "REMOTE_TCP_SEND"}
       [] e = Alone -> {"LOCAL_READ", "LOCAL_TRANSFER"}
       [] e = Rdma -> {"REMOTE_RDMA_READ", "REMOTE_RDMA_WRITE"}
       [] e = RdmaLegacy -> {"REMOTE_RDMA_READ", "REMOTE_RDMA_SEND"}
       [] e \in {RdmaNetwork, RdmaLoop} -> {"REMOTE_RDMA_READ"}
       [] e = Failing -> CoyoteOper
       [] e = Frees -> {"LOCAL_WRITE", "LOCAL_SYNC"}]
MCMaxCalls ==
  [e \in MCEnvironments |->
     CASE e = Queue -> 4 [] e \in {Alone, Rdma} -> 3 [] e \in {Shared, Rash, RdmaLegacy} -> 2 [] OTHER -> 1]

(* One client that reads twice.                                            *)
ReadEnvironments == {Rdma}
ReadActive == [e \in ReadEnvironments |-> {"c", "s"}]
ReadOps == [e \in ReadEnvironments |-> {"REMOTE_RDMA_READ"}]
ReadMaxCalls == [e \in ReadEnvironments |-> 2]
=============================================================================
