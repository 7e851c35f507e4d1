--------------------------- MODULE RdmaLinkProofs ---------------------------
(***************************************************************************)
(* What holds of the RDMA connection whatever fails and whoever interrupts *)
(* it: types, what is left behind, and the wait of nmsg_bind_client().     *)
(***************************************************************************)
EXTENDS RdmaLinkInv

LinkBase == LinkTypes /\ NonZero /\ ResInv /\ BindInv /\ EventInv

\* It holds initially.
LEMMA BaseInit == Init => LinkBase
  <1> SUFFICES ASSUME Init PROVE LinkBase  OBVIOUS
  <1>1. LinkTypes  BY TypesInit
  <1>2. /\ state["client"] = IDLE /\ state["server"] = IDLE
        /\ pc["client"] = "start" /\ pc["server"] = "request"
        /\ mr = 0 /\ key = 0 /\ start_buf = 0 /\ remote_rkey = 0
        /\ shown = <<>> /\ requested = FALSE /\ rdma_buf = [key |-> 0, data |-> 0]
        /\ ~second
        /\ \A sd \in Side : /\ ev[sd] = <<>> /\ sq[sd] = <<>> /\ cq[sd] = <<>> /\ qp[sd] = "none"
                            /\ res[sd] = {} /\ cqh[sd] = "out" /\ arm[sd] = "off"
    BY DEF Init, Side
  <1>3. "client" \in Side /\ "server" \in Side  BY DEF Side
  <1>4. Len(<<>>) = 0  OBVIOUS
  <1>5. /\ \A e : ~EventIn(<<>>, e) /\ Once(<<>>, e) /\ First(<<>>, e)
        /\ \A op : ~OpIn(<<>>, op)
        /\ \A k : ~RecvIn(<<>>, k)
        /\ KeysIn(<<>>)
    BY <1>4 DEF EventIn, Once, First, OpIn, RecvIn, KeysIn
  <1>6. ResInv
    <2>1. res \in [Side -> SUBSET {"pd", "cq", "qp", "dma", "mr", "buf", "cm_id", "child_cm_id"}]
      BY DEF Init
    <2> QED  BY <1>2, <1>3, <2>1 DEF ResInv, NothingLeft
  <1>7. BindInv  BY <1>2 DEF BindInv
  <1>8. NonZero
    BY <1>2, <1>3, <1>4, <1>5
       DEF NonZero, Received, IDLE, RDMA_READ_ADV, RDMA_READ_COMPLETE
  <1>9. EventInv
    BY <1>2, <1>3, <1>5 DEF EventInv, DownInv, RequestInv, NeverUpInv, NeverUp, Early, IDLE,
       ERROR, CONNECT_REQUEST, CONNECTED, RDMA_WRITE_ADV, RDMA_WRITE_COMPLETE
  <1> QED  BY <1>1, <1>6, <1>7, <1>8, <1>9 DEF LinkBase

\* Every step preserves it.
LEMMA BaseStep == LinkBase /\ [Next]_vars => LinkBase'
  BY TypesStep, NonZeroStep, ResStep, BindStep, DownStep, RequestInvStep, NeverUpStep
     DEF LinkBase, EventInv

\* So it holds always.
LEMMA LinkInvariant == Spec => []LinkBase
  BY BaseInit, BaseStep, PTL DEF Spec

-----------------------------------------------------------------------------
(***************************************************************************)
(* The types as the model states them: a key in a queue or in what was     *)
(* shown is never 0.                                                       *)
(***************************************************************************)
LEMMA LinkTypeOK == LinkBase => TypeOK
  <1> SUFFICES ASSUME LinkBase PROVE TypeOK  OBVIOUS
  <1>1. LinkTypes /\ NonZero /\ ResInv  BY DEF LinkBase
  <1>2. ASSUME NEW sd \in Side PROVE sq[sd] \in Seq(Request)
    <2>1. sq[sd] \in Seq(Req)  BY <1>1, QueueOps
    <2>2. ASSUME NEW n \in 1..Len(sq[sd]) PROVE sq[sd][n] \in Request
      <3>1. sq[sd][n] \in Req  BY <2>1, ElementOfSeq
      <3>2. sq[sd][n].key \in Msg  BY <1>1 DEF NonZero, KeysIn, Side
      <3> QED  BY <3>1, <3>2 DEF Req, Request
    <2> QED  BY <2>1, <2>2
  <1>3. shown \in Seq([key : Msg, data : Msg])
    <2>1. shown \in Seq([key : Key, data : Key])  BY <1>1 DEF LinkTypes, DataTypes
    <2>2. ASSUME NEW n \in 1..Len(shown) PROVE shown[n] \in [key : Msg, data : Msg]
      <3>1. shown[n] \in [key : Key, data : Key]  BY <2>1, ElementOfSeq
      <3>2. shown[n].key \in Msg /\ shown[n].data \in Msg  BY <1>1 DEF NonZero, Holds
      <3> QED  BY <3>1, <3>2
    <2> DEFINE S == [key : Key, data : Key]
               T == [key : Msg, data : Msg]
    <2>3. shown \in Seq(S) /\ \A n \in 1..Len(shown) : shown[n] \in T  BY <2>1, <2>2
    <2> HIDE DEF S, T
    <2>4. shown \in Seq(T)  BY <2>3
    <2> QED  BY <2>4 DEF T
  <1>4. res \in [Side -> SUBSET (Range(SetupOrder("client")) \cup {"cm_id", "child_cm_id"})]
    BY <1>1, SetupMakes DEF ResInv, Side
  <1>5. decided \in [Side -> IDLE..ERROR]
    BY <1>1 DEF LinkTypes, FlagTypes, IDLE, RDMA_READ_ADV, RDMA_WRITE_ADV, RDMA_WRITE_COMPLETE,
       ERROR
  <1>6. /\ hasty \in BOOLEAN /\ made \in BOOLEAN /\ stray \in BOOLEAN /\ second \in BOOLEAN
        /\ requested \in BOOLEAN /\ lost \in BOOLEAN
    BY <1>1, Zenon DEF LinkTypes, DataTypes
  <1>7. /\ faults \in 0..MaxFaults /\ posted \subseteq Msg
        /\ rdma_buf \in [key : Key, data : Key]
        /\ key \in Key /\ start_buf \in Key /\ mr \in Key /\ remote_rkey \in Key
    BY <1>1 DEF LinkTypes, DataTypes
  <1>8. /\ state \in [Side -> IDLE..ERROR] /\ qp \in [Side -> {"none", "init", "up", "err"}]
        /\ pc["client"] \in ClientPC /\ pc["server"] \in ServerPC
        /\ recv \in [Side -> BOOLEAN] /\ arm \in [Side -> {"off", "armed", "event"}]
        /\ cqh \in [Side -> {"out", "poll", "recv", "post"}]
    BY <1>1 DEF LinkTypes, ControlTypes, FlagTypes
  <1>9. \A sd \in Side : ev[sd] \in Seq(CmEvent) /\ cq[sd] \in Seq(Completion)
    BY <1>1 DEF LinkTypes, EventTypes, CompletionTypes
  <1> QED  BY <1>2, <1>3, <1>4, <1>5, <1>6, <1>7, <1>8, <1>9 DEF TypeOK

\* No event and no state but those BindIsAnswered names can meet a client that waits.
LEMMA LinkBind == LinkBase => BindIsAnswered
  <1> SUFFICES ASSUME LinkBase, pc["client"] = "bind", ev["client"] = <<>>,
                      state["client"] < ROUTE_RESOLVED
               PROVE  NoRoute
    <2>1. LinkBase /\ pc["client"] = "bind" => "cm_id" \in res["client"]  BY DEF LinkBase, BindInv
    <2>2. LinkBase => state["client"] \in IDLE..ERROR  BY DEF LinkBase, LinkTypes, ControlTypes, Side
    <2> QED  BY <2>1, <2>2 DEF BindIsAnswered, IDLE, ERROR, ROUTE_RESOLVED
  <1>1. state["client"] \in IDLE..ERROR  BY DEF LinkBase, LinkTypes, ControlTypes, Side
  <1>2. state["client"] >= ADDR_RESOLVED  BY DEF LinkBase, BindInv
  <1> QED  BY <1>1, <1>2 DEF NoRoute, IDLE, ERROR, ADDR_RESOLVED, ROUTE_RESOLVED

(***************************************************************************)
(* Type correctness of both ends, their queues and the adapters: every     *)
(* completion, event and request in a queue is one its handler knows, and  *)
(* no request or printed message carries the key 0.                        *)
(***************************************************************************)
THEOREM LinkTypeCorrect == Spec => []TypeOK
  BY LinkInvariant, LinkTypeOK, PTL

(***************************************************************************)
(* However far nmsg_setup_qp() and nmsg_setup_buffers() get, and whatever  *)
(* ends the connection, no end that has stopped leaves more behind than    *)
(* the DMA mappings and the connection identifiers that NothingLeft names. *)
(***************************************************************************)
THEOREM NothingIsLeft == Spec => []NothingLeft
  <1>1. LinkBase => NothingLeft  BY DEF LinkBase, ResInv
  <1> QED  BY <1>1, LinkInvariant, PTL

(***************************************************************************)
(* nmsg_bind_client() waits for an event that is still to come, except     *)
(* after a rdma_resolve_route() that failed at once.                       *)
(***************************************************************************)
THEOREM BindsAreAnswered == Spec => []BindIsAnswered
  BY LinkInvariant, LinkBind, PTL
=============================================================================
