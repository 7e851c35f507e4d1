------------------------------ MODULE RdmaLink ------------------------------
(***************************************************************************)
(* One RDMA connection (mm/nmsg_rdma_client.c, mm/nmsg_rdma_server.c).     *)
(*                                                                         *)
(* The client resolves the server, connects, and then advertises one       *)
(* buffer per nmsg_send_message(): it copies the message into start_buf,   *)
(* registers that buffer under a new key and sends the key.  The server    *)
(* thread takes the key, reads the buffer with an RDMA READ, shows it, and *)
(* sends a "go ahead" that invalidates the key.                            *)
(*                                                                         *)
(* Each end runs three things that share its cb->state without a lock: the *)
(* thread, the connection-manager (CM) event handler and the completion    *)
(* queue (CQ) handler.  Each action is what one of them does between two   *)
(* points where another can step in.  The adapters (queue pairs, memory    *)
(* region, delivery) are external.                                         *)
(***************************************************************************)
EXTENDS Integers, Sequences, Functions

CONSTANTS
    MaxMsgs,    \* bound on the calls of nmsg_send_message()
    MaxFaults   \* bound on link losses, device removals and second clients

Side == {"client", "server"}

ASSUME LinkAssumption ==
    /\ MaxMsgs \in Nat
    /\ MaxFaults \in Nat

VARIABLES
    state,        \* cb->state of each end
    pc,           \* where the thread of each end is
    ev,           \* CM events not yet delivered to an end
    qp,           \* the queue pair: none, init, up or err
    sq,           \* posted work requests the adapter has not executed
    recv,         \* is a receive posted?
    cq,           \* completions not yet polled
    arm,          \* the CQ's next call of its handler: off, armed, or due (event)
    cqh,          \* where the CQ handler of each end is
    decided,      \* the state server_recv() or client_recv() is about to set
    requested,    \* does the server's CM know of the connection?
    key,          \* the client's registration key
    start_buf,    \* the message in the client's buffer
    mr,           \* the key under which that buffer is registered, or 0
    remote_rkey,  \* the key the server received last
    rdma_buf,     \* what the server read last, and under which key
    shown,        \* what the server printed, in order
    posted,       \* messages for which nmsg_send_message() returned 0
    made,         \* did make_message() post its REG_MR?
    stray,        \* has a key been sent whose REG_MR was not posted?
    hasty,        \* has a caller not waited for the last go ahead?
    lost,         \* has an ERROR of the server's connection been overwritten?
    second,       \* has a second client asked for a connection?
    faults,       \* link losses, device removals and second clients so far
    res           \* what each end has allocated for the connection

adapter == <<qp, sq, recv, cq, mr>>

handler == <<arm, cqh, decided>>

session == <<requested, key, start_buf, remote_rkey, rdma_buf, shown, posted, made, stray,
             hasty, lost, second>>

link == <<session, faults>>

vars == <<state, pc, ev, adapter, handler, res, link>>

Peer(sd) == IF sd = "client" THEN "server" ELSE "client"

-----------------------------------------------------------------------------
(***************************************************************************)
(* enum nmsg_state.  Its order matters: the waits compare with >=.         *)
(***************************************************************************)
IDLE == 1

CONNECT_REQUEST == 2

ADDR_RESOLVED == 3

ROUTE_RESOLVED == 4

CONNECTED == 5

RDMA_READ_ADV == 6

RDMA_READ_COMPLETE == 7

RDMA_WRITE_ADV == 8

RDMA_WRITE_COMPLETE == 9

ERROR == 10

CmEvent == {"ADDR_RESOLVED", "ROUTE_RESOLVED", "CONNECT_REQUEST", "ESTABLISHED", "FAILURE"}

Msg == 1..MaxMsgs

Key == 0..MaxMsgs

Request == [op : {"reg", "send", "read"}, key : Msg]

Completion == [op : {"read", "recv", "error"}, key : Key]

ClientPC == {"start", "bind", "setup", "connect", "connecting", "ready",
             "make", "send", "failed", "closed", "undefined"}

ServerPC == {"request", "setup", "accept", "accepting", "adv", "read", "reset", "goahead",
             "teardown", "done", "other", "undefined"}

(***************************************************************************)
(* The client before nmsg_init_client(), the server after                  *)
(* nmsg_start_server(): listening, its thread started.                     *)
(***************************************************************************)
Init ==
    /\ state = [sd \in Side |-> IDLE]
    /\ pc = [client |-> "start", server |-> "request"]
    /\ ev = [sd \in Side |-> <<>>]
    /\ qp = [sd \in Side |-> "none"]
    /\ sq = [sd \in Side |-> <<>>]
    /\ recv = [sd \in Side |-> FALSE]
    /\ cq = [sd \in Side |-> <<>>]
    /\ arm = [sd \in Side |-> "off"]
    /\ cqh = [sd \in Side |-> "out"]
    /\ decided = [sd \in Side |-> IDLE]
    /\ requested = FALSE
    /\ key = 0
    /\ start_buf = 0
    /\ mr = 0
    /\ remote_rkey = 0
    /\ rdma_buf = [key |-> 0, data |-> 0]
    /\ shown = <<>>
    /\ posted = {}
    /\ made = TRUE
    /\ stray = FALSE
    /\ hasty = FALSE
    /\ lost = FALSE
    /\ second = FALSE
    /\ faults = 0
    /\ res = [sd \in Side |-> {}]

-----------------------------------------------------------------------------
(***************************************************************************)
(* The adapters.                                                           *)
(***************************************************************************)

(***************************************************************************)
(* ib_post_send(): a queue pair in the error state takes the request and   *)
(* flushes it; the CQ handlers skip flushed completions.                   *)
(***************************************************************************)
Post(sd, requests) ==
    sq' = IF qp[sd] = "up" THEN [sq EXCEPT ![sd] = @ \o requests] ELSE sq

Executed(sd) == [sq EXCEPT ![sd] = Tail(@)]

(***************************************************************************)
(* Completions are queued at the ends in S; an armed queue is due to call  *)
(* its handler.  The completion of a SEND is not kept: the handler is      *)
(* called for it and only counts it.                                       *)
(***************************************************************************)
Completed(sd, op, k) == [cq EXCEPT ![sd] = Append(@, [op |-> op, key |-> k])]

Notified(S) == arm' = [sd \in Side |-> IF sd \in S /\ arm[sd] = "armed" THEN "event" ELSE arm[sd]]

(***************************************************************************)
(* A request fails: its queue pair goes to the error state, and the        *)
(* failed completion is queued.  When the peer refused the request, the    *)
(* peer's queue pair is in error as well.                                  *)
(***************************************************************************)
Break(sd, refused) ==
    /\ qp' = [s \in Side |-> IF s = sd \/ (refused /\ qp[s] = "up") THEN "err" ELSE qp[s]]
    /\ sq' = [s \in Side |-> IF s = sd \/ refused THEN <<>> ELSE sq[s]]
    /\ cq' = Completed(sd, "error", 0)
    /\ Notified({sd})
    /\ UNCHANGED <<recv, mr>>

\* What ends or disturbs a connection from outside, at most MaxFaults times.
Faulty == faults < MaxFaults /\ faults' = faults + 1

AtHead(sd, op) == qp[sd] = "up" /\ sq[sd] # <<>> /\ Head(sq[sd]).op = op

(***************************************************************************)
(* The client's REG_MR: a region that is still valid cannot be registered. *)
(***************************************************************************)
NicReg ==
    /\ AtHead("client", "reg")
    /\ IF mr = 0
         THEN /\ mr' = Head(sq["client"]).key
              /\ sq' = Executed("client")
              /\ UNCHANGED <<qp, recv, cq, arm>>
         ELSE Break("client", FALSE)
    /\ UNCHANGED <<state, pc, ev, cqh, decided, res, link>>

(***************************************************************************)
(* A message arrives.  conn_param leaves rnr_retry_count at 0: with no     *)
(* receive posted the send fails.  The server's messages are               *)
(* SEND_WITH_INV: they invalidate the client's region, whose key they must *)
(* name.                                                                   *)
(***************************************************************************)
NicSend(sd) ==
    /\ AtHead(sd, "send")
    /\ LET k == Head(sq[sd]).key
           to == Peer(sd)
           ready == qp[to] = "up" /\ recv[to]
           refused == sd = "server" /\ mr # k
       IN  IF ready /\ ~refused
             THEN /\ cq' = Completed(to, "recv", k)
                  /\ recv' = [recv EXCEPT ![to] = FALSE]
                  /\ mr' = IF sd = "server" THEN 0 ELSE mr
                  /\ sq' = Executed(sd)
                  /\ Notified(Side)
                  /\ UNCHANGED qp
             ELSE Break(sd, ready)
    /\ UNCHANGED <<state, pc, ev, cqh, decided, res, link>>

(***************************************************************************)
(* The server's RDMA READ takes what is in the client's buffer now.        *)
(***************************************************************************)
NicRead ==
    /\ AtHead("server", "read")
    /\ LET k == Head(sq["server"]).key
       IN  IF qp["client"] = "up" /\ mr = k
             THEN /\ rdma_buf' = [key |-> k, data |-> start_buf]
                  /\ cq' = Completed("server", "read", k)
                  /\ sq' = Executed("server")
                  /\ Notified({"server"})
                  /\ UNCHANGED <<qp, recv, mr>>
             ELSE Break("server", TRUE) /\ UNCHANGED rdma_buf
    /\ UNCHANGED <<state, pc, ev, cqh, decided, res, requested, key, start_buf,
                   remote_rkey, shown, posted, made, stray, hasty, lost, second, faults>>

(***************************************************************************)
(* The fabric gives a request up after its retries.                        *)
(***************************************************************************)
LinkLoss(sd) ==
    /\ Faulty
    /\ qp[sd] = "up" /\ sq[sd] # <<>>
    /\ Break(sd, FALSE)
    /\ UNCHANGED <<state, pc, ev, cqh, decided, res, session>>

-----------------------------------------------------------------------------
(***************************************************************************)
(* CM events.                                                              *)
(***************************************************************************)

SetState(sd, s) == state' = [state EXCEPT ![sd] = s]

\* What the server's end does when it sets its state without a look at it.
Overwrites == lost' = (lost \/ state["server"] = ERROR)

Goto(sd, l) == pc' = [pc EXCEPT ![sd] = l]

(***************************************************************************)
(* The client's handler.  When rdma_resolve_route() fails it wakes the     *)
(* waiting thread and leaves the state at ADDR_RESOLVED.  ESTABLISHED      *)
(* means that the adapter is ready to send, and that the server's CM will  *)
(* be told.                                                                *)
(***************************************************************************)
ClientCmEvent ==
    /\ ev["client"] # <<>>
    /\ "cm_id" \in res["client"]
    /\ LET e == Head(ev["client"])
           rest == [ev EXCEPT !["client"] = Tail(@)]
       IN  \/ /\ e = "ADDR_RESOLVED"
              /\ SetState("client", ADDR_RESOLVED)
              /\ \/ \E route \in {"ROUTE_RESOLVED", "FAILURE"} :
                       ev' = [rest EXCEPT !["client"] = Append(@, route)]
                 \/ ev' = rest
              /\ UNCHANGED qp
           \/ /\ e = "ROUTE_RESOLVED"
              /\ SetState("client", ROUTE_RESOLVED)
              /\ ev' = rest
              /\ UNCHANGED qp
           \/ /\ e = "ESTABLISHED"
              /\ SetState("client", CONNECTED)
              /\ IF qp["client"] = "init"
                   THEN /\ qp' = [qp EXCEPT !["client"] = "up"]
                        /\ ev' = [rest EXCEPT !["server"] = Append(@, "ESTABLISHED")]
                   ELSE ev' = rest /\ UNCHANGED qp
           \/ /\ e = "FAILURE"
              /\ SetState("client", ERROR)
              /\ ev' = rest
              /\ UNCHANGED qp
    /\ UNCHANGED <<pc, sq, recv, cq, mr, handler, res, link>>

(***************************************************************************)
(* Mutant: ESTABLISHED sets the state its log message announces.           *)
(***************************************************************************)
ServerEstablishedSets ==
    /\ ev["server"] # <<>>
    /\ pc["server"] \notin {"done", "other", "undefined"}
    /\ ev' = [ev EXCEPT !["server"] = Tail(@)]
    /\ LET e == Head(ev["server"])
       IN  \/ /\ e = "CONNECT_REQUEST"
              /\ SetState("server", CONNECT_REQUEST)
              /\ res' = [res EXCEPT !["server"] = @ \cup {"child_cm_id"}]
           \/ e = "ESTABLISHED" /\ SetState("server", CONNECTED) /\ UNCHANGED res
           \/ e = "FAILURE" /\ SetState("server", ERROR) /\ UNCHANGED res
    /\ UNCHANGED <<pc, adapter, handler, link>>

(***************************************************************************)
(* The server's handler.  ESTABLISHED leaves the state alone.  (Events     *)
(* that come after nmsg_start() has freed its connection are not followed: *)
(* nothing of the connection is left that they could change.)              *)
(***************************************************************************)
ServerCmEvent ==
    /\ ev["server"] # <<>>
    /\ pc["server"] \notin {"done", "other", "undefined"}
    /\ ev' = [ev EXCEPT !["server"] = Tail(@)]
    /\ LET e == Head(ev["server"])
       IN  \/ /\ e = "CONNECT_REQUEST"
              /\ SetState("server", CONNECT_REQUEST)
              /\ res' = [res EXCEPT !["server"] = @ \cup {"child_cm_id"}]
           \/ e = "ESTABLISHED" /\ UNCHANGED state /\ UNCHANGED res
           \/ e = "FAILURE" /\ SetState("server", ERROR) /\ UNCHANGED res
    /\ UNCHANGED <<pc, adapter, handler, link>>

(***************************************************************************)
(* The request of a second client reaches the same handler, which sets     *)
(* state and child_cm_id whatever the thread is doing for the first.       *)
(* (That client's call and the event it causes are one step here.)         *)
(***************************************************************************)
SecondRequest ==
    /\ Faulty
    /\ "child_cm_id" \in res["server"] /\ ~second
    /\ pc["server"] \notin {"done", "other", "undefined"}
    /\ second' = TRUE
    /\ SetState("server", CONNECT_REQUEST)
    /\ Overwrites
    /\ UNCHANGED <<pc, ev, adapter, handler, res, requested, key, start_buf, remote_rkey,
                   rdma_buf, shown, posted, made, stray, hasty>>

(***************************************************************************)
(* RDMA_CM_EVENT_DEVICE_REMOVAL.                                           *)
(***************************************************************************)
DeviceRemoval(sd) ==
    /\ Faulty
    /\ IF sd = "client" THEN "cm_id" \in res["client"]
                        ELSE pc["server"] \notin {"done", "other", "undefined"}
    /\ SetState(sd, ERROR)
    /\ qp' = [qp EXCEPT ![sd] = IF @ = "none" THEN @ ELSE "err"]
    /\ sq' = [sq EXCEPT ![sd] = <<>>]
    /\ UNCHANGED <<pc, ev, recv, cq, mr, handler, res, session>>

-----------------------------------------------------------------------------
(***************************************************************************)
(* Completions: nmsg_cq_event_handler(), one round of its loop at a time.  *)
(***************************************************************************)

(***************************************************************************)
(* The call.  ERROR is looked at here and nowhere later: in that state the *)
(* handler returns, and without ib_req_notify_cq() no call follows.        *)
(***************************************************************************)
CqEnter(sd) ==
    /\ cqh[sd] = "out" /\ arm[sd] = "event"
    /\ \/ /\ state[sd] = ERROR
          /\ arm' = [arm EXCEPT ![sd] = "off"]
          /\ UNCHANGED cqh
       \/ /\ state[sd] # ERROR
          /\ arm' = [arm EXCEPT ![sd] = "armed"]
          /\ cqh' = [cqh EXCEPT ![sd] = "poll"]
    /\ UNCHANGED <<state, pc, ev, adapter, decided, res, link>>

(***************************************************************************)
(* Mutant: the client takes the end of its SEND for the go ahead.          *)
(***************************************************************************)
CqSendIsGoAhead(sd) ==
    /\ cqh[sd] = "poll" /\ cq[sd] = <<>>
    /\ cqh' = [cqh EXCEPT ![sd] = "out"]
    /\ IF sd = "client" THEN SetState(sd, RDMA_WRITE_ADV) ELSE UNCHANGED state
    /\ UNCHANGED <<pc, ev, adapter, arm, decided, res, link>>

(***************************************************************************)
(* The queue is empty, the handler returns.                                *)
(***************************************************************************)
CqLeave(sd) ==
    /\ cqh[sd] = "poll" /\ cq[sd] = <<>>
    /\ cqh' = [cqh EXCEPT ![sd] = "out"]
    /\ UNCHANGED <<state, pc, ev, adapter, arm, decided, res, link>>

Polls(sd, op) ==
    /\ cqh[sd] = "poll"
    /\ cq[sd] # <<>> /\ Head(cq[sd]).op = op
    /\ cq' = [cq EXCEPT ![sd] = Tail(@)]

(***************************************************************************)
(* The READ is done, whatever the state is by now.                         *)
(***************************************************************************)
CqRead ==
    /\ Polls("server", "read")
    /\ SetState("server", RDMA_READ_COMPLETE)
    /\ Overwrites
    /\ UNCHANGED <<pc, ev, qp, sq, recv, mr, handler, res, requested, key, start_buf, remote_rkey,
                   rdma_buf, shown, posted, made, stray, hasty, second, faults>>

client_recv(s) == IF s = RDMA_READ_ADV THEN RDMA_WRITE_ADV ELSE RDMA_WRITE_COMPLETE

server_recv(s) ==
    IF s <= CONNECTED \/ s = RDMA_WRITE_COMPLETE THEN RDMA_READ_ADV ELSE RDMA_WRITE_ADV

Decides(sd, s) ==
    /\ cqh' = [cqh EXCEPT ![sd] = "recv"]
    /\ decided' = [decided EXCEPT ![sd] = s]
    /\ UNCHANGED arm

(***************************************************************************)
(* server_recv() and client_recv() look at the state; ...                  *)
(***************************************************************************)
ClientCqRecv ==
    /\ Polls("client", "recv")
    /\ Decides("client", client_recv(state["client"]))
    /\ UNCHANGED <<state, pc, ev, qp, sq, recv, mr, res, link>>

ServerCqRecv ==
    /\ Polls("server", "recv")
    /\ remote_rkey' = Head(cq["server"]).key
    /\ Decides("server", server_recv(state["server"]))
    /\ UNCHANGED <<state, pc, ev, qp, sq, recv, mr, res, requested, key, start_buf, rdma_buf,
                   shown, posted, made, stray, hasty, lost, second, faults>>

(***************************************************************************)
(* ... and set it.                                                         *)
(***************************************************************************)
CqSet(sd) ==
    /\ cqh[sd] = "recv"
    /\ SetState(sd, decided[sd])
    /\ IF sd = "server" THEN Overwrites ELSE UNCHANGED lost
    /\ decided' = [decided EXCEPT ![sd] = IDLE]
    /\ cqh' = [cqh EXCEPT ![sd] = "post"]
    /\ UNCHANGED <<pc, ev, adapter, arm, res, requested, key, start_buf, remote_rkey, rdma_buf,
                   shown, posted, made, stray, hasty, second, faults>>

(***************************************************************************)
(* Mutant: the handler forgets to post the next receive.                   *)
(***************************************************************************)
CqRepostMissing(sd) ==
    /\ cqh[sd] = "post"
    /\ cqh' = [cqh EXCEPT ![sd] = "poll"]
    /\ UNCHANGED <<state, pc, ev, adapter, arm, decided, res, link>>

(***************************************************************************)
(* ib_post_recv() after a message; it may fail, which ends the call.       *)
(***************************************************************************)
CqRepost(sd) ==
    /\ cqh[sd] = "post"
    /\ \/ /\ recv' = [recv EXCEPT ![sd] = qp[sd] = "up"]
          /\ cqh' = [cqh EXCEPT ![sd] = "poll"]
          /\ UNCHANGED state
       \/ /\ SetState(sd, ERROR)
          /\ cqh' = [cqh EXCEPT ![sd] = "out"]
          /\ UNCHANGED recv
    /\ UNCHANGED <<pc, ev, qp, sq, cq, mr, arm, decided, res, link>>

(***************************************************************************)
(* A failed completion ends the call.                                      *)
(***************************************************************************)
CqError(sd) ==
    /\ Polls(sd, "error")
    /\ SetState(sd, ERROR)
    /\ cqh' = [cqh EXCEPT ![sd] = "out"]
    /\ UNCHANGED <<pc, ev, qp, sq, recv, mr, arm, decided, res, link>>

-----------------------------------------------------------------------------
(***************************************************************************)
(* The client's calls.                                                     *)
(***************************************************************************)

(***************************************************************************)
(* nmsg_setup_qp() and nmsg_setup_buffers(): what they allocate, in order. *)
(* The last step of the set-up, ib_post_recv(), allocates nothing.         *)
(***************************************************************************)
SetupOrder(sd) ==
    <<"pd", "cq", "qp", "dma">> \o IF sd = "client" THEN <<"mr", "buf">> ELSE <<"buf", "mr">>

Made(sd) ==
    /\ qp' = [qp EXCEPT ![sd] = "init"]
    /\ recv' = [recv EXCEPT ![sd] = TRUE]
    /\ arm' = [arm EXCEPT ![sd] = "armed"]
    /\ res' = [res EXCEPT ![sd] = @ \cup Range(SetupOrder(sd))]
    /\ UNCHANGED <<sq, cq, cqh, decided, mr>>

nmsg_free_buffers(R) == R \ {"mr", "dma", "buf"}

nmsg_free_qp(R) == R \ {"qp", "cq", "pd"}

\* Mutant: a failure of ib_post_recv() leaves by the label before.
CleanupShort(k, R) ==
    CASE k <= 3 -> R \ {"cq", "pd"}
      [] k \in {5, 6} -> nmsg_free_qp(R \ {"mr", "buf"})
      [] k = 7 -> nmsg_free_qp(R)

(***************************************************************************)
(* The set-up fails at step k, having made R: the labels err1, err2 and    *)
(* bail.  bail does not unmap the two DMA buffers (which cannot fail).     *)
(***************************************************************************)
Cleanup(k, R) ==
    CASE k <= 3 -> R \ {"cq", "pd"}
      [] k \in {5, 6} -> nmsg_free_qp(R \ {"mr", "buf"})
      [] k = 7 -> nmsg_free_qp(nmsg_free_buffers(R))

(***************************************************************************)
(* At step 5 the code at bail looks at the pointer of step 6, which        *)
(* kmalloc() left as it was: it may free anything.  ids: the cm_ids the    *)
(* caller destroys then.                                                   *)
(***************************************************************************)
SetupFails(sd, l, ids) ==
    \E k \in {1, 2, 3, 5, 6, 7} :
        /\ res' = [res EXCEPT ![sd] = Cleanup(k, @ \cup Range(SubSeq(SetupOrder(sd), 1, k - 1))) \ ids]
        /\ Goto(sd, l) \/ (k = 5 /\ Goto(sd, "undefined"))
        /\ UNCHANGED <<adapter, handler>>

(***************************************************************************)
(* nmsg_free_buffers() and nmsg_free_qp(), and the cm_ids destroyed with   *)
(* them.  ib_destroy_cq() waits for the CQ handler; what that handler does *)
(* between ib_destroy_qp() and there has no model.                         *)
(***************************************************************************)
Freed(sd, ids) ==
    /\ qp' = [qp EXCEPT ![sd] = "none"]
    /\ sq' = [sq EXCEPT ![sd] = <<>>]
    /\ cq' = [cq EXCEPT ![sd] = <<>>]
    /\ recv' = [recv EXCEPT ![sd] = FALSE]
    /\ arm' = [arm EXCEPT ![sd] = "off"]
    /\ cqh' = [cqh EXCEPT ![sd] = "out"]
    /\ decided' = [decided EXCEPT ![sd] = IDLE]
    /\ mr' = IF sd = "client" THEN 0 ELSE mr
    /\ res' = [res EXCEPT ![sd] = nmsg_free_qp(nmsg_free_buffers(@)) \ ids]

(***************************************************************************)
(* Mutant: the return value of rdma_resolve_addr() is not looked at.       *)
(***************************************************************************)
ResolveUnchecked ==
    /\ pc["client"] = "start"
    /\ Goto("client", "bind")
    /\ res' = [res EXCEPT !["client"] = {"cm_id"}]
    /\ \/ \E e \in {"ADDR_RESOLVED", "FAILURE"} : ev' = [ev EXCEPT !["client"] = Append(@, e)]
       \/ UNCHANGED ev
    /\ UNCHANGED <<state, adapter, handler, link>>

(***************************************************************************)
(* nmsg_pre_start() up to rdma_resolve_addr(), which answers by an event.  *)
(* No failure from here on destroys cm_id: it stays, and so may its events *)
(* still come.                                                             *)
(***************************************************************************)
ResolveAddr ==
    /\ pc["client"] = "start"
    /\ \/ Goto("client", "failed") /\ UNCHANGED <<ev, res>>  \* rdma_create_id() fails
       \/ /\ res' = [res EXCEPT !["client"] = {"cm_id"}]
          /\ \/ Goto("client", "failed") /\ UNCHANGED ev
             \/ /\ Goto("client", "bind")
                /\ \E e \in {"ADDR_RESOLVED", "FAILURE"} :
                      ev' = [ev EXCEPT !["client"] = Append(@, e)]
    /\ UNCHANGED <<state, adapter, handler, link>>

(***************************************************************************)
(* The wait in nmsg_bind_client() ends; the device may lack fast           *)
(* registration.                                                           *)
(***************************************************************************)
nmsg_bind_client ==
    /\ pc["client"] = "bind"
    /\ state["client"] >= ROUTE_RESOLVED
    /\ \/ state["client"] = ROUTE_RESOLVED /\ Goto("client", "setup")
       \/ Goto("client", "failed")
    /\ UNCHANGED <<state, ev, adapter, handler, res, link>>

(***************************************************************************)
(* A signal ends a wait; its return value is ignored, so what counts is    *)
(* the state.  Not ROUTE_RESOLVED is a failure, not ERROR is a success.    *)
(***************************************************************************)
BindInterrupted ==
    /\ pc["client"] = "bind"
    /\ state["client"] < ROUTE_RESOLVED
    /\ Goto("client", "failed")
    /\ UNCHANGED <<state, ev, adapter, handler, res, link>>

ConnectInterrupted ==
    /\ pc["client"] = "connecting"
    /\ state["client"] < CONNECTED
    /\ Goto("client", "ready")
    /\ UNCHANGED <<state, ev, adapter, handler, res, link>>

ClientSetup ==
    /\ pc["client"] = "setup"
    /\ \/ Goto("client", "connect") /\ Made("client")
       \/ SetupFails("client", "failed", {})
    /\ UNCHANGED <<state, ev, link>>

(***************************************************************************)
(* rdma_connect(): it fails at once, or the server is told, or an event    *)
(* says that the server cannot be reached.                                 *)
(***************************************************************************)
Connect ==
    /\ pc["client"] = "connect"
    /\ \/ Goto("client", "failed") /\ Freed("client", {}) /\ UNCHANGED <<ev, requested>>
       \/ /\ Goto("client", "connecting")
          /\ \/ /\ ev' = [ev EXCEPT !["server"] = Append(@, "CONNECT_REQUEST")]
                /\ requested' = TRUE
             \/ /\ ev' = [ev EXCEPT !["client"] = Append(@, "FAILURE")]
                /\ UNCHANGED requested
          /\ UNCHANGED <<adapter, handler, res>>
    /\ UNCHANGED <<state, key, start_buf, remote_rkey, rdma_buf, shown, posted, made, stray,
                   hasty, lost, second, faults>>

nmsg_connect_client ==
    /\ pc["client"] = "connecting"
    /\ state["client"] >= CONNECTED
    /\ IF state["client"] = ERROR
         THEN Goto("client", "failed") /\ Freed("client", {})
         ELSE Goto("client", "ready") /\ UNCHANGED <<adapter, handler, res>>
    /\ UNCHANGED <<state, ev, link>>

(***************************************************************************)
(* nmsg_send_message(): state and buffer are set without a look at either. *)
(* The caller may have seen the go ahead of its last message by now.       *)
(***************************************************************************)
SendStart ==
    /\ pc["client"] = "ready"
    /\ key < MaxMsgs
    /\ hasty' = (hasty \/ state["client"] \notin {CONNECTED, RDMA_WRITE_ADV, RDMA_WRITE_COMPLETE})
    /\ SetState("client", RDMA_READ_ADV)
    /\ start_buf' = key + 1
    /\ Goto("client", "make")
    /\ UNCHANGED <<ev, adapter, handler, res, requested, key, remote_rkey, rdma_buf,
                   shown, posted, made, stray, lost, second, faults>>

(***************************************************************************)
(* The request that registers start_buf anew; its key is what is sent.     *)
(***************************************************************************)
make_message(k) == [op |-> "reg", key |-> k]

(***************************************************************************)
(* make_message().  Posting to a queue pair that is not connected fails,   *)
(* and so may any posting; a failure is told by the state alone.           *)
(***************************************************************************)
MakeMessage ==
    /\ pc["client"] = "make"
    /\ Goto("client", "send")
    /\ key' = key + 1
    /\ \/ SetState("client", ERROR) /\ made' = FALSE /\ UNCHANGED sq
       \/ /\ qp["client"] # "init"
          /\ Post("client", <<make_message(key + 1)>>)
          /\ UNCHANGED <<state, made>>
    /\ UNCHANGED <<ev, qp, recv, cq, mr, handler, res, requested, start_buf, remote_rkey, rdma_buf,
                   shown, posted, stray, hasty, lost, second, faults>>

(***************************************************************************)
(* The look at the state, which an event or the CQ handler may have set    *)
(* since, and the SEND of the key, registered or not.  (Nothing that comes *)
(* between the look and the post changes what the post does.)              *)
(***************************************************************************)
SendMessage ==
    /\ pc["client"] = "send"
    /\ Goto("client", "ready")
    /\ made' = TRUE
    /\ \/ UNCHANGED <<sq, posted, stray>>
       \/ /\ state["client"] # ERROR /\ qp["client"] # "init"
          /\ Post("client", <<[op |-> "send", key |-> key]>>)
          /\ posted' = posted \cup {key}
          /\ stray' = (stray \/ ~made)
    /\ UNCHANGED <<state, ev, qp, recv, cq, mr, handler, res, requested, key, start_buf, remote_rkey,
                   rdma_buf, shown, hasty, lost, second, faults>>

(***************************************************************************)
(* nmsg_destroy_client() after a successful nmsg_init_client(): the server *)
(* is told by an event.                                                    *)
(***************************************************************************)
nmsg_destroy_client ==
    /\ pc["client"] = "ready"
    /\ Goto("client", "closed")
    /\ Freed("client", {"cm_id"})
    /\ SetState("client", IDLE)    \* cb is gone
    /\ ev' = [client |-> <<>>,
              server |-> IF requested THEN Append(ev["server"], "FAILURE") ELSE ev["server"]]
    /\ UNCHANGED link

-----------------------------------------------------------------------------
(***************************************************************************)
(* The server thread: nmsg_start().                                        *)
(***************************************************************************)

(***************************************************************************)
(* nmsg_server_setup() returns 0 when nmsg_connect_client() failed, and    *)
(* nmsg_start() goes on with pointers never set.                           *)
(***************************************************************************)
ServerRequest ==
    /\ pc["server"] = "request"
    /\ state["server"] >= CONNECT_REQUEST
    /\ \/ state["server"] = CONNECT_REQUEST /\ Goto("server", "setup")
       \/ Goto("server", "undefined")
    /\ UNCHANGED <<state, ev, adapter, handler, res, link>>

(***************************************************************************)
(* When the setup fails, destroying child_cm_id rejects the client.        *)
(***************************************************************************)
ServerSetup ==
    /\ pc["server"] = "setup" /\ ~second
    /\ \/ Goto("server", "accept") /\ Made("server") /\ UNCHANGED ev
       \/ /\ SetupFails("server", "done", {"child_cm_id"})
          /\ ev' = [ev EXCEPT !["client"] = Append(@, "FAILURE")]
    /\ UNCHANGED <<state, link>>

(***************************************************************************)
(* child_cm_id names the second client by now, and it is that client's     *)
(* connection that is set up or accepted.  What follows has no model.      *)
(***************************************************************************)
ServeSecond ==
    /\ pc["server"] \in {"setup", "accept"} /\ second
    /\ Goto("server", "other")
    /\ UNCHANGED <<state, ev, adapter, handler, res, link>>

Accept ==
    /\ pc["server"] = "accept" /\ ~second
    /\ \/ /\ qp["server"] = "init"
          /\ Goto("server", "accepting")
          /\ qp' = [qp EXCEPT !["server"] = "up"]
          /\ ev' = [ev EXCEPT !["client"] = Append(@, "ESTABLISHED")]
       \/ Goto("server", "teardown") /\ UNCHANGED <<qp, ev>>
    /\ UNCHANGED <<state, sq, recv, cq, mr, handler, res, link>>

(***************************************************************************)
(* The wait of nmsg_accept().                                              *)
(***************************************************************************)
nmsg_accept ==
    /\ pc["server"] = "accepting"
    /\ state["server"] >= CONNECTED
    /\ Goto("server", IF state["server"] = ERROR THEN "teardown" ELSE "adv")
    /\ UNCHANGED <<state, ev, adapter, handler, res, link>>

(***************************************************************************)
(* Mutants: the loop waits for nothing but the advertisement, or           *)
(* it sends the go ahead ahead of the READ.                                *)
(***************************************************************************)
ReadOnlyAdvertised ==
    /\ pc["server"] = "adv"
    /\ state["server"] = RDMA_READ_ADV
    /\ Goto("server", "read")
    /\ Post("server", <<[op |-> "read", key |-> remote_rkey]>>)
    /\ UNCHANGED <<state, ev, qp, recv, cq, mr, handler, res, link>>

GoAheadFirst ==
    /\ pc["server"] = "adv"
    /\ state["server"] >= RDMA_READ_ADV
    /\ \/ /\ state["server"] # RDMA_READ_ADV
          /\ Goto("server", "teardown")
          /\ UNCHANGED sq
       \/ /\ state["server"] = RDMA_READ_ADV
          /\ Goto("server", "read")
          /\ Post("server", <<[op |-> "send", key |-> remote_rkey],
                              [op |-> "read", key |-> remote_rkey]>>)
    /\ UNCHANGED <<state, ev, qp, recv, cq, mr, handler, res, link>>

(***************************************************************************)
(* nmsg_run_server() up to the RDMA READ.  The registration of the         *)
(* server's own buffer may fail: it sets ERROR, which is not looked at     *)
(* before the READ is posted.                                              *)
(***************************************************************************)
ReadAdvertised ==
    /\ pc["server"] = "adv"
    /\ state["server"] >= RDMA_READ_ADV
    /\ \/ /\ state["server"] # RDMA_READ_ADV
          /\ Goto("server", "teardown")
          /\ UNCHANGED <<state, sq>>
       \/ /\ state["server"] = RDMA_READ_ADV
          /\ UNCHANGED state \/ SetState("server", ERROR)
          /\ \/ /\ Goto("server", "read")
                /\ Post("server", <<[op |-> "read", key |-> remote_rkey]>>)
             \/ Goto("server", "teardown") /\ UNCHANGED sq
    /\ UNCHANGED <<ev, qp, recv, cq, mr, handler, res, link>>

(***************************************************************************)
(* Mutant: the thread does not wait for the READ.                          *)
(***************************************************************************)
ReadNotAwaited ==
    /\ pc["server"] = "read"
    /\ Goto("server", "reset")
    /\ shown' = Append(shown, rdma_buf)
    /\ UNCHANGED <<state, ev, adapter, handler, res, requested, key, start_buf, remote_rkey,
                   rdma_buf, posted, made, stray, hasty, lost, second, faults>>

(***************************************************************************)
(* The wait for the READ; any other state returns 0, which starts the loop *)
(* again.  (A wait and the look at the state behind it are one step, here  *)
(* and in the other waits: a state set in between is one the wait could    *)
(* have ended in as well, or is met by the next wait.)                     *)
(***************************************************************************)
ReadCompleted ==
    /\ pc["server"] = "read"
    /\ state["server"] >= RDMA_READ_COMPLETE
    /\ IF state["server"] = RDMA_READ_COMPLETE
         THEN Goto("server", "reset") /\ shown' = Append(shown, rdma_buf)
         ELSE Goto("server", "adv") /\ UNCHANGED shown
    /\ UNCHANGED <<state, ev, adapter, handler, res, requested, key, start_buf, remote_rkey,
                   rdma_buf, posted, made, stray, hasty, lost, second, faults>>

(***************************************************************************)
(* Mutant: the state is not reset before the go ahead.                     *)
(***************************************************************************)
ResetMissing ==
    /\ pc["server"] = "reset"
    /\ Goto("server", "goahead")
    /\ UNCHANGED <<state, ev, adapter, handler, res, link>>

(***************************************************************************)
(* The thread is ready for the next advertisement before it asks for it.   *)
(* The assignment does not look at what it overwrites.                     *)
(***************************************************************************)
ResetConnected ==
    /\ pc["server"] = "reset"
    /\ SetState("server", CONNECTED)
    /\ Goto("server", "goahead")
    /\ Overwrites
    /\ UNCHANGED <<ev, adapter, handler, res, requested, key, start_buf, remote_rkey,
                   rdma_buf, shown, posted, made, stray, hasty, second, faults>>

GoAhead ==
    /\ pc["server"] = "goahead"
    /\ \/ /\ Goto("server", "adv")
          /\ Post("server", <<[op |-> "send", key |-> remote_rkey]>>)
       \/ Goto("server", "teardown") /\ UNCHANGED sq
    /\ UNCHANGED <<state, ev, qp, recv, cq, mr, handler, res, link>>

(***************************************************************************)
(* The end of nmsg_start(); destroying child_cm_id disconnects the client, *)
(* the second one if there is one.                                         *)
(***************************************************************************)
Teardown ==
    /\ pc["server"] = "teardown"
    /\ Goto("server", "done")
    /\ Freed("server", IF second THEN {} ELSE {"child_cm_id"})
    /\ ev' = [client |-> IF second THEN ev["client"] ELSE Append(ev["client"], "FAILURE"),
              server |-> <<>>]
    /\ UNCHANGED <<state, link>>

(***************************************************************************)
(* nmsg_stop_server() frees queue pair, buffers and cb.  The thread, which *)
(* its signal does not end, goes on with freed memory; if it has ended, it *)
(* has freed them already.                                                 *)
(***************************************************************************)
nmsg_stop_server ==
    /\ pc["server"] # "undefined"
    /\ Goto("server", "undefined")
    /\ Freed("server", {})
    /\ ev' = [ev EXCEPT !["server"] = <<>>]
    /\ UNCHANGED <<state, link>>

-----------------------------------------------------------------------------
ServerThread ==
    \/ ServerRequest \/ ServerSetup \/ ServeSecond \/ Accept \/ nmsg_accept
    \/ ReadAdvertised \/ ReadCompleted \/ ResetConnected \/ GoAhead \/ Teardown

ClientThread ==
    \/ nmsg_bind_client \/ ClientSetup \/ Connect \/ nmsg_connect_client
    \/ MakeMessage \/ SendMessage

Caller ==
    \/ ResolveAddr \/ SendStart \/ nmsg_destroy_client \/ nmsg_stop_server \/ SecondRequest
    \/ BindInterrupted \/ ConnectInterrupted

Nic(sd) ==
    \/ NicSend(sd)
    \/ sd = "client" /\ NicReg
    \/ sd = "server" /\ NicRead

CqHandler(sd) ==
    \/ CqEnter(sd) \/ CqLeave(sd) \/ CqSet(sd) \/ CqRepost(sd) \/ CqError(sd)
    \/ sd = "server" /\ (CqRead \/ ServerCqRecv)
    \/ sd = "client" /\ ClientCqRecv

Fault == \E sd \in Side : LinkLoss(sd) \/ DeviceRemoval(sd)

Next ==
    \/ ServerThread \/ ClientThread \/ Caller
    \/ ClientCmEvent \/ ServerCmEvent
    \/ \E sd \in Side : CqHandler(sd) \/ Nic(sd)
    \/ Fault

Spec == Init /\ [][Next]_vars

(***************************************************************************)
(* The kernel runs both threads and the handlers, the adapters execute     *)
(* what is posted.  Nothing is assumed of the caller, of signals and of    *)
(* faults.                                                                 *)
(***************************************************************************)
Fairness ==
    /\ WF_vars(ServerThread) /\ WF_vars(ClientThread)
    /\ WF_vars(ClientCmEvent) /\ WF_vars(ServerCmEvent)
    /\ \A sd \in Side : WF_vars(CqHandler(sd)) /\ WF_vars(Nic(sd))

FairSpec == Spec /\ Fairness

-----------------------------------------------------------------------------
(***************************************************************************)
(* Type correctness: every queue holds what its consumer expects, and both *)
(* threads are somewhere in their code.                                    *)
(***************************************************************************)
TypeOK ==
    /\ state \in [Side -> IDLE..ERROR]
    /\ pc["client"] \in ClientPC /\ pc["server"] \in ServerPC
    /\ \A sd \in Side : /\ ev[sd] \in Seq(CmEvent)
                        /\ sq[sd] \in Seq(Request)
                        /\ cq[sd] \in Seq(Completion)
    /\ qp \in [Side -> {"none", "init", "up", "err"}]
    /\ recv \in [Side -> BOOLEAN]
    /\ arm \in [Side -> {"off", "armed", "event"}]
    /\ cqh \in [Side -> {"out", "poll", "recv", "post"}]
    /\ decided \in [Side -> IDLE..ERROR]
    /\ requested \in BOOLEAN /\ hasty \in BOOLEAN /\ lost \in BOOLEAN
    /\ key \in Key /\ start_buf \in Key /\ mr \in Key /\ remote_rkey \in Key
    /\ rdma_buf \in [key : Key, data : Key] /\ shown \in Seq([key : Msg, data : Msg])
    /\ posted \subseteq Msg /\ made \in BOOLEAN /\ stray \in BOOLEAN
    /\ second \in BOOLEAN /\ faults \in 0..MaxFaults
    /\ res \in [Side -> SUBSET (Range(SetupOrder("client")) \cup {"cm_id", "child_cm_id"})]

(***************************************************************************)
(* The server never takes an advertisement while it works on another:      *)
(* server_recv() never finds a state above CONNECTED, even with a caller   *)
(* that does not wait.  The client's next SEND stands behind a REG_MR that *)
(* needs the go ahead, and nmsg_run_server() resets the state before it    *)
(* posts the go ahead.                                                     *)
(***************************************************************************)
NoOverrun == state["server"] \in {RDMA_WRITE_ADV, RDMA_WRITE_COMPLETE} => lost \/ stray

(***************************************************************************)
(* What nmsg_run_server() prints was advertised by a nmsg_send_message()   *)
(* that returned 0, in the order of the calls, each at most once.          *)
(***************************************************************************)
ShownInOrder ==
    \A i \in 1..Len(shown) : /\ shown[i].key \in posted
                             /\ \A j \in 1..(i - 1) : shown[j].key < shown[i].key

(***************************************************************************)
(* The RDMA READ of nmsg_run_server() and its go ahead always name the key *)
(* under which the client's buffer is registered, as long as the client's  *)
(* queue pair works: no READ is refused.                                   *)
(***************************************************************************)
KeyValidWhenUsed ==
    \A op \in {"read", "send"} :
        AtHead("server", op) /\ qp["client"] = "up" => Head(sq["server"]).key = mr \/ stray

(***************************************************************************)
(* A message that reaches the server finds a receive posted, although the  *)
(* CQ handler sets RDMA_READ_ADV before it calls ib_post_recv() and the    *)
(* thread may go on in between: the READ completes through the same        *)
(* handler, so the go ahead comes after the receive.  (When ib_post_recv() *)
(* fails, the request of a second client may overwrite the ERROR that      *)
(* would have ended the connection.)                                       *)
(***************************************************************************)
ServerReady ==
    AtHead("client", "send") /\ mr = Head(sq["client"]).key /\ qp["server"] = "up" =>
        recv["server"] \/ second \/ stray

(***************************************************************************)
(* The data nmsg_run_server() prints is the message that was advertised    *)
(* under the key it read (nmsg_rdma.h: "server rdma reads message data     *)
(* from source").                                                          *)
(***************************************************************************)
ReadsWhatWasAdvertised == \A i \in 1..Len(shown) : shown[i].data = shown[i].key

(***************************************************************************)
(* So it is when the caller waits for the go ahead of one message before   *)
(* it calls nmsg_send_message() with the next.                             *)
(***************************************************************************)
PatientReads == hasty \/ ReadsWhatWasAdvertised

(***************************************************************************)
(* What an end leaves behind, however far its set-up gets and whatever     *)
(* ends the connection later.  No queue pair, completion queue, region or  *)
(* buffer stays, and after nmsg_destroy_client() nothing does.  But a      *)
(* client that fails leaves its cm_id, whose handler may still be called;  *)
(* a failure in nmsg_setup_buffers() leaves the two DMA mappings; and the  *)
(* first child_cm_id stays when a second request has replaced it.          *)
(***************************************************************************)
NothingLeft ==
    /\ pc["client"] = "failed" => res["client"] \subseteq {"dma", "cm_id"}
    /\ pc["client"] = "closed" => res["client"] = {}
    /\ pc["server"] = "done" =>
         res["server"] \subseteq {"dma"} \cup IF second THEN {"child_cm_id"} ELSE {}

(***************************************************************************)
(* While nmsg_bind_client() waits, the CM owes it an event, or its wait is *)
(* over; unless rdma_resolve_route() failed at once: the handler then      *)
(* wakes the thread in a state in which it goes on waiting.                *)
(***************************************************************************)
NoRoute == state["client"] = ADDR_RESOLVED /\ ev["client"] = <<>>

BindIsAnswered ==
    pc["client"] = "bind" =>
        \/ "cm_id" \in res["client"] /\ ev["client"] # <<>>
        \/ state["client"] >= ROUTE_RESOLVED
        \/ NoRoute

(***************************************************************************)
(* A message for which nmsg_send_message() returned 0 is printed by the    *)
(* server, or the connection is broken, or a second client has asked for   *)
(* one (the handler then overwrites the state the thread waits for).       *)
(***************************************************************************)
Broken == \E sd \in Side : qp[sd] # "up"

Undelivered == posted \ {shown[i].key : i \in DOMAIN shown}

DeliveredOrBroken == Undelivered # {} ~> Broken \/ second \/ stray \/ Undelivered = {}

(***************************************************************************)
(* After nmsg_destroy_client() the server's thread ends, unless the ERROR  *)
(* that should end it was overwritten: by nmsg_run_server() when it resets *)
(* the state, by the CQ handler, which looks for ERROR at its entry only,  *)
(* or by a second client's request.                                        *)
(***************************************************************************)
ServerLeaves ==
    pc["client"] = "closed" /\ requested ~>
        pc["server"] \in {"done", "other", "undefined"} \/ lost \/ second

=============================================================================
