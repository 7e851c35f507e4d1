---------------------------- MODULE RdmaLinkInv ----------------------------
(***************************************************************************)
(* Proofs about the RDMA connection, for any number of messages.  The      *)
(* argument: at any time at most one advertisement is under way.  The      *)
(* region of the client's buffer is its token: it is taken by REG_MR, goes *)
(* with the SEND to the server, through its completion queue to its        *)
(* thread, and is given back by the go ahead that invalidates the region.  *)
(***************************************************************************)
EXTENDS RdmaLink, SequenceTheorems, TLAPS

OpIn(s, op) == \E n \in 1..Len(s) : s[n].op = op

EventIn(s, e) == \E n \in 1..Len(s) : s[n] = e

\* e comes at most once, or only as the first.
Once(s, e) == \A m, n \in 1..Len(s) : s[m] = e /\ s[n] = e => m = n

OnceOf(s, ops) == \A m, n \in 1..Len(s) : s[m].op \in ops /\ s[n].op \in ops => m = n

RecvIn(s, k) == \E n \in 1..Len(s) : s[n].op = "recv" /\ s[n].key = k

First(s, e) == \A n \in 1..Len(s) : s[n] = e => n = 1

-----------------------------------------------------------------------------
(***************************************************************************)
(* Types, without what only the protocol guarantees: that a key in use is  *)
(* never 0.                                                                *)
(***************************************************************************)
ControlTypes ==
    /\ state \in [Side -> IDLE..ERROR]
    /\ pc \in [Side -> ClientPC \cup ServerPC]
    /\ pc["client"] \in ClientPC /\ pc["server"] \in ServerPC

Req == [op : {"reg", "send", "read"}, key : Key]

EventTypes == ev \in [Side -> Seq(CmEvent)]

RequestTypes == sq \in [Side -> Seq(Req)]

CompletionTypes == cq \in [Side -> Seq(Completion)]

FlagTypes ==
    /\ qp \in [Side -> {"none", "init", "up", "err"}]
    /\ recv \in [Side -> BOOLEAN]
    /\ arm \in [Side -> {"off", "armed", "event"}]
    /\ cqh \in [Side -> {"out", "poll", "recv", "post"}]
    /\ decided \in [Side -> {IDLE, RDMA_READ_ADV, RDMA_WRITE_ADV, RDMA_WRITE_COMPLETE}]

DataTypes ==
    /\ requested \in BOOLEAN /\ hasty \in BOOLEAN /\ lost \in BOOLEAN
    /\ made \in BOOLEAN /\ stray \in BOOLEAN
    /\ faults \in 0..MaxFaults
    /\ key \in Key /\ start_buf \in Key /\ mr \in Key /\ remote_rkey \in Key
    /\ pc["client"] = "make" => key < MaxMsgs
    /\ rdma_buf \in [key : Key, data : Key] /\ shown \in Seq([key : Key, data : Key])
    /\ posted \subseteq Msg
    /\ second \in BOOLEAN

LinkTypes ==
    ControlTypes /\ EventTypes /\ RequestTypes /\ CompletionTypes /\ FlagTypes /\ DataTypes

(***************************************************************************)
(* What no event and no failure changes: a key in use is never 0, nor is   *)
(* the message in a buffer that was ever filled.                           *)
(***************************************************************************)
KeysIn(s) == \A n \in 1..Len(s) : s[n].key \in Msg

Received ==
    \/ cqh["server"] = "recv" \/ state["server"] = RDMA_READ_ADV
    \/ pc["server"] \in {"read", "reset", "goahead"} \/ sq["server"] # <<>>

Holds(r) == r.key \in Msg /\ r.data \in Msg

NonZero ==
    /\ KeysIn(sq["client"]) /\ KeysIn(sq["server"])
    /\ ~RecvIn(cq["server"], 0)
    /\ Received => remote_rkey \in Msg
    /\ OpIn(cq["server"], "read") \/ state["server"] = RDMA_READ_COMPLETE => Holds(rdma_buf)
    /\ \A n \in 1..Len(shown) : Holds(shown[n])
    /\ pc["client"] = "send" => key \in Msg
    /\ pc["client"] = "make" => start_buf \in Msg
    /\ key # 0 \/ mr # 0 \/ sq["client"] # <<>> => start_buf \in Msg

(***************************************************************************)
(* What an end has allocated: nothing before its set-up, but the cm_id.    *)
(***************************************************************************)
ResInv ==
    /\ res \in [Side -> SUBSET {"pd", "cq", "qp", "dma", "mr", "buf", "cm_id", "child_cm_id"}]
    /\ pc["client"] = "start" => res["client"] = {}
    /\ pc["client"] \in {"bind", "setup"} => res["client"] = {"cm_id"}
    /\ "child_cm_id" \notin res["client"] /\ "cm_id" \notin res["server"]
    /\ pc["server"] \in {"request", "setup"} => res["server"] \subseteq {"child_cm_id"}
    /\ second => "child_cm_id" \in res["server"]
    /\ NothingLeft

(***************************************************************************)
(* The wait of nmsg_bind_client(): its first event leaves IDLE behind.     *)
(***************************************************************************)
BindInv ==
    pc["client"] = "bind" =>
        /\ "cm_id" \in res["client"]
        /\ ev["client"] # <<>> \/ state["client"] >= ADDR_RESOLVED

(***************************************************************************)
(* CM events: CONNECT_REQUEST is the first event of the server and comes   *)
(* once; ESTABLISHED comes to the client once, and until then nothing can  *)
(* have passed between the ends.                                           *)
(***************************************************************************)
Early == pc["client"] \in {"start", "bind", "setup"}

NeverUp ==
    /\ qp["client"] # "up" /\ cq["client"] = <<>> /\ mr = 0
    /\ state["client"] \notin {CONNECTED, RDMA_WRITE_ADV, RDMA_WRITE_COMPLETE}
    /\ cqh["client"] \notin {"recv", "post"}
    /\ pc["client"] \in {"make", "send"} => hasty

DownInv ==
    /\ Early => qp["client"] = "none" /\ mr = 0
    /\ pc["server"] \in {"request", "setup", "done", "undefined"} =>
         qp["server"] = "none" /\ cq["server"] = <<>>
    /\ \A sd \in Side : /\ sq[sd] # <<>> => qp[sd] = "up"
                        /\ qp[sd] \in {"none", "init"} =>
                             cq[sd] = <<>> /\ cqh[sd] = "out" /\ arm[sd] # "event"

RequestInv ==
    /\ Early \/ pc["client"] = "connect" => ~requested
    /\ ~requested => /\ ev["server"] = <<>>
                     /\ pc["server"] \in {"request", "undefined"}
                     /\ state["server"] \in {IDLE, ERROR}
                     /\ ~EventIn(ev["client"], "ESTABLISHED")
    /\ First(ev["server"], "CONNECT_REQUEST")
    /\ pc["server"] \notin {"request", "undefined"} \/ state["server"] = CONNECT_REQUEST =>
         ~EventIn(ev["server"], "CONNECT_REQUEST")
    /\ "child_cm_id" \in res["server"] => requested /\ ~EventIn(ev["server"], "CONNECT_REQUEST")

NeverUpInv ==
    /\ Once(ev["client"], "ESTABLISHED")
    /\ EventIn(ev["client"], "ESTABLISHED") => NeverUp
    /\ pc["server"] \in {"request", "setup", "accept"} => NeverUp /\ ~EventIn(ev["client"], "ESTABLISHED")

EventInv == DownInv /\ RequestInv /\ NeverUpInv

(***************************************************************************)
(* The client's send queue, with the SEND that nmsg_send_message() is      *)
(* about to post behind the REG_MR of make_message().                      *)
(***************************************************************************)
About == pc["client"] = "send" /\ made /\ qp["client"] = "up"

Key2Send == [op |-> "send", key |-> key]

Queue == IF About THEN sq["client"] \o <<Key2Send>> ELSE sq["client"]

(***************************************************************************)
(* Where the token is.                                                     *)
(***************************************************************************)
Offered == Queue # <<>> /\ Head(Queue).op = "send"

Coming == OpIn(cq["server"], "recv")

Holding == cqh["server"] = "recv"

Advertised == state["server"] = RDMA_READ_ADV

HasRead == state["server"] = RDMA_READ_COMPLETE

AtWork == pc["server"] \in {"read", "reset", "goahead"}

Posted(op) == sq["server"] = <<[op |-> op, key |-> remote_rkey]>>

HasCompleted == OpIn(cq["server"], "read")

Busy == Advertised \/ HasRead \/ AtWork \/ sq["server"] # <<>> \/ HasCompleted

(***************************************************************************)
(* Can a message be received?  (Or will none come.)                        *)
(***************************************************************************)
Ready == recv["server"] \/ second \/ qp["server"] # "up"

\* The client may take the token.
Idle == mr = 0 /\ (Early \/ qp["client"] \in {"init", "up"})

TokenInv ==
    /\ qp["server"] = "init" => recv["server"]
    /\ state["server"] \in {RDMA_WRITE_ADV, RDMA_WRITE_COMPLETE} => lost
    /\ Holding => \/ decided["server"] = RDMA_READ_ADV
                  \/ decided["server"] = RDMA_WRITE_ADV /\ (lost \/ state["server"] = ERROR)
    /\ Idle \/ Offered => ~Coming /\ ~Holding /\ ~Busy /\ Ready
    /\ Coming => ~Busy /\ ~Holding
    /\ Holding => ~Busy
    /\ OnceOf(cq["server"], {"recv", "read"})
    /\ sq["server"] = <<>> \/ Posted("read") \/ Posted("send")
    /\ Posted("send") => ~Advertised /\ ~HasRead /\ ~AtWork /\ ~HasCompleted /\ Ready
    /\ Posted("read") => ~HasCompleted
    /\ pc["server"] \in {"reset", "goahead"} => sq["server"] = <<>> /\ ~HasCompleted /\ ~Advertised /\ Ready
    /\ pc["server"] = "goahead" => ~HasRead
    /\ HasRead => ~Posted("read") /\ ~HasCompleted /\ Ready
    /\ Advertised /\ (Posted("read") \/ HasCompleted) => pc["server"] = "read"
    /\ \/ Ready \/ Coming \/ cqh["server"] \in {"recv", "post"}
       \/ cqh["server"] = "out" /\ state["server"] = ERROR

(***************************************************************************)
(* Keys: a REG_MR in the queue has a key above all that were in use        *)
(* before, a SEND follows its REG_MR, and what the server works with is    *)
(* the key under which the buffer is registered.                           *)
(***************************************************************************)
Chain(s) ==
    \A n \in 1..Len(s) :
        /\ s[n].op \in {"reg", "send"} /\ s[n].key \in Msg
        /\ s[n].op = "reg" => \A m \in 1..(n - 1) : s[m].key < s[n].key
        /\ s[n].op = "send" /\ n > 1 => s[n - 1] = make_message(s[n].key)

\* The REG_MRs of s have keys above k.
Above(s, k) == \A n \in 1..Len(s) : s[n].op = "reg" => s[n].key > k

AtMost(s, k) == \A n \in 1..Len(s) : s[n].key <= k

SendsIn(s, P) == \A n \in 1..Len(s) : s[n].op = "send" => s[n].key \in P

ChainInv ==
    /\ Chain(Queue) /\ AtMost(sq["client"], key) /\ SendsIn(sq["client"], posted)
    /\ Above(sq["client"], mr) /\ Above(sq["client"], remote_rkey)
    /\ mr <= key /\ remote_rkey <= key

\* An advertisement with key k on its way to the server.
ComingKey(k) ==
    /\ k \in posted /\ remote_rkey < k /\ k <= key /\ Above(sq["client"], k)
    /\ qp["client"] = "up" => mr = k

OfferedKey == Offered => mr = Head(Queue).key /\ remote_rkey < mr

ComingKeys == \A k \in Key : RecvIn(cq["server"], k) => ComingKey(k)

BusyKey == Busy \/ Holding => remote_rkey \in posted /\ (qp["client"] = "up" => mr = remote_rkey)

KeyInv == ChainInv /\ OfferedKey /\ ComingKeys /\ BusyKey

(***************************************************************************)
(* What was shown: nothing twice, and what will be shown next has a key    *)
(* above all that were shown.                                              *)
(***************************************************************************)
ShownBelow(k) == \A n \in 1..Len(shown) : shown[n].key < k

ShownKeys ==
    /\ ShownInOrder
    /\ \A n \in 1..Len(shown) : shown[n].key <= remote_rkey /\ shown[n].data \in Msg

Reading == Holding \/ Advertised \/ Posted("read") \/ HasCompleted \/ pc["server"] = "read"

NextShown == Reading => ShownBelow(remote_rkey)

\* Is the data of remote_rkey in rdma_buf?
Arrived == HasCompleted \/ (pc["server"] = "read" /\ HasRead)

ReadBuf == Arrived => rdma_buf.key = remote_rkey /\ rdma_buf.data \in Msg

StartBuf == start_buf = IF pc["client"] = "make" THEN key + 1 ELSE key

ShowInv == ShownKeys /\ NextShown /\ ReadBuf /\ StartBuf

(***************************************************************************)
(* A caller that waits for the go ahead changes the buffer only when the   *)
(* region is invalid and nothing is queued.                                *)
(***************************************************************************)
GoAheadSeen == state["client"] \in {CONNECTED, RDMA_WRITE_ADV, RDMA_WRITE_COMPLETE}

GoAheadComing == OpIn(cq["client"], "recv") \/ cqh["client"] = "recv"

MayWrite == pc["client"] = "make" \/ GoAheadComing \/ GoAheadSeen

PatientData == ReadsWhatWasAdvertised /\ rdma_buf.data = rdma_buf.key

PatientToken ==
    /\ qp["client"] = "up" /\ MayWrite => mr = 0 /\ Queue = <<>>
    /\ qp["client"] = "up" => mr \in {0, key} /\ \A n \in 1..Len(sq["client"]) : sq["client"][n].key = key
    /\ pc["client"] = "make" \/ GoAheadSeen => ~GoAheadComing
    /\ pc["client"] = "make" => ~GoAheadSeen
    /\ cqh["client"] = "recv" => ~OpIn(cq["client"], "recv") /\ decided["client"] \in {RDMA_WRITE_ADV, RDMA_WRITE_COMPLETE}
    /\ OnceOf(cq["client"], {"recv"})

PatientInv == PatientData /\ PatientToken

(***************************************************************************)
(* All of it.                                                              *)
(***************************************************************************)
LinkInv ==
    /\ LinkTypes /\ NonZero /\ ResInv /\ BindInv /\ EventInv
    /\ ~stray => TokenInv /\ KeyInv /\ ShowInv
    /\ ~stray /\ ~hasty => PatientInv

-----------------------------------------------------------------------------
\* The types hold initially.
LEMMA TypesInit == Init => LinkTypes
  <1> SUFFICES ASSUME Init PROVE LinkTypes  OBVIOUS
  <1>1. 0 \in Key  BY LinkAssumption DEF Key
  <1>2. pc \in [Side -> ClientPC \cup ServerPC] /\ pc["client"] = "start" /\ pc["server"] = "request"
    BY DEF Init, Side, ClientPC, ServerPC
  <1>3. pc["client"] \in ClientPC /\ pc["server"] \in ServerPC  BY <1>2 DEF ClientPC, ServerPC
  <1>4. IDLE \in IDLE..ERROR  BY DEF IDLE, ERROR
  <1>5. /\ hasty \in BOOLEAN /\ made \in BOOLEAN /\ stray \in BOOLEAN
        /\ second \in BOOLEAN /\ faults \in 0..MaxFaults
    <2>1. hasty \in BOOLEAN /\ made \in BOOLEAN /\ stray \in BOOLEAN /\ second \in BOOLEAN  BY Zenon DEF Init
    <2>2. faults \in 0..MaxFaults  BY LinkAssumption DEF Init
    <2> QED  BY <2>1, <2>2
  <1>6. /\ state \in [Side -> IDLE..ERROR]
        /\ ev \in [Side -> Seq(CmEvent)]
        /\ sq \in [Side -> Seq(Req)]
        /\ cq \in [Side -> Seq(Completion)]
        /\ qp \in [Side -> {"none", "init", "up", "err"}]
    BY <1>4 DEF Init
  <1>7. /\ recv \in [Side -> BOOLEAN] /\ arm \in [Side -> {"off", "armed", "event"}]
        /\ cqh \in [Side -> {"out", "poll", "recv", "post"}]
        /\ decided \in [Side -> {IDLE, RDMA_READ_ADV, RDMA_WRITE_ADV, RDMA_WRITE_COMPLETE}]
    BY DEF Init
  <1>8. rdma_buf \in [key : Key, data : Key] /\ shown \in Seq([key : Key, data : Key])
    BY <1>1 DEF Init
  <1>9. (pc["client"] = "make" => key < MaxMsgs) /\ posted \subseteq Msg
    BY <1>2 DEF Init
  <1>10. key \in Key /\ start_buf \in Key /\ mr \in Key /\ remote_rkey \in Key
    BY <1>1 DEF Init
  <1>11. requested \in BOOLEAN /\ lost \in BOOLEAN
    BY DEF Init
  <1>12. DataTypes  BY <1>2, <1>5, <1>8, <1>9, <1>10, <1>11 DEF DataTypes
  <1> QED
    BY <1>2, <1>3, <1>6, <1>7, <1>12 DEF LinkTypes, ControlTypes, EventTypes, RequestTypes,
       CompletionTypes, FlagTypes

(***************************************************************************)
(* Every queue keeps its type under each operation on it.                  *)
(***************************************************************************)
LEMMA QueueOps ==
    ASSUME LinkTypes, NEW sd \in Side
    PROVE  /\ ev[sd] \in Seq(CmEvent) /\ sq[sd] \in Seq(Req) /\ cq[sd] \in Seq(Completion)
           /\ \A e \in CmEvent : Append(ev[sd], e) \in Seq(CmEvent)
           /\ ev[sd] # <<>> => Head(ev[sd]) \in CmEvent /\ Tail(ev[sd]) \in Seq(CmEvent)
           /\ sq[sd] # <<>> => Head(sq[sd]) \in Req /\ Tail(sq[sd]) \in Seq(Req)
           /\ \A r \in Req : sq[sd] \o <<r>> \in Seq(Req)
           /\ \A q, r \in Req : sq[sd] \o <<q, r>> \in Seq(Req)
           /\ \A c \in Completion : Append(cq[sd], c) \in Seq(Completion)
           /\ cq[sd] # <<>> => Head(cq[sd]) \in Completion /\ Tail(cq[sd]) \in Seq(Completion)
           /\ <<>> \in Seq(CmEvent) /\ <<>> \in Seq(Req) /\ <<>> \in Seq(Completion)
  <1>1. ev[sd] \in Seq(CmEvent) /\ sq[sd] \in Seq(Req) /\ cq[sd] \in Seq(Completion)
    BY DEF LinkTypes, EventTypes, RequestTypes, CompletionTypes
  <1>2. \A e \in CmEvent : Append(ev[sd], e) \in Seq(CmEvent)  BY <1>1
  <1>3. ev[sd] # <<>> => Head(ev[sd]) \in CmEvent /\ Tail(ev[sd]) \in Seq(CmEvent)  BY <1>1
  <1>4. sq[sd] # <<>> => Head(sq[sd]) \in Req /\ Tail(sq[sd]) \in Seq(Req)  BY <1>1
  <1>5. ASSUME NEW q \in Req, NEW r \in Req
        PROVE  sq[sd] \o <<r>> \in Seq(Req) /\ sq[sd] \o <<q, r>> \in Seq(Req)
    <2>1. <<r>> \in Seq(Req) /\ <<q, r>> \in Seq(Req)  OBVIOUS
    <2> QED  BY <1>1, <2>1
  <1>6. \A c \in Completion : Append(cq[sd], c) \in Seq(Completion)  BY <1>1
  <1>7. cq[sd] # <<>> => Head(cq[sd]) \in Completion /\ Tail(cq[sd]) \in Seq(Completion)  BY <1>1
  <1>8. <<>> \in Seq(CmEvent) /\ <<>> \in Seq(Req) /\ <<>> \in Seq(Completion)  OBVIOUS
  <1> QED  BY <1>1, <1>2, <1>3, <1>4, <1>5, <1>6, <1>7, <1>8

(***************************************************************************)
(* The operations on the adapter keep the types.                           *)
(***************************************************************************)
LEMMA BreakTypes ==
    ASSUME LinkTypes, NEW sd \in Side, NEW refused, Break(sd, refused)
    PROVE  RequestTypes' /\ CompletionTypes' /\ qp' \in [Side -> {"none", "init", "up", "err"}]
  <1>1. sq' = [s \in Side |-> IF s = sd \/ refused THEN <<>> ELSE sq[s]]  BY DEF Break
  <1>2. \A s \in Side : sq[s] \in Seq(Req) /\ <<>> \in Seq(Req)  BY QueueOps
  <1>3. RequestTypes'  BY <1>1, <1>2 DEF RequestTypes
  <1>4. cq' = [cq EXCEPT ![sd] = Append(@, [op |-> "error", key |-> 0])]  BY DEF Break, Completed
  <1>5. [op |-> "error", key |-> 0] \in Completion  BY LinkAssumption DEF Completion, Key
  <1>6. Append(cq[sd], [op |-> "error", key |-> 0]) \in Seq(Completion)  BY <1>5, QueueOps
  <1>7. CompletionTypes'  BY <1>4, <1>6 DEF LinkTypes, CompletionTypes
  <1>8. qp' \in [Side -> {"none", "init", "up", "err"}]  BY DEF Break, LinkTypes, FlagTypes
  <1> QED  BY <1>3, <1>7, <1>8

\* Freeing an end leaves the types of its queues and flags.
LEMMA FreedTypes ==
    ASSUME LinkTypes, NEW sd \in Side, NEW ids, Freed(sd, ids)
    PROVE  RequestTypes' /\ CompletionTypes' /\ FlagTypes' /\ mr' \in Key
  <1>1. RequestTypes'  BY QueueOps DEF Freed, LinkTypes, RequestTypes
  <1>2. CompletionTypes'  BY QueueOps DEF Freed, LinkTypes, CompletionTypes
  <1>3. FlagTypes'  BY DEF Freed, LinkTypes, FlagTypes
  <1>4. mr' \in Key  BY LinkAssumption DEF Freed, LinkTypes, DataTypes, Key
  <1> QED  BY <1>1, <1>2, <1>3, <1>4

\* Posting leaves the type of the send queues.
LEMMA PostTypes ==
    ASSUME LinkTypes, NEW sd \in Side, NEW k \in Key, NEW op \in {"reg", "send", "read"},
           Post(sd, <<[op |-> op, key |-> k]>>)
    PROVE  RequestTypes'
  <1>1. [op |-> op, key |-> k] \in Req  BY DEF Req
  <1>2. sq[sd] \o <<[op |-> op, key |-> k]>> \in Seq(Req)  BY <1>1, QueueOps
  <1> QED  BY <1>2 DEF Post, LinkTypes, RequestTypes

(***************************************************************************)
(* The two threads and the states.                                         *)
(***************************************************************************)
LEMMA ControlStep == LinkTypes /\ [Next]_vars => ControlTypes'
  <1> SUFFICES ASSUME LinkTypes, [Next]_vars PROVE ControlTypes'  OBVIOUS
  <1>0. ASSUME UNCHANGED <<state, pc>>
        PROVE  ControlTypes'
    BY <1>0 DEF LinkTypes, ControlTypes
  <1> USE DEF LinkTypes, ControlTypes, FlagTypes, Side, ClientPC, ServerPC, IDLE,
              CONNECT_REQUEST, ADDR_RESOLVED, ROUTE_RESOLVED, CONNECTED, RDMA_READ_ADV,
              RDMA_READ_COMPLETE, RDMA_WRITE_ADV, RDMA_WRITE_COMPLETE, ERROR
  <1>1. ASSUME ServerRequest PROVE ControlTypes'
    BY <1>1 DEF ServerRequest, Goto
  <1>2. ASSUME ServerSetup PROVE ControlTypes'
    BY <1>2 DEF ServerSetup, Goto, SetupFails
  <1>3. ASSUME ServeSecond PROVE ControlTypes'
    BY <1>3 DEF ServeSecond, Goto
  <1>4. ASSUME Accept PROVE ControlTypes'
    BY <1>4 DEF Accept, Goto
  <1>5. ASSUME nmsg_accept PROVE ControlTypes'
    BY <1>5 DEF nmsg_accept, Goto
  <1>6. ASSUME ReadAdvertised PROVE ControlTypes'
    BY <1>6 DEF ReadAdvertised, Goto, SetState
  <1>7. ASSUME ReadCompleted PROVE ControlTypes'
    BY <1>7 DEF ReadCompleted, Goto
  <1>8. ASSUME ResetConnected PROVE ControlTypes'
    BY <1>8 DEF ResetConnected, Goto, SetState
  <1>9. ASSUME GoAhead PROVE ControlTypes'
    BY <1>9 DEF GoAhead, Goto
  <1>10. ASSUME Teardown PROVE ControlTypes'
    BY <1>10 DEF Teardown, Goto
  <1>11. ASSUME nmsg_bind_client PROVE ControlTypes'
    BY <1>11 DEF nmsg_bind_client, Goto
  <1>12. ASSUME ClientSetup PROVE ControlTypes'
    BY <1>12 DEF ClientSetup, Goto, SetupFails
  <1>13. ASSUME Connect PROVE ControlTypes'
    BY <1>13 DEF Connect, Goto
  <1>14. ASSUME nmsg_connect_client PROVE ControlTypes'
    BY <1>14 DEF nmsg_connect_client, Goto
  <1>15. ASSUME MakeMessage PROVE ControlTypes'
    BY <1>15 DEF MakeMessage, Goto, SetState
  <1>16. ASSUME SendMessage PROVE ControlTypes'
    BY <1>16 DEF SendMessage, Goto
  <1>17. ASSUME ResolveAddr PROVE ControlTypes'
    BY <1>17 DEF ResolveAddr, Goto
  <1>18. ASSUME SendStart PROVE ControlTypes'
    BY <1>18 DEF SendStart, Goto, SetState
  <1>19. ASSUME nmsg_destroy_client PROVE ControlTypes'
    BY <1>19 DEF nmsg_destroy_client, Goto, SetState
  <1>20. ASSUME nmsg_stop_server PROVE ControlTypes'
    BY <1>20 DEF nmsg_stop_server, Goto
  <1>21. ASSUME SecondRequest PROVE ControlTypes'
    BY <1>21 DEF SecondRequest, SetState
  <1>22. ASSUME BindInterrupted PROVE ControlTypes'
    BY <1>22 DEF BindInterrupted, Goto
  <1>23. ASSUME ConnectInterrupted PROVE ControlTypes'
    BY <1>23 DEF ConnectInterrupted, Goto
  <1>24. ASSUME ClientCmEvent PROVE ControlTypes'
    BY <1>24 DEF ClientCmEvent, SetState
  <1>25. ASSUME ServerCmEvent PROVE ControlTypes'
    BY <1>25 DEF ServerCmEvent, SetState
  <1>26. ASSUME CqRead PROVE ControlTypes'
    BY <1>26 DEF CqRead, SetState, Polls
  <1>27. ASSUME NEW sd \in Side, CqSet(sd) PROVE ControlTypes'
    BY <1>27 DEF CqSet, SetState
  <1>28. ASSUME NEW sd \in Side, CqRepost(sd) PROVE ControlTypes'
    BY <1>28 DEF CqRepost, SetState
  <1>29. ASSUME NEW sd \in Side, CqError(sd) PROVE ControlTypes'
    BY <1>29 DEF CqError, SetState, Polls
  <1>30. ASSUME NEW sd \in Side, DeviceRemoval(sd) PROVE ControlTypes'
    BY <1>30 DEF DeviceRemoval, SetState
  <1>31. ASSUME NEW sd \in Side,
                \/ NicReg \/ NicRead \/ ServerCqRecv \/ ClientCqRecv \/ NicSend(sd)
                \/ CqEnter(sd) \/ CqLeave(sd) \/ LinkLoss(sd)
         PROVE  ControlTypes'
    <2>1. UNCHANGED <<state, pc>>
      BY <1>31
         DEF NicReg, NicRead, ServerCqRecv, ClientCqRecv, NicSend, CqEnter, CqLeave, LinkLoss,
             Break, Decides, adapter, session, link
    <2> QED  BY <2>1, <1>0
  <1>32. CASE UNCHANGED vars  BY <1>0, <1>32 DEF vars, adapter, handler, session, link
  <1> QED
    BY <1>1, <1>2, <1>3, <1>4, <1>5, <1>6, <1>7, <1>8, <1>9, <1>10, <1>11, <1>12, <1>13, <1>14,
       <1>15, <1>16, <1>17, <1>18, <1>19, <1>20, <1>21, <1>22, <1>23, <1>24, <1>25, <1>26,
       <1>27, <1>28, <1>29, <1>30, <1>31, <1>32
       DEF Next, ServerThread, ClientThread, Caller, Nic, CqHandler, Fault, Side

(***************************************************************************)
(* The queues.                                                             *)
(***************************************************************************)
LEMMA EventStep == LinkTypes /\ [Next]_vars => EventTypes'
  <1> SUFFICES ASSUME LinkTypes, [Next]_vars PROVE EventTypes'  OBVIOUS
  <1>0. ASSUME UNCHANGED <<ev>>
        PROVE  EventTypes'
    BY <1>0 DEF LinkTypes, EventTypes
  <1> USE DEF LinkTypes, EventTypes, Side, CmEvent
  <1>1. ASSUME ServerSetup PROVE EventTypes'
    BY <1>1, QueueOps DEF ServerSetup, SetupFails
  <1>2. ASSUME Accept PROVE EventTypes'
    BY <1>2, QueueOps DEF Accept
  <1>3. ASSUME Teardown PROVE EventTypes'
    <2>1. ev'["client"] \in {ev["client"], Append(ev["client"], "FAILURE")} /\ ev'["server"] = <<>> /\ DOMAIN ev' = Side
      BY <1>3 DEF Teardown, Side
    <2>2. ev' = [sd \in Side |-> ev'[sd]]
      BY <1>3, <2>1 DEF Teardown, Side
    <2>3. "FAILURE" \in CmEvent /\ "client" \in Side  BY DEF CmEvent, Side
    <2>4. \A sd \in Side : ev'[sd] \in Seq(CmEvent)  BY <2>1, <2>3, QueueOps DEF Side
    <2> QED  BY <2>2, <2>4 DEF EventTypes
  <1>4. ASSUME Connect PROVE EventTypes'
    BY <1>4, QueueOps DEF Connect
  <1>5. ASSUME ResolveAddr PROVE EventTypes'
    BY <1>5, QueueOps DEF ResolveAddr
  <1>6. ASSUME nmsg_destroy_client PROVE EventTypes'
    <2>1. ev'["server"] \in {ev["server"], Append(ev["server"], "FAILURE")} /\ ev'["client"] = <<>> /\ DOMAIN ev' = Side
      BY <1>6 DEF nmsg_destroy_client, Side
    <2>2. ev' = [sd \in Side |-> ev'[sd]]
      BY <1>6, <2>1 DEF nmsg_destroy_client, Side
    <2>3. "FAILURE" \in CmEvent /\ "server" \in Side  BY DEF CmEvent, Side
    <2>4. \A sd \in Side : ev'[sd] \in Seq(CmEvent)  BY <2>1, <2>3, QueueOps DEF Side
    <2> QED  BY <2>2, <2>4 DEF EventTypes
  <1>7. ASSUME nmsg_stop_server PROVE EventTypes'
    BY <1>7, QueueOps DEF nmsg_stop_server
  <1>8. ASSUME ClientCmEvent PROVE EventTypes'
    <2> DEFINE rest == [ev EXCEPT !["client"] = Tail(@)]
    <2>1. rest \in [Side -> Seq(CmEvent)]
      BY <1>8, QueueOps DEF ClientCmEvent, LinkTypes, EventTypes, Side
    <2>2. \A sd \in Side, e \in CmEvent : Append(rest[sd], e) \in Seq(CmEvent)
      BY <2>1
    <2>3. \A sd \in Side, e \in CmEvent : [rest EXCEPT ![sd] = Append(@, e)] \in [Side -> Seq(CmEvent)]
      BY <2>1, <2>2
    <2>4. \/ ev' = rest
          \/ \E sd \in Side, e \in CmEvent : ev' = [rest EXCEPT ![sd] = Append(@, e)]
      BY <1>8 DEF ClientCmEvent, Side, CmEvent
    <2> HIDE DEF rest, LinkTypes, CmEvent, Side
    <2> QED  BY <2>1, <2>3, <2>4 DEF EventTypes
  <1>9. ASSUME ServerCmEvent PROVE EventTypes'
    BY <1>9, QueueOps DEF ServerCmEvent
  <1>10. ASSUME NEW sd \in Side,
                \/ ServerRequest \/ ServeSecond \/ nmsg_accept \/ ReadAdvertised
                \/ ReadCompleted \/ ResetConnected \/ GoAhead \/ nmsg_bind_client
                \/ ClientSetup \/ nmsg_connect_client \/ MakeMessage \/ SendMessage
                \/ SendStart \/ SecondRequest \/ BindInterrupted \/ ConnectInterrupted
                \/ NicReg \/ NicRead \/ CqRead \/ ServerCqRecv \/ ClientCqRecv
                \/ NicSend(sd) \/ CqEnter(sd) \/ CqLeave(sd) \/ CqSet(sd) \/ CqRepost(sd)
                \/ CqError(sd) \/ LinkLoss(sd) \/ DeviceRemoval(sd)
         PROVE  EventTypes'
    <2>1. UNCHANGED <<ev>>
      BY <1>10
         DEF ServerRequest, ServeSecond, nmsg_accept, ReadAdvertised, ReadCompleted,
             ResetConnected, GoAhead, nmsg_bind_client, ClientSetup, nmsg_connect_client,
             MakeMessage, SendMessage, SendStart, SecondRequest, BindInterrupted,
             ConnectInterrupted, NicReg, NicRead, CqRead, ServerCqRecv, ClientCqRecv, NicSend,
             CqEnter, CqLeave, CqSet, CqRepost, CqError, LinkLoss, DeviceRemoval, Break, Made,
             SetupFails, Decides, adapter, handler, session, link
    <2> QED  BY <2>1, <1>0
  <1>11. CASE UNCHANGED vars  BY <1>0, <1>11 DEF vars, adapter, handler, session, link
  <1> QED
    BY <1>1, <1>2, <1>3, <1>4, <1>5, <1>6, <1>7, <1>8, <1>9, <1>10, <1>11
       DEF Next, ServerThread, ClientThread, Caller, Nic, CqHandler, Fault, Side

\* The send queues.
LEMMA RequestStep == LinkTypes /\ [Next]_vars => RequestTypes'
  <1> SUFFICES ASSUME LinkTypes, [Next]_vars PROVE RequestTypes'  OBVIOUS
  <1>0. ASSUME UNCHANGED <<sq>>
        PROVE  RequestTypes'
    BY <1>0 DEF LinkTypes, RequestTypes
  <1> USE DEF LinkTypes, RequestTypes, Side
  <1>1. ASSUME ReadAdvertised PROVE RequestTypes'
    BY <1>1, PostTypes DEF ReadAdvertised, DataTypes
  <1>2. ASSUME GoAhead PROVE RequestTypes'
    BY <1>2, PostTypes DEF GoAhead, DataTypes
  <1>3. ASSUME Teardown PROVE RequestTypes'
    BY <1>3, FreedTypes DEF Teardown, adapter, handler
  <1>4. ASSUME Connect PROVE RequestTypes'
    BY <1>4, FreedTypes DEF Connect, adapter, handler
  <1>5. ASSUME nmsg_connect_client PROVE RequestTypes'
    BY <1>5, FreedTypes DEF nmsg_connect_client, adapter, handler
  <1>6. ASSUME MakeMessage PROVE RequestTypes'
    <2>1. key + 1 \in Key
      BY <1>6, LinkAssumption DEF MakeMessage, DataTypes, Key
    <2>2. make_message(key + 1) = [op |-> "reg", key |-> key + 1]  BY DEF make_message
    <2> QED  BY <1>6, <2>1, <2>2, PostTypes DEF MakeMessage
  <1>7. ASSUME SendMessage PROVE RequestTypes'
    BY <1>7, PostTypes DEF SendMessage, DataTypes
  <1>8. ASSUME nmsg_destroy_client PROVE RequestTypes'
    BY <1>8, FreedTypes DEF nmsg_destroy_client, adapter, handler
  <1>9. ASSUME nmsg_stop_server PROVE RequestTypes'
    BY <1>9, FreedTypes DEF nmsg_stop_server, adapter, handler
  <1>10. ASSUME NicReg PROVE RequestTypes'
    BY <1>10, BreakTypes, QueueOps DEF NicReg, AtHead, Executed
  <1>11. ASSUME NicRead PROVE RequestTypes'
    BY <1>11, BreakTypes, QueueOps DEF NicRead, AtHead, Executed
  <1>12. ASSUME NEW sd \in Side, NicSend(sd) PROVE RequestTypes'
    BY <1>12, BreakTypes, QueueOps DEF NicSend, AtHead, Executed
  <1>13. ASSUME NEW sd \in Side, LinkLoss(sd) PROVE RequestTypes'
    BY <1>13, BreakTypes, QueueOps DEF LinkLoss
  <1>14. ASSUME NEW sd \in Side, DeviceRemoval(sd) PROVE RequestTypes'
    BY <1>14, BreakTypes, QueueOps DEF DeviceRemoval
  <1>15. ASSUME NEW sd \in Side,
                \/ ServerRequest \/ ServerSetup \/ ServeSecond \/ Accept \/ nmsg_accept
                \/ ReadCompleted \/ ResetConnected \/ nmsg_bind_client \/ ClientSetup
                \/ ResolveAddr \/ SendStart \/ SecondRequest \/ BindInterrupted
                \/ ConnectInterrupted \/ ClientCmEvent \/ ServerCmEvent \/ CqRead
                \/ ServerCqRecv \/ ClientCqRecv \/ CqEnter(sd) \/ CqLeave(sd) \/ CqSet(sd)
                \/ CqRepost(sd) \/ CqError(sd)
         PROVE  RequestTypes'
    <2>1. UNCHANGED <<sq>>
      BY <1>15
         DEF ServerRequest, ServerSetup, ServeSecond, Accept, nmsg_accept, ReadCompleted,
             ResetConnected, nmsg_bind_client, ClientSetup, ResolveAddr, SendStart,
             SecondRequest, BindInterrupted, ConnectInterrupted, ClientCmEvent, ServerCmEvent,
             CqRead, ServerCqRecv, ClientCqRecv, CqEnter, CqLeave, CqSet, CqRepost, CqError,
             Made, SetupFails, Decides, adapter, handler, session, link
    <2> QED  BY <2>1, <1>0
  <1>16. CASE UNCHANGED vars  BY <1>0, <1>16 DEF vars, adapter, handler, session, link
  <1> QED
    BY <1>1, <1>2, <1>3, <1>4, <1>5, <1>6, <1>7, <1>8, <1>9, <1>10, <1>11, <1>12, <1>13, <1>14,
       <1>15, <1>16
       DEF Next, ServerThread, ClientThread, Caller, Nic, CqHandler, Fault, Side

\* The completions.
LEMMA CompletionStep == LinkTypes /\ [Next]_vars => CompletionTypes'
  <1> SUFFICES ASSUME LinkTypes, [Next]_vars PROVE CompletionTypes'  OBVIOUS
  <1>0. ASSUME UNCHANGED <<cq>>
        PROVE  CompletionTypes'
    BY <1>0 DEF LinkTypes, CompletionTypes
  <1> USE DEF LinkTypes, CompletionTypes, Side
  <1>1. ASSUME Teardown PROVE CompletionTypes'
    BY <1>1, FreedTypes DEF Teardown, adapter, handler
  <1>2. ASSUME Connect PROVE CompletionTypes'
    BY <1>2, FreedTypes DEF Connect, adapter, handler
  <1>3. ASSUME nmsg_connect_client PROVE CompletionTypes'
    BY <1>3, FreedTypes DEF nmsg_connect_client, adapter, handler
  <1>4. ASSUME nmsg_destroy_client PROVE CompletionTypes'
    BY <1>4, FreedTypes DEF nmsg_destroy_client, adapter, handler
  <1>5. ASSUME nmsg_stop_server PROVE CompletionTypes'
    BY <1>5, FreedTypes DEF nmsg_stop_server, adapter, handler
  <1>6. ASSUME NicReg PROVE CompletionTypes'
    BY <1>6, BreakTypes, QueueOps DEF NicReg
  <1>7. ASSUME NicRead PROVE CompletionTypes'
    <2> DEFINE c == [op |-> "read", key |-> Head(sq["server"]).key]
    <2>1. "server" \in Side /\ sq["server"] # <<>>  BY <1>7 DEF NicRead, AtHead, Side
    <2>2. c \in Completion  BY <2>1, QueueOps DEF Completion, Req
    <2>3. [cq EXCEPT !["server"] = Append(@, c)] \in [Side -> Seq(Completion)]
      BY <2>1, <2>2, QueueOps 
    <2> QED  BY <1>7, <2>1, <2>3, BreakTypes DEF NicRead, Completed, CompletionTypes
  <1>8. ASSUME CqRead PROVE CompletionTypes'
    BY <1>8, BreakTypes, QueueOps DEF CqRead, Polls
  <1>9. ASSUME ServerCqRecv PROVE CompletionTypes'
    BY <1>9, BreakTypes, QueueOps DEF ServerCqRecv, Polls
  <1>10. ASSUME ClientCqRecv PROVE CompletionTypes'
    BY <1>10, BreakTypes, QueueOps DEF ClientCqRecv, Polls
  <1>11. ASSUME NEW sd \in Side, NicSend(sd) PROVE CompletionTypes'
    <2> DEFINE r == [op |-> "recv", key |-> Head(sq[sd]).key]
    <2>1. sq[sd] # <<>> /\ Peer(sd) \in Side  BY <1>11 DEF NicSend, AtHead, Peer
    <2>2. r \in Completion  BY <2>1, QueueOps DEF Completion, Req
    <2>3. Append(cq[Peer(sd)], r) \in Seq(Completion)  BY <2>1, <2>2, QueueOps
    <2>4. cq' = [cq EXCEPT ![Peer(sd)] = Append(@, r)] \/ \E refused : Break(sd, refused)
      BY <1>11 DEF NicSend, Completed
    <2> QED  BY <2>3, <2>4, BreakTypes
  <1>12. ASSUME NEW sd \in Side, CqError(sd) PROVE CompletionTypes'
    BY <1>12, BreakTypes, QueueOps DEF CqError, Polls
  <1>13. ASSUME NEW sd \in Side, LinkLoss(sd) PROVE CompletionTypes'
    BY <1>13, BreakTypes, QueueOps DEF LinkLoss
  <1>14. ASSUME NEW sd \in Side,
                \/ ServerRequest \/ ServerSetup \/ ServeSecond \/ Accept \/ nmsg_accept
                \/ ReadAdvertised \/ ReadCompleted \/ ResetConnected \/ GoAhead
                \/ nmsg_bind_client \/ ClientSetup \/ MakeMessage \/ SendMessage
                \/ ResolveAddr \/ SendStart \/ SecondRequest \/ BindInterrupted
                \/ ConnectInterrupted \/ ClientCmEvent \/ ServerCmEvent \/ CqEnter(sd)
                \/ CqLeave(sd) \/ CqSet(sd) \/ CqRepost(sd) \/ DeviceRemoval(sd)
         PROVE  CompletionTypes'
    <2>1. UNCHANGED <<cq>>
      BY <1>14
         DEF ServerRequest, ServerSetup, ServeSecond, Accept, nmsg_accept, ReadAdvertised,
             ReadCompleted, ResetConnected, GoAhead, nmsg_bind_client, ClientSetup,
             MakeMessage, SendMessage, ResolveAddr, SendStart, SecondRequest, BindInterrupted,
             ConnectInterrupted, ClientCmEvent, ServerCmEvent, CqEnter, CqLeave, CqSet,
             CqRepost, DeviceRemoval, Made, SetupFails, adapter, handler, session, link
    <2> QED  BY <2>1, <1>0
  <1>15. CASE UNCHANGED vars  BY <1>0, <1>15 DEF vars, adapter, handler, session, link
  <1> QED
    BY <1>1, <1>2, <1>3, <1>4, <1>5, <1>6, <1>7, <1>8, <1>9, <1>10, <1>11, <1>12, <1>13, <1>14,
       <1>15
       DEF Next, ServerThread, ClientThread, Caller, Nic, CqHandler, Fault, Side

(***************************************************************************)
(* The flags.                                                              *)
(***************************************************************************)
LEMMA FlagStep == LinkTypes /\ [Next]_vars => FlagTypes'
  <1> SUFFICES ASSUME LinkTypes, [Next]_vars PROVE FlagTypes'  OBVIOUS
  <1>0. ASSUME UNCHANGED <<qp, recv, arm, cqh, decided>>
        PROVE  FlagTypes'
    BY <1>0 DEF LinkTypes, FlagTypes
  <1> USE DEF LinkTypes, FlagTypes, Side, IDLE, CONNECT_REQUEST, ADDR_RESOLVED, ROUTE_RESOLVED,
              CONNECTED, RDMA_READ_ADV, RDMA_READ_COMPLETE, RDMA_WRITE_ADV,
              RDMA_WRITE_COMPLETE, ERROR
  <1>1. ASSUME ServerSetup PROVE FlagTypes'
    <2>1. CASE Made("server")  BY <2>1 DEF Made
    <2>2. CASE UNCHANGED <<adapter, handler>>  BY <2>2 DEF adapter, handler
    <2> QED  BY <1>1, <2>1, <2>2 DEF ServerSetup, SetupFails
  <1>2. ASSUME Accept PROVE FlagTypes'
    BY <1>2 DEF Accept, handler
  <1>3. ASSUME Teardown PROVE FlagTypes'
    BY <1>3, FreedTypes DEF Teardown, adapter, handler
  <1>4. ASSUME ClientSetup PROVE FlagTypes'
    <2>1. CASE Made("client")  BY <2>1 DEF Made
    <2>2. CASE UNCHANGED <<adapter, handler>>  BY <2>2 DEF adapter, handler
    <2> QED  BY <1>4, <2>1, <2>2 DEF ClientSetup, SetupFails
  <1>5. ASSUME Connect PROVE FlagTypes'
    BY <1>5, FreedTypes DEF Connect, adapter, handler
  <1>6. ASSUME nmsg_connect_client PROVE FlagTypes'
    BY <1>6, FreedTypes DEF nmsg_connect_client, adapter, handler
  <1>7. ASSUME nmsg_destroy_client PROVE FlagTypes'
    BY <1>7, FreedTypes DEF nmsg_destroy_client, adapter, handler
  <1>8. ASSUME nmsg_stop_server PROVE FlagTypes'
    BY <1>8, FreedTypes DEF nmsg_stop_server, adapter, handler
  <1>9. ASSUME ClientCmEvent PROVE FlagTypes'
    BY <1>9 DEF ClientCmEvent, handler
  <1>10. ASSUME NicReg PROVE FlagTypes'
    BY <1>10 DEF NicReg, Notified, Break
  <1>11. ASSUME NicRead PROVE FlagTypes'
    BY <1>11 DEF NicRead, Notified, Break
  <1>12. ASSUME ServerCqRecv PROVE FlagTypes'
    BY <1>12 DEF ServerCqRecv, Polls, Decides, server_recv
  <1>13. ASSUME ClientCqRecv PROVE FlagTypes'
    BY <1>13 DEF ClientCqRecv, Polls, Decides, client_recv
  <1>14. ASSUME NEW sd \in Side, NicSend(sd) PROVE FlagTypes'
    <2>1. qp' \in [Side -> {"none", "init", "up", "err"}]
      BY <1>14, BreakTypes DEF NicSend
    <2>2. recv' \in [Side -> BOOLEAN]  BY <1>14 DEF NicSend, Break
    <2>3. arm' \in [Side -> {"off", "armed", "event"}]
      <3>1. \E S : Notified(S)  BY <1>14 DEF NicSend, Break
      <3> QED  BY <3>1 DEF Notified
    <2> QED  BY <1>14, <2>1, <2>2, <2>3 DEF NicSend
  <1>15. ASSUME NEW sd \in Side, CqEnter(sd) PROVE FlagTypes'
    BY <1>15 DEF CqEnter, adapter
  <1>16. ASSUME NEW sd \in Side, CqLeave(sd) PROVE FlagTypes'
    BY <1>16 DEF CqLeave, adapter
  <1>17. ASSUME NEW sd \in Side, CqSet(sd) PROVE FlagTypes'
    BY <1>17 DEF CqSet, adapter
  <1>18. ASSUME NEW sd \in Side, CqRepost(sd) PROVE FlagTypes'
    <2> USE DEF CqRepost
    <2>1. qp' = qp /\ arm' = arm /\ decided' = decided  BY <1>18
    <2>2. recv' \in [Side -> BOOLEAN]
      <3>1. recv' \in {recv, [recv EXCEPT ![sd] = TRUE], [recv EXCEPT ![sd] = FALSE]}
        <4>1. CASE qp[sd] = "up"  BY <1>18, <4>1
        <4>2. CASE qp[sd] # "up"
          <5>1. (qp[sd] = "up") = FALSE  BY <4>2, Zenon
          <5> QED  BY <1>18, <5>1
        <4> QED  BY <4>1, <4>2
      <3> QED  BY <3>1
    <2>3. cqh' = [cqh EXCEPT ![sd] = "poll"] \/ cqh' = [cqh EXCEPT ![sd] = "out"]  BY <1>18
    <2>4. cqh' \in [Side -> {"out", "poll", "recv", "post"}]  BY <2>3
    <2> QED  BY <2>1, <2>2, <2>4
  <1>19. ASSUME NEW sd \in Side, CqError(sd) PROVE FlagTypes'
    BY <1>19 DEF CqError, Polls
  <1>20. ASSUME NEW sd \in Side, LinkLoss(sd) PROVE FlagTypes'
    BY <1>20 DEF LinkLoss, Notified, Break
  <1>21. ASSUME NEW sd \in Side, DeviceRemoval(sd) PROVE FlagTypes'
    BY <1>21 DEF DeviceRemoval, handler
  <1>22. ASSUME NEW sd \in Side,
                \/ ServerRequest \/ ServeSecond \/ nmsg_accept \/ ReadAdvertised
                \/ ReadCompleted \/ ResetConnected \/ GoAhead \/ nmsg_bind_client
                \/ MakeMessage \/ SendMessage \/ ResolveAddr \/ SendStart \/ SecondRequest
                \/ BindInterrupted \/ ConnectInterrupted \/ ServerCmEvent \/ CqRead
         PROVE  FlagTypes'
    <2>1. UNCHANGED <<qp, recv, arm, cqh, decided>>
      BY <1>22
         DEF ServerRequest, ServeSecond, nmsg_accept, ReadAdvertised, ReadCompleted,
             ResetConnected, GoAhead, nmsg_bind_client, MakeMessage, SendMessage, ResolveAddr,
             SendStart, SecondRequest, BindInterrupted, ConnectInterrupted, ServerCmEvent,
             CqRead, adapter, handler, session, link
    <2> QED  BY <2>1, <1>0
  <1>23. CASE UNCHANGED vars  BY <1>0, <1>23 DEF vars, adapter, handler, session, link
  <1> QED
    BY <1>1, <1>2, <1>3, <1>4, <1>5, <1>6, <1>7, <1>8, <1>9, <1>10, <1>11, <1>12, <1>13, <1>14,
       <1>15, <1>16, <1>17, <1>18, <1>19, <1>20, <1>21, <1>22, <1>23
       DEF Next, ServerThread, ClientThread, Caller, Nic, CqHandler, Fault, Side

(***************************************************************************)
(* The data.                                                               *)
(***************************************************************************)
LEMMA DataStep == LinkTypes /\ NonZero /\ [Next]_vars => DataTypes'
  <1> SUFFICES ASSUME LinkTypes, NonZero, [Next]_vars PROVE DataTypes'  OBVIOUS
  <1>0. ASSUME UNCHANGED <<pc, requested, key, start_buf, mr, remote_rkey, rdma_buf, shown,
                             posted, made, stray, hasty, lost, second, faults>>
        PROVE  DataTypes'
    BY <1>0 DEF LinkTypes, DataTypes
  <1> USE DEF LinkTypes, ControlTypes, DataTypes, Side
  <1>1. ASSUME ServerRequest PROVE DataTypes'
    BY <1>1 DEF ServerRequest, Goto, adapter, handler, session, link
  <1>2. ASSUME ServerSetup PROVE DataTypes'
    BY <1>2 DEF ServerSetup, Goto, Made, SetupFails, adapter, handler, session, link
  <1>3. ASSUME ServeSecond PROVE DataTypes'
    BY <1>3 DEF ServeSecond, Goto, adapter, handler, session, link
  <1>4. ASSUME Accept PROVE DataTypes'
    BY <1>4 DEF Accept, Goto, handler, session, link
  <1>5. ASSUME nmsg_accept PROVE DataTypes'
    BY <1>5 DEF nmsg_accept, Goto, adapter, handler, session, link
  <1>6. ASSUME ReadAdvertised PROVE DataTypes'
    BY <1>6 DEF ReadAdvertised, Goto, handler, session, link
  <1>7. ASSUME ReadCompleted PROVE DataTypes'
    <2>1. shown' \in Seq([key : Key, data : Key])
      <3> DEFINE S == [key : Key, data : Key]
      <3>1. shown \in Seq(S) /\ rdma_buf \in S  OBVIOUS
      <3> HIDE DEF S
      <3>2. Append(shown, rdma_buf) \in Seq(S)  BY <3>1
      <3>3. shown' \in Seq(S)  BY <1>7, <3>1, <3>2 DEF ReadCompleted
      <3> QED  BY <3>3 DEF S
    <2>2. pc'["client"] = pc["client"]  BY <1>7 DEF ReadCompleted, Goto
    <2>3. UNCHANGED <<requested, key, start_buf, mr, remote_rkey, rdma_buf, posted, made, stray,
                      hasty, lost, second, faults>>
      BY <1>7 DEF ReadCompleted, adapter
    <2> QED  BY <2>1, <2>2, <2>3
  <1>8. ASSUME ResetConnected PROVE DataTypes'
    BY <1>8 DEF ResetConnected, Goto, Overwrites, adapter, handler
  <1>9. ASSUME GoAhead PROVE DataTypes'
    BY <1>9 DEF GoAhead, Goto, handler, session, link
  <1>10. ASSUME Teardown PROVE DataTypes'
    <2>1. mr' \in Key  BY <1>10, FreedTypes DEF Teardown, adapter
    <2>2. pc'["client"] # "make" \/ pc'["client"] = pc["client"]  BY <1>10 DEF Teardown, Goto
    <2> QED  BY <1>10, <2>1, <2>2 DEF Teardown, session, link
  <1>11. ASSUME nmsg_bind_client PROVE DataTypes'
    BY <1>11 DEF nmsg_bind_client, Goto, adapter, handler, session, link
  <1>12. ASSUME ClientSetup PROVE DataTypes'
    BY <1>12 DEF ClientSetup, Goto, Made, SetupFails, adapter, handler, session, link
  <1>13. ASSUME Connect PROVE DataTypes'
    <2>1. mr' \in Key  BY <1>13, FreedTypes DEF Connect, adapter
    <2>2. pc'["client"] # "make" \/ pc'["client"] = pc["client"]  BY <1>13 DEF Connect, Goto
    <2> QED  BY <1>13, <2>1, <2>2 DEF Connect, session, link
  <1>14. ASSUME nmsg_connect_client PROVE DataTypes'
    <2>1. mr' \in Key  BY <1>14, FreedTypes DEF nmsg_connect_client, adapter
    <2>2. pc'["client"] # "make" \/ pc'["client"] = pc["client"]  BY <1>14 DEF nmsg_connect_client, Goto
    <2> QED  BY <1>14, <2>1, <2>2 DEF nmsg_connect_client, session, link
  <1>15. ASSUME MakeMessage PROVE DataTypes'
    <2>1. key' \in Key  BY <1>15, LinkAssumption DEF MakeMessage, Key
    <2>2. pc'["client"] = "send"  BY <1>15 DEF MakeMessage, Goto
    <2> QED  BY <1>15, <2>1, <2>2 DEF MakeMessage
  <1>16. ASSUME SendMessage PROVE DataTypes'
    <2>1. key \in Msg  BY <1>16 DEF SendMessage, NonZero
    <2>2. pc'["client"] = "ready"  BY <1>16 DEF SendMessage, Goto
    <2>3. posted' \subseteq Msg /\ stray' \in BOOLEAN  BY <1>16, <2>1 DEF SendMessage
    <2> QED  BY <1>16, <2>2, <2>3 DEF SendMessage
  <1>17. ASSUME ResolveAddr PROVE DataTypes'
    BY <1>17 DEF ResolveAddr, Goto, adapter, handler, session, link
  <1>18. ASSUME SendStart PROVE DataTypes'
    <2>1. start_buf' \in Key /\ key < MaxMsgs  BY <1>18, LinkAssumption DEF SendStart, Key
    <2>2. hasty' \in BOOLEAN  BY <1>18 DEF SendStart
    <2>3. UNCHANGED <<requested, key, mr, remote_rkey, rdma_buf, shown, posted, made, stray, lost,
                      second, faults>>
      BY <1>18 DEF SendStart, adapter
    <2> QED  BY <2>1, <2>2, <2>3
  <1>19. ASSUME nmsg_destroy_client PROVE DataTypes'
    <2>1. mr' \in Key  BY <1>19, FreedTypes DEF nmsg_destroy_client, adapter
    <2>2. pc'["client"] # "make" \/ pc'["client"] = pc["client"]  BY <1>19 DEF nmsg_destroy_client, Goto
    <2> QED  BY <1>19, <2>1, <2>2 DEF nmsg_destroy_client, session, link
  <1>20. ASSUME nmsg_stop_server PROVE DataTypes'
    <2>1. mr' \in Key  BY <1>20, FreedTypes DEF nmsg_stop_server, adapter
    <2>2. pc'["client"] # "make" \/ pc'["client"] = pc["client"]  BY <1>20 DEF nmsg_stop_server, Goto
    <2> QED  BY <1>20, <2>1, <2>2 DEF nmsg_stop_server, session, link
  <1>21. ASSUME SecondRequest PROVE DataTypes'
    <2>1. faults' \in 0..MaxFaults  BY <1>21, LinkAssumption DEF SecondRequest, Faulty
    <2>2. lost' \in BOOLEAN  BY <1>21 DEF SecondRequest, Overwrites
    <2> QED  BY <1>21, <2>1, <2>2 DEF SecondRequest, adapter
  <1>22. ASSUME BindInterrupted PROVE DataTypes'
    BY <1>22 DEF BindInterrupted, Goto, adapter, handler, session, link
  <1>23. ASSUME ConnectInterrupted PROVE DataTypes'
    BY <1>23 DEF ConnectInterrupted, Goto, adapter, handler, session, link
  <1>24. ASSUME NicReg PROVE DataTypes'
    <2>1. sq["client"] # <<>>  BY <1>24 DEF NicReg, AtHead
    <2>2. Head(sq["client"]).key \in Key  BY <2>1, QueueOps DEF Req
    <2>3. mr' \in Key  BY <1>24, <2>2 DEF NicReg, Break
    <2> QED  BY <1>24, <2>3 DEF NicReg, session, link
  <1>25. ASSUME NicRead PROVE DataTypes'
    <2>1. sq["server"] # <<>>  BY <1>25 DEF NicRead, AtHead
    <2>2. Head(sq["server"]).key \in Key  BY <2>1, QueueOps DEF Req
    <2>3. rdma_buf' = rdma_buf \/ rdma_buf' = [key |-> Head(sq["server"]).key, data |-> start_buf]
      BY <1>25 DEF NicRead
    <2>4. rdma_buf' \in [key : Key, data : Key]  BY <2>2, <2>3
    <2>5. mr' = mr  BY <1>25 DEF NicRead, Break
    <2> QED  BY <1>25, <2>4, <2>5 DEF NicRead
  <1>26. ASSUME CqRead PROVE DataTypes'
    BY <1>26 DEF CqRead, Overwrites, Polls, handler
  <1>27. ASSUME ServerCqRecv PROVE DataTypes'
    <2>1. cq["server"] # <<>>  BY <1>27 DEF ServerCqRecv, Polls
    <2>2. Head(cq["server"]).key \in Key  BY <2>1, QueueOps DEF Completion
    <2>3. remote_rkey' \in Key  BY <1>27, <2>2 DEF ServerCqRecv
    <2> QED  BY <1>27, <2>3 DEF ServerCqRecv
  <1>28. ASSUME NEW sd \in Side, NicSend(sd) PROVE DataTypes'
    <2>1. mr' \in Key  BY <1>28, LinkAssumption DEF NicSend, Break, Key
    <2> QED  BY <1>28, <2>1 DEF NicSend, session, link
  <1>29. ASSUME NEW sd \in Side, CqSet(sd) PROVE DataTypes'
    BY <1>29 DEF CqSet, Overwrites, adapter
  <1>30. ASSUME NEW sd \in Side, LinkLoss(sd) PROVE DataTypes'
    <2>1. faults' \in 0..MaxFaults  BY <1>30, LinkAssumption DEF LinkLoss, Faulty
    <2> QED  BY <1>30, <2>1 DEF LinkLoss, Break, session
  <1>31. ASSUME NEW sd \in Side, DeviceRemoval(sd) PROVE DataTypes'
    <2>1. faults' \in 0..MaxFaults  BY <1>31, LinkAssumption DEF DeviceRemoval, Faulty
    <2> QED  BY <1>31, <2>1 DEF DeviceRemoval, Break, session
  <1>32. ASSUME NEW sd \in Side,
                \/ ClientCmEvent \/ ServerCmEvent \/ ClientCqRecv \/ CqEnter(sd)
                \/ CqLeave(sd) \/ CqRepost(sd) \/ CqError(sd)
         PROVE  DataTypes'
    <2>1. UNCHANGED <<pc, requested, key, start_buf, mr, remote_rkey, rdma_buf, shown, posted,
                      made, stray, hasty, lost, second, faults>>
      BY <1>32
         DEF ClientCmEvent, ServerCmEvent, ClientCqRecv, CqEnter, CqLeave, CqRepost, CqError,
             Decides, adapter, handler, session, link
    <2> QED  BY <2>1, <1>0
  <1>33. CASE UNCHANGED vars  BY <1>0, <1>33 DEF vars, adapter, handler, session, link
  <1> QED
    BY <1>1, <1>2, <1>3, <1>4, <1>5, <1>6, <1>7, <1>8, <1>9, <1>10, <1>11, <1>12, <1>13, <1>14,
       <1>15, <1>16, <1>17, <1>18, <1>19, <1>20, <1>21, <1>22, <1>23, <1>24, <1>25, <1>26,
       <1>27, <1>28, <1>29, <1>30, <1>31, <1>32, <1>33
       DEF Next, ServerThread, ClientThread, Caller, Nic, CqHandler, Fault, Side

\* All of them together.
LEMMA TypesStep == LinkTypes /\ NonZero /\ [Next]_vars => LinkTypes'
  BY ControlStep, EventStep, RequestStep, CompletionStep, FlagStep, DataStep DEF LinkTypes

-----------------------------------------------------------------------------

(***************************************************************************)
(* Completions in a queue that grows at its end and shrinks at its head.   *)
(***************************************************************************)
LEMMA AppendOp ==
    ASSUME NEW s \in Seq(Completion), NEW x \in Completion
    PROVE  /\ \A op : OpIn(Append(s, x), op) <=> OpIn(s, op) \/ x.op = op
           /\ \A ops : OnceOf(s, ops) /\ (x.op \notin ops \/ \A op \in ops : ~OpIn(s, op)) =>
                         OnceOf(Append(s, x), ops)
           /\ \A k : RecvIn(Append(s, x), k) <=> RecvIn(s, k) \/ (x.op = "recv" /\ x.key = k)
  <1> DEFINE a == Append(s, x)
  <1>1. /\ Len(s) \in Nat /\ Len(a) = Len(s) + 1 /\ a[Len(a)] = x
        /\ \A n \in 1..Len(s) : a[n] = s[n]
    BY AppendProperties
  <1>2. \A n \in 1..Len(a) : n \in 1..Len(s) \/ n = Len(a)  BY <1>1
  <1>3. 1..Len(s) \subseteq 1..Len(a) /\ Len(a) \in 1..Len(a)  BY <1>1
  <1> HIDE DEF a
  <1>4. \A op : OpIn(a, op) <=> OpIn(s, op) \/ x.op = op  BY <1>1, <1>2, <1>3 DEF OpIn
  <1>5. ASSUME NEW ops, OnceOf(s, ops), x.op \notin ops \/ \A op \in ops : ~OpIn(s, op)
        PROVE  OnceOf(a, ops)
    <2> SUFFICES ASSUME NEW m \in 1..Len(a), NEW n \in 1..Len(a), a[m].op \in ops, a[n].op \in ops
                 PROVE  m = n
      BY DEF OnceOf
    <2>1. \A i \in 1..Len(s) : OpIn(s, s[i].op)  BY DEF OpIn
    <2> QED  BY <1>1, <1>2, <1>5, <2>1 DEF OnceOf
  <1>6. \A k : RecvIn(a, k) <=> RecvIn(s, k) \/ (x.op = "recv" /\ x.key = k)
    BY <1>1, <1>2, <1>3 DEF RecvIn
  <1> QED  BY <1>4, <1>5, <1>6 DEF a

\* The first completion is taken.
LEMMA TailOp ==
    ASSUME NEW s \in Seq(Completion), s # <<>>
    PROVE  /\ \A op : OpIn(s, op) <=> OpIn(Tail(s), op) \/ Head(s).op = op
           /\ \A ops : OnceOf(s, ops) => /\ OnceOf(Tail(s), ops)
                                         /\ Head(s).op \in ops => \A op \in ops : ~OpIn(Tail(s), op)
           /\ \A k : RecvIn(Tail(s), k) => RecvIn(s, k)
           /\ Head(s).op = "recv" => RecvIn(s, Head(s).key)
  <1> DEFINE t == Tail(s)
  <1>1. /\ Len(s) \in Nat /\ Len(s) > 0 /\ Len(t) = Len(s) - 1 /\ Head(s) = s[1]
        /\ \A n \in 1..Len(t) : t[n] = s[n + 1]
    BY HeadTailProperties, LenProperties
  <1>2. \A n \in 1..Len(t) : n + 1 \in 1..Len(s) /\ n + 1 # 1  BY <1>1
  <1>3. 1 \in 1..Len(s) /\ \A n \in 1..Len(s) : n = 1 \/ (n - 1 \in 1..Len(t) /\ s[n] = t[n - 1])
    BY <1>1
  <1> HIDE DEF t
  <1>4. \A op : OpIn(s, op) <=> OpIn(t, op) \/ Head(s).op = op  BY <1>1, <1>2, <1>3 DEF OpIn
  <1>5. ASSUME NEW ops, OnceOf(s, ops)
        PROVE  OnceOf(t, ops) /\ (Head(s).op \in ops => \A op \in ops : ~OpIn(t, op))
    <2>1. \A m, n \in 1..Len(t) : m + 1 = n + 1 => m = n  BY <1>1
    <2>2. OnceOf(t, ops)  BY <1>1, <1>2, <1>5, <2>1 DEF OnceOf
    <2>3. Head(s).op \in ops => \A op \in ops : ~OpIn(t, op)
      BY <1>1, <1>2, <1>3, <1>5 DEF OnceOf, OpIn
    <2> QED  BY <2>2, <2>3
  <1>6. (\A k : RecvIn(t, k) => RecvIn(s, k)) /\ (Head(s).op = "recv" => RecvIn(s, Head(s).key))
    BY <1>1, <1>2, <1>3 DEF RecvIn
  <1> QED  BY <1>4, <1>5, <1>6 DEF t

\* The same, for the completion queue of an end.
LEMMA QueueAppend ==
    ASSUME LinkTypes, NEW s \in Side, NEW c \in Completion, cq'[s] = Append(cq[s], c)
    PROVE  /\ OpIn(cq'[s], "recv") <=> OpIn(cq[s], "recv") \/ c.op = "recv"
           /\ OpIn(cq'[s], "read") <=> OpIn(cq[s], "read") \/ c.op = "read"
           /\ /\ OnceOf(cq[s], {"recv", "read"})
              /\ c.op \notin {"recv", "read"} \/ (~OpIn(cq[s], "recv") /\ ~OpIn(cq[s], "read"))
              => OnceOf(cq'[s], {"recv", "read"})
           /\ OnceOf(cq[s], {"recv"}) /\ (c.op # "recv" \/ ~OpIn(cq[s], "recv")) => OnceOf(cq'[s], {"recv"})
           /\ \A k : RecvIn(cq'[s], k) <=> RecvIn(cq[s], k) \/ (c.op = "recv" /\ c.key = k)
  <1>1. cq[s] \in Seq(Completion)  BY QueueOps
  <1>2. \A op : OpIn(cq'[s], op) <=> OpIn(cq[s], op) \/ c.op = op  BY <1>1, AppendOp
  <1>3. \A ops : OnceOf(cq[s], ops) /\ (c.op \notin ops \/ \A op \in ops : ~OpIn(cq[s], op)) => OnceOf(cq'[s], ops)
    BY <1>1, AppendOp
  <1>4. \A k : RecvIn(cq'[s], k) <=> RecvIn(cq[s], k) \/ (c.op = "recv" /\ c.key = k)
    BY <1>1, AppendOp
  <1>5. /\ OpIn(cq'[s], "recv") <=> OpIn(cq[s], "recv") \/ c.op = "recv"
        /\ OpIn(cq'[s], "read") <=> OpIn(cq[s], "read") \/ c.op = "read"
    BY <1>2
  <1>6. /\ OnceOf(cq[s], {"recv", "read"})
        /\ c.op \notin {"recv", "read"} \/ (~OpIn(cq[s], "recv") /\ ~OpIn(cq[s], "read"))
        => OnceOf(cq'[s], {"recv", "read"})
    BY <1>3
  <1>7. OnceOf(cq[s], {"recv"}) /\ (c.op # "recv" \/ ~OpIn(cq[s], "recv")) => OnceOf(cq'[s], {"recv"})
    BY <1>3
  <1> QED  BY <1>4, <1>5, <1>6, <1>7

\* The same for the queue of an end in a step.
LEMMA QueueTail ==
    ASSUME LinkTypes, NEW s \in Side, cq[s] # <<>>, cq'[s] = Tail(cq[s])
    PROVE  /\ OpIn(cq[s], "recv") <=> OpIn(cq'[s], "recv") \/ Head(cq[s]).op = "recv"
           /\ OpIn(cq[s], "read") <=> OpIn(cq'[s], "read") \/ Head(cq[s]).op = "read"
           /\ OnceOf(cq[s], {"recv", "read"}) => OnceOf(cq'[s], {"recv", "read"})
           /\ OnceOf(cq[s], {"recv", "read"}) /\ Head(cq[s]).op \in {"recv", "read"} =>
                ~OpIn(cq'[s], "recv") /\ ~OpIn(cq'[s], "read")
           /\ OnceOf(cq[s], {"recv"}) => OnceOf(cq'[s], {"recv"})
           /\ OnceOf(cq[s], {"recv"}) /\ Head(cq[s]).op = "recv" => ~OpIn(cq'[s], "recv")
           /\ \A k : RecvIn(cq'[s], k) => RecvIn(cq[s], k)
           /\ Head(cq[s]).op = "recv" => RecvIn(cq[s], Head(cq[s]).key)
  <1>1. cq[s] \in Seq(Completion)  BY QueueOps
  <1>2. \A op : OpIn(cq[s], op) <=> OpIn(cq'[s], op) \/ Head(cq[s]).op = op  BY <1>1, TailOp
  <1>3. \A ops : OnceOf(cq[s], ops) => /\ OnceOf(cq'[s], ops)
                                       /\ Head(cq[s]).op \in ops => \A op \in ops : ~OpIn(cq'[s], op)
    BY <1>1, TailOp
  <1>4. /\ OpIn(cq[s], "recv") <=> OpIn(cq'[s], "recv") \/ Head(cq[s]).op = "recv"
        /\ OpIn(cq[s], "read") <=> OpIn(cq'[s], "read") \/ Head(cq[s]).op = "read"
    BY <1>2
  <1>5. OnceOf(cq[s], {"recv", "read"}) =>
          /\ OnceOf(cq'[s], {"recv", "read"})
          /\ Head(cq[s]).op \in {"recv", "read"} => ~OpIn(cq'[s], "recv") /\ ~OpIn(cq'[s], "read")
    BY <1>3
  <1>6. OnceOf(cq[s], {"recv"}) => /\ OnceOf(cq'[s], {"recv"})
                                   /\ Head(cq[s]).op = "recv" => ~OpIn(cq'[s], "recv")
    BY <1>3
  <1>7. (\A k : RecvIn(cq'[s], k) => RecvIn(cq[s], k)) /\ (Head(cq[s]).op = "recv" => RecvIn(cq[s], Head(cq[s]).key))
    BY <1>1, TailOp
  <1> QED  BY <1>4, <1>5, <1>6, <1>7

\* A queue of one is not empty.
LEMMA NotEmpty == \A x : <<x>> # <<>>
  OBVIOUS

\* The empty queue.
LEMMA NoOp ==
    (\A op : ~OpIn(<<>>, op)) /\ (\A ops : OnceOf(<<>>, ops)) /\ (\A k : ~RecvIn(<<>>, k))
  BY DEF OpIn, OnceOf, RecvIn

(***************************************************************************)
(* A broken request adds an error to the completions, and nothing else.    *)
(***************************************************************************)
LEMMA BreakQueue ==
    ASSUME LinkTypes, NEW sd \in Side, NEW refused, Break(sd, refused), NEW s \in Side
    PROVE  /\ \A op : op # "error" => (OpIn(cq'[s], op) <=> OpIn(cq[s], op))
           /\ \A ops : "error" \notin ops /\ OnceOf(cq[s], ops) => OnceOf(cq'[s], ops)
           /\ \A k : RecvIn(cq'[s], k) <=> RecvIn(cq[s], k)
  <1> DEFINE e == [op |-> "error", key |-> 0]
  <1>1. e \in Completion /\ e.op = "error"  BY LinkAssumption DEF Completion, Key
  <1>2. cq'[s] = IF s = sd THEN Append(cq[s], e) ELSE cq[s]
    BY DEF Break, Completed, LinkTypes, CompletionTypes
  <1> HIDE DEF e
  <1>3. cq[s] \in Seq(Completion)  BY QueueOps
  <1>4. CASE s = sd
    <2>1. cq'[s] = Append(cq[s], e)  BY <1>2, <1>4
    <2> QED  BY <1>1, <1>3, <2>1, AppendOp
  <1> QED  BY <1>2, <1>4

(***************************************************************************)
(* The keys of the requests.                                               *)
(***************************************************************************)
LEMMA KeysQueue ==
    ASSUME NEW s \in Seq(Req), KeysIn(s)
    PROVE  /\ KeysIn(<<>>)
           /\ s # <<>> => Head(s).key \in Msg /\ KeysIn(Tail(s))
           /\ \A r \in Req : r.key \in Msg => KeysIn(s \o <<r>>)
  <1>1. KeysIn(<<>>)  BY DEF KeysIn
  <1>2. s # <<>> => Head(s).key \in Msg /\ KeysIn(Tail(s))
    <2> SUFFICES ASSUME s # <<>> PROVE Head(s).key \in Msg /\ KeysIn(Tail(s))  OBVIOUS
    <2>1. /\ Len(s) \in Nat /\ Len(s) > 0 /\ Len(Tail(s)) = Len(s) - 1 /\ Head(s) = s[1]
          /\ \A n \in 1..Len(Tail(s)) : Tail(s)[n] = s[n + 1]
      BY HeadTailProperties, LenProperties
    <2>2. 1 \in 1..Len(s) /\ \A n \in 1..Len(Tail(s)) : n + 1 \in 1..Len(s)  BY <2>1
    <2> QED  BY <2>1, <2>2 DEF KeysIn
  <1>3. ASSUME NEW r \in Req, r.key \in Msg PROVE KeysIn(s \o <<r>>)
    <2>1. /\ <<r>> \in Seq(Req) /\ Len(<<r>>) = 1 /\ <<r>>[1] = r
      OBVIOUS
    <2>2. /\ Len(s \o <<r>>) = Len(s) + 1 /\ Len(s) \in Nat
          /\ \A n \in 1..Len(s) : (s \o <<r>>)[n] = s[n]
          /\ (s \o <<r>>)[Len(s) + 1] = r
      BY <2>1, ConcatProperties
    <2>3. \A n \in 1..(Len(s) + 1) : n \in 1..Len(s) \/ n = Len(s) + 1  BY <2>2
    <2> QED  BY <1>3, <2>2, <2>3 DEF KeysIn
  <1> QED  BY <1>1, <1>2, <1>3

\* The send queues after a posting, after a request is done, and after a failure.
LEMMA KeysPosted ==
    ASSUME LinkTypes, NonZero, NEW sd \in Side, NEW r \in Req, r.key \in Msg, Post(sd, <<r>>)
    PROVE  /\ KeysIn(sq'["client"]) /\ KeysIn(sq'["server"])
           /\ \A s \in Side \ {sd} : sq'[s] = sq[s]
  <1>1. KeysIn(sq[sd]) /\ sq[sd] \in Seq(Req)  BY QueueOps DEF NonZero, Side
  <1>2. KeysIn(sq[sd] \o <<r>>)  BY <1>1, KeysQueue
  <1>3. sq' = sq \/ sq' = [sq EXCEPT ![sd] = sq[sd] \o <<r>>]  BY DEF Post
  <1> QED  BY <1>2, <1>3 DEF NonZero, Side, LinkTypes, RequestTypes

LEMMA KeysDone ==
    ASSUME LinkTypes, NonZero, NEW sd \in Side, sq[sd] # <<>>, sq' = Executed(sd)
    PROVE  /\ KeysIn(sq'["client"]) /\ KeysIn(sq'["server"]) /\ Head(sq[sd]).key \in Msg
           /\ \A s \in Side : sq'[s] # <<>> => sq[s] # <<>>
  <1>1. KeysIn(sq[sd]) /\ sq[sd] \in Seq(Req)  BY QueueOps DEF NonZero, Side
  <1>2. Head(sq[sd]).key \in Msg /\ KeysIn(Tail(sq[sd]))  BY <1>1, KeysQueue
  <1>3. \A s \in Side : sq'[s] = IF s = sd THEN Tail(sq[sd]) ELSE sq[s]
    BY DEF Executed, LinkTypes, RequestTypes
  <1> QED  BY <1>2, <1>3 DEF NonZero, Side

LEMMA KeysGone ==
    ASSUME LinkTypes, NonZero, \A s \in Side : sq'[s] \in {sq[s], <<>>}
    PROVE  /\ KeysIn(sq'["client"]) /\ KeysIn(sq'["server"])
           /\ \A s \in Side : sq'[s] # <<>> => sq[s] # <<>>
  <1>1. KeysIn(<<>>)  BY DEF KeysIn
  <1> QED  BY <1>1 DEF NonZero, Side

(***************************************************************************)
(* No key in use is 0.                                                     *)
(***************************************************************************)
LEMMA NonZeroStep == LinkTypes /\ NonZero /\ [Next]_vars => NonZero'
  <1> SUFFICES ASSUME LinkTypes, NonZero, [Next]_vars PROVE NonZero'  OBVIOUS
  <1>0. ASSUME UNCHANGED <<state, pc, sq, cq, mr, cqh, remote_rkey, rdma_buf, shown, key,
                             start_buf>>
        PROVE  NonZero'
    BY <1>0 DEF NonZero, Received
  <1> USE DEF LinkTypes, ControlTypes, RequestTypes, CompletionTypes, FlagTypes, NonZero,
              Received, Side, IDLE, CONNECT_REQUEST, ADDR_RESOLVED, ROUTE_RESOLVED, CONNECTED,
              RDMA_READ_ADV, RDMA_READ_COMPLETE, RDMA_WRITE_ADV, RDMA_WRITE_COMPLETE, ERROR
  <1>1. ASSUME ServerRequest PROVE NonZero'
    BY <1>1 DEF ServerRequest, Goto, adapter, handler, session, link
  <1>2. ASSUME ServerSetup PROVE NonZero'
    BY <1>2 DEF ServerSetup, Goto, Made, SetupFails, adapter, handler, session, link
  <1>3. ASSUME ServeSecond PROVE NonZero'
    BY <1>3 DEF ServeSecond, Goto, adapter, handler, session, link
  <1>4. ASSUME Accept PROVE NonZero'
    BY <1>4 DEF Accept, Goto, handler, session, link
  <1>5. ASSUME nmsg_accept PROVE NonZero'
    BY <1>5 DEF nmsg_accept, Goto, adapter, handler, session, link
  <1>6. ASSUME ReadAdvertised PROVE NonZero'
    <2>1. UNCHANGED <<cq, mr, cqh, remote_rkey, rdma_buf, shown, key, start_buf, pc["client"]>>
      BY <1>6 DEF ReadAdvertised, Goto, handler, session, link
    <2>2. state'["server"] \in {state["server"], ERROR}  BY <1>6 DEF ReadAdvertised, SetState
    <2>3. CASE UNCHANGED sq /\ pc'["server"] = "teardown"  BY <2>1, <2>2, <2>3
    <2>4. CASE state["server"] = RDMA_READ_ADV /\ Post("server", <<[op |-> "read", key |-> remote_rkey]>>)
      <3>1. remote_rkey \in Msg  BY <2>4
      <3>2. [op |-> "read", key |-> remote_rkey] \in Req  BY DEF Req, DataTypes
      <3>3. KeysIn(sq'["client"]) /\ KeysIn(sq'["server"]) /\ sq'["client"] = sq["client"]
        BY <2>4, <3>1, <3>2, KeysPosted
      <3> QED  BY <2>1, <2>2, <3>1, <3>3
    <2> QED  BY <1>6, <2>3, <2>4 DEF ReadAdvertised, Goto
  <1>7. ASSUME ReadCompleted PROVE NonZero'
    <2>1. UNCHANGED <<state, sq, cq, mr, cqh, remote_rkey, rdma_buf, key, start_buf, pc["client"]>>
      BY <1>7 DEF ReadCompleted, Goto, adapter, handler
    <2>2. pc'["server"] \in {"reset", "adv"} /\ pc["server"] = "read"  BY <1>7 DEF ReadCompleted, Goto
    <2>3. \A n \in 1..Len(shown') : Holds(shown'[n])
      <3>1. CASE shown' = shown  BY <3>1
      <3>2. CASE shown' = Append(shown, rdma_buf) /\ state["server"] = RDMA_READ_COMPLETE
        <4>1. /\ Len(shown) \in Nat /\ Len(shown') = Len(shown) + 1 /\ shown'[Len(shown')] = rdma_buf
              /\ \A n \in 1..Len(shown) : shown'[n] = shown[n]
          BY <3>2, AppendProperties DEF DataTypes
        <4>2. \A n \in 1..Len(shown') : n \in 1..Len(shown) \/ n = Len(shown')  BY <4>1
        <4>3. Holds(rdma_buf)  BY <3>2
        <4> QED  BY <4>1, <4>2, <4>3
      <3> QED  BY <1>7, <3>1, <3>2 DEF ReadCompleted
    <2> QED  BY <2>1, <2>2, <2>3
  <1>8. ASSUME ResetConnected PROVE NonZero'
    BY <1>8 DEF ResetConnected, Goto, SetState, Overwrites, adapter, handler
  <1>9. ASSUME GoAhead PROVE NonZero'
    <2>1. remote_rkey \in Msg  BY <1>9 DEF GoAhead
    <2>2. [op |-> "send", key |-> remote_rkey] \in Req  BY DEF Req, DataTypes
    <2>3. KeysIn(sq'["client"]) /\ KeysIn(sq'["server"])
      BY <1>9, <2>1, <2>2, KeysPosted DEF GoAhead
    <2>4. sq'["client"] = sq["client"]  BY <1>9 DEF GoAhead, Post
    <2> QED  BY <1>9, <2>1, <2>3, <2>4 DEF GoAhead, Goto, SetState, handler, session, link
  <1>10. ASSUME Teardown PROVE NonZero'
    <2>1. \A s \in Side : sq'[s] \in {sq[s], <<>>} /\ cq'[s] \in {cq[s], <<>>} /\ cqh'[s] \in {cqh[s], "out"}
      BY <1>10 DEF Teardown, Freed, adapter, handler
    <2>2. /\ KeysIn(sq'["client"]) /\ KeysIn(sq'["server"])
          /\ \A s \in Side : sq'[s] # <<>> => sq[s] # <<>>
      BY <2>1, KeysGone
    <2>3. /\ ~RecvIn(cq'["server"], 0)
          /\ OpIn(cq'["server"], "read") => OpIn(cq["server"], "read")
      BY <2>1, NoOp
    <2>4. mr' \in {mr, 0}  BY <1>10 DEF Teardown, Freed, adapter
    <2>5. UNCHANGED state /\ UNCHANGED <<remote_rkey, rdma_buf, shown, key, start_buf>>
      BY <1>10 DEF Teardown, session, link
    <2>6. \A s \in Side : pc'[s] = pc[s] \/ pc'[s] \in {"failed", "connecting", "ready", "closed", "done", "undefined"}
      BY <1>10 DEF Teardown, Goto
    <2> QED  BY <2>1, <2>2, <2>3, <2>4, <2>5, <2>6
  <1>11. ASSUME nmsg_bind_client PROVE NonZero'
    BY <1>11 DEF nmsg_bind_client, Goto, adapter, handler, session, link
  <1>12. ASSUME ClientSetup PROVE NonZero'
    BY <1>12 DEF ClientSetup, Goto, Made, SetupFails, adapter, handler, session, link
  <1>13. ASSUME Connect PROVE NonZero'
    <2>1. \A s \in Side : sq'[s] \in {sq[s], <<>>} /\ cq'[s] \in {cq[s], <<>>} /\ cqh'[s] \in {cqh[s], "out"}
      BY <1>13 DEF Connect, Freed, adapter, handler
    <2>2. /\ KeysIn(sq'["client"]) /\ KeysIn(sq'["server"])
          /\ \A s \in Side : sq'[s] # <<>> => sq[s] # <<>>
      BY <2>1, KeysGone
    <2>3. /\ ~RecvIn(cq'["server"], 0)
          /\ OpIn(cq'["server"], "read") => OpIn(cq["server"], "read")
      BY <2>1, NoOp
    <2>4. mr' \in {mr, 0}  BY <1>13 DEF Connect, Freed, adapter
    <2>5. UNCHANGED state /\ UNCHANGED <<remote_rkey, rdma_buf, shown, key, start_buf>>
      BY <1>13 DEF Connect, session, link
    <2>6. \A s \in Side : pc'[s] = pc[s] \/ pc'[s] \in {"failed", "connecting", "ready", "closed", "done", "undefined"}
      BY <1>13 DEF Connect, Goto
    <2> QED  BY <2>1, <2>2, <2>3, <2>4, <2>5, <2>6
  <1>14. ASSUME nmsg_connect_client PROVE NonZero'
    <2>1. \A s \in Side : sq'[s] \in {sq[s], <<>>} /\ cq'[s] \in {cq[s], <<>>} /\ cqh'[s] \in {cqh[s], "out"}
      BY <1>14 DEF nmsg_connect_client, Freed, adapter, handler
    <2>2. /\ KeysIn(sq'["client"]) /\ KeysIn(sq'["server"])
          /\ \A s \in Side : sq'[s] # <<>> => sq[s] # <<>>
      BY <2>1, KeysGone
    <2>3. /\ ~RecvIn(cq'["server"], 0)
          /\ OpIn(cq'["server"], "read") => OpIn(cq["server"], "read")
      BY <2>1, NoOp
    <2>4. mr' \in {mr, 0}  BY <1>14 DEF nmsg_connect_client, Freed, adapter
    <2>5. UNCHANGED state /\ UNCHANGED <<remote_rkey, rdma_buf, shown, key, start_buf>>
      BY <1>14 DEF nmsg_connect_client, session, link
    <2>6. \A s \in Side : pc'[s] = pc[s] \/ pc'[s] \in {"failed", "connecting", "ready", "closed", "done", "undefined"}
      BY <1>14 DEF nmsg_connect_client, Goto
    <2> QED  BY <2>1, <2>2, <2>3, <2>4, <2>5, <2>6
  <1>15. ASSUME MakeMessage PROVE NonZero'
    <2>1. key' = key + 1 /\ key + 1 \in Msg  BY <1>15, LinkAssumption DEF MakeMessage, DataTypes, Key, Msg
    <2>2. make_message(key + 1) \in Req /\ make_message(key + 1).key = key + 1
      BY <2>1 DEF make_message, Req, Key, Msg
    <2>3. KeysIn(sq'["client"]) /\ KeysIn(sq'["server"]) /\ sq'["server"] = sq["server"]
      BY <1>15, <2>1, <2>2, KeysPosted DEF MakeMessage
    <2>4. start_buf \in Msg
      BY <1>15 DEF MakeMessage
    <2> QED  BY <1>15, <2>1, <2>3, <2>4 DEF MakeMessage, Goto, SetState, handler
  <1>16. ASSUME SendMessage PROVE NonZero'
    <2>1. key \in Msg /\ start_buf \in Msg  BY <1>16 DEF SendMessage, Msg
    <2>2. [op |-> "send", key |-> key] \in Req  BY DEF Req, DataTypes
    <2>3. KeysIn(sq'["client"]) /\ KeysIn(sq'["server"]) /\ sq'["server"] = sq["server"]
      BY <1>16, <2>1, <2>2, KeysPosted DEF SendMessage
    <2> QED  BY <1>16, <2>1, <2>3 DEF SendMessage, Goto, handler
  <1>17. ASSUME ResolveAddr PROVE NonZero'
    BY <1>17 DEF ResolveAddr, Goto, adapter, handler, session, link
  <1>18. ASSUME SendStart PROVE NonZero'
    <2>1. start_buf' \in Msg  BY <1>18, LinkAssumption DEF SendStart, DataTypes, Key, Msg
    <2> QED  BY <1>18, <2>1 DEF SendStart, Goto, SetState, adapter, handler
  <1>19. ASSUME nmsg_destroy_client PROVE NonZero'
    <2>1. \A s \in Side : sq'[s] \in {sq[s], <<>>} /\ cq'[s] \in {cq[s], <<>>} /\ cqh'[s] \in {cqh[s], "out"}
      BY <1>19 DEF nmsg_destroy_client, Freed, adapter, handler
    <2>2. /\ KeysIn(sq'["client"]) /\ KeysIn(sq'["server"])
          /\ \A s \in Side : sq'[s] # <<>> => sq[s] # <<>>
      BY <2>1, KeysGone
    <2>3. /\ ~RecvIn(cq'["server"], 0)
          /\ OpIn(cq'["server"], "read") => OpIn(cq["server"], "read")
      BY <2>1, NoOp
    <2>4. mr' \in {mr, 0}  BY <1>19 DEF nmsg_destroy_client, Freed, adapter
    <2>5. state'["server"] = state["server"] /\ UNCHANGED <<remote_rkey, rdma_buf, shown, key, start_buf>>
      BY <1>19 DEF nmsg_destroy_client, SetState, session, link
    <2>6. \A s \in Side : pc'[s] = pc[s] \/ pc'[s] \in {"failed", "connecting", "ready", "closed", "done", "undefined"}
      BY <1>19 DEF nmsg_destroy_client, Goto
    <2> QED  BY <2>1, <2>2, <2>3, <2>4, <2>5, <2>6
  <1>20. ASSUME nmsg_stop_server PROVE NonZero'
    <2>1. \A s \in Side : sq'[s] \in {sq[s], <<>>} /\ cq'[s] \in {cq[s], <<>>} /\ cqh'[s] \in {cqh[s], "out"}
      BY <1>20 DEF nmsg_stop_server, Freed, adapter, handler
    <2>2. /\ KeysIn(sq'["client"]) /\ KeysIn(sq'["server"])
          /\ \A s \in Side : sq'[s] # <<>> => sq[s] # <<>>
      BY <2>1, KeysGone
    <2>3. /\ ~RecvIn(cq'["server"], 0)
          /\ OpIn(cq'["server"], "read") => OpIn(cq["server"], "read")
      BY <2>1, NoOp
    <2>4. mr' \in {mr, 0}  BY <1>20 DEF nmsg_stop_server, Freed, adapter
    <2>5. UNCHANGED state /\ UNCHANGED <<remote_rkey, rdma_buf, shown, key, start_buf>>
      BY <1>20 DEF nmsg_stop_server, session, link
    <2>6. \A s \in Side : pc'[s] = pc[s] \/ pc'[s] \in {"failed", "connecting", "ready", "closed", "done", "undefined"}
      BY <1>20 DEF nmsg_stop_server, Goto
    <2> QED  BY <2>1, <2>2, <2>3, <2>4, <2>5, <2>6
  <1>21. ASSUME SecondRequest PROVE NonZero'
    BY <1>21 DEF SecondRequest, SetState, Overwrites, adapter, handler
  <1>22. ASSUME BindInterrupted PROVE NonZero'
    BY <1>22 DEF BindInterrupted, Goto, adapter, handler, session, link
  <1>23. ASSUME ConnectInterrupted PROVE NonZero'
    BY <1>23 DEF ConnectInterrupted, Goto, adapter, handler, session, link
  <1>24. ASSUME ClientCmEvent PROVE NonZero'
    BY <1>24 DEF ClientCmEvent, SetState, handler, session, link
  <1>25. ASSUME ServerCmEvent PROVE NonZero'
    BY <1>25 DEF ServerCmEvent, SetState, adapter, handler, session, link
  <1>26. ASSUME NicReg PROVE NonZero'
    <2>1. sq["client"] # <<>> /\ UNCHANGED <<state, pc, cqh, remote_rkey, shown, key, start_buf>>
      BY <1>26 DEF NicReg, AtHead, handler, session, link
    <2>2. CASE Break("client", FALSE)
      <3>1. \A s \in Side : sq'[s] \in {sq[s], <<>>}  BY <2>2 DEF Break
      <3>2. UNCHANGED <<mr, rdma_buf>>  BY <1>26, <2>2 DEF NicReg, Break, session, link
      <3> QED  BY <2>1, <2>2, <3>1, <3>2, KeysGone, BreakQueue
    <2>3. CASE sq' = Executed("client") /\ UNCHANGED cq
      <3>1. UNCHANGED rdma_buf  BY <1>26 DEF NicReg, session, link
      <3> QED  BY <2>1, <2>3, <3>1, KeysDone
    <2> QED  BY <1>26, <2>2, <2>3 DEF NicReg
  <1>27. ASSUME NicRead PROVE NonZero'
    <2>1. sq["server"] # <<>> /\ UNCHANGED <<state, pc, cqh, remote_rkey, shown, key, start_buf>>
      BY <1>27 DEF NicRead, AtHead, handler, session, link
    <2>2. CASE Break("server", TRUE) /\ UNCHANGED rdma_buf
      <3>1. \A s \in Side : sq'[s] \in {sq[s], <<>>}  BY <2>2 DEF Break
      <3>2. UNCHANGED mr  BY <2>2 DEF Break
      <3> QED  BY <2>1, <2>2, <3>1, <3>2, KeysGone, BreakQueue
    <2> DEFINE k == Head(sq["server"]).key
               c == [op |-> "read", key |-> k]
    <2>3. CASE /\ mr = k /\ rdma_buf' = [key |-> k, data |-> start_buf] /\ UNCHANGED mr
               /\ cq' = Completed("server", "read", k) /\ sq' = Executed("server")
      <3>1. k \in Msg /\ KeysIn(sq'["client"]) /\ KeysIn(sq'["server"])  BY <2>1, <2>3, KeysDone
      <3>2. start_buf \in Msg  BY <2>3, <3>1 DEF Msg
      <3>3. Holds(rdma_buf')  BY <2>3, <3>1, <3>2 DEF Holds
      <3>4. c \in Completion /\ cq'["server"] = Append(cq["server"], c)
        BY <2>3, <3>1 DEF Completion, Completed, Key, Msg
      <3>5. ~RecvIn(cq'["server"], 0)
        <4>1. c.op # "recv"  OBVIOUS
        <4> HIDE DEF c
        <4> QED  BY <3>4, <4>1, QueueAppend
      <3>6. remote_rkey \in Msg  BY <2>1
      <3>7. key' # 0 \/ mr' # 0 \/ sq'["client"] # <<>> => start_buf' \in Msg  BY <2>1, <3>2
      <3> QED  BY <2>1, <3>1, <3>3, <3>5, <3>6, <3>7
    <2> QED  BY <1>27, <2>2, <2>3 DEF NicRead
  <1>28. ASSUME CqRead PROVE NonZero'
    <2>1. /\ cq["server"] # <<>> /\ cq'["server"] = Tail(cq["server"])
          /\ \A s \in Side \ {"server"} : cq'[s] = cq[s]
      BY <1>28 DEF CqRead, Polls
    <2>2. ~RecvIn(cq'["server"], 0) /\ (OpIn(cq'["server"], "read") => OpIn(cq["server"], "read"))
      BY <2>1, QueueTail
    <2>3. UNCHANGED <<pc, sq, mr, remote_rkey, rdma_buf, shown, key, start_buf>>
      BY <1>28 DEF CqRead, adapter, handler, session, link
    <2>4. OpIn(cq["server"], "read") /\ UNCHANGED cqh
      BY <1>28, <2>1, QueueTail DEF CqRead, Polls, handler
    <2>5. state'["server"] = RDMA_READ_COMPLETE  BY <1>28 DEF CqRead, SetState
    <2> QED  BY <2>2, <2>3, <2>4, <2>5
  <1>29. ASSUME ServerCqRecv PROVE NonZero'
    <2>1. cq["server"] # <<>> /\ cq'["server"] = Tail(cq["server"]) /\ Head(cq["server"]).op = "recv"
      BY <1>29 DEF ServerCqRecv, Polls
    <2>2. RecvIn(cq["server"], Head(cq["server"]).key)  BY <2>1, QueueTail
    <2>3. Head(cq["server"]).key \in Key  BY <2>1, QueueOps DEF Completion
    <2>4. remote_rkey' \in Msg
      <3>1. remote_rkey' = Head(cq["server"]).key  BY <1>29 DEF ServerCqRecv
      <3> QED  BY <2>2, <2>3, <3>1 DEF Key, Msg
    <2>5. ~RecvIn(cq'["server"], 0) /\ (OpIn(cq'["server"], "read") => OpIn(cq["server"], "read"))
      BY <2>1, QueueTail
    <2>6. UNCHANGED <<state, pc, sq, mr, rdma_buf, shown, key, start_buf>>
      BY <1>29 DEF ServerCqRecv
    <2> QED  BY <2>4, <2>5, <2>6
  <1>30. ASSUME ClientCqRecv PROVE NonZero'
    <2>1. /\ cq["client"] # <<>> /\ cq'["client"] = Tail(cq["client"])
          /\ \A s \in Side \ {"client"} : cq'[s] = cq[s]
      BY <1>30 DEF ClientCqRecv, Polls
    <2>2. ~RecvIn(cq'["server"], 0) /\ (OpIn(cq'["server"], "read") => OpIn(cq["server"], "read"))
      BY <2>1, QueueTail
    <2>3. UNCHANGED <<pc, sq, mr, remote_rkey, rdma_buf, shown, key, start_buf>>
      BY <1>30 DEF ClientCqRecv, adapter, handler, session, link
    <2>4. UNCHANGED <<state, cqh["server"]>>  BY <1>30 DEF ClientCqRecv, Decides
    <2> QED  BY <2>2, <2>3, <2>4
  <1>31. ASSUME NEW sd \in Side, NicSend(sd) PROVE NonZero'
    <2>1. sq[sd] # <<>> /\ UNCHANGED <<state, pc, cqh, remote_rkey, rdma_buf, shown, key, start_buf>>
      BY <1>31 DEF NicSend, AtHead, session, link
    <2>2. CASE \E refused : Break(sd, refused)
      <3>1. \A s \in Side : sq'[s] \in {sq[s], <<>>}  BY <2>2 DEF Break
      <3>2. UNCHANGED mr  BY <2>2 DEF Break
      <3>3. /\ ~RecvIn(cq'["server"], 0)
            /\ OpIn(cq'["server"], "read") => OpIn(cq["server"], "read")
        BY <2>2, BreakQueue
      <3> QED  BY <2>1, <3>1, <3>2, <3>3, KeysGone
    <2> DEFINE k == Head(sq[sd]).key
               c == [op |-> "recv", key |-> k]
    <2>3. CASE /\ cq' = Completed(Peer(sd), "recv", k) /\ sq' = Executed(sd)
               /\ mr' \in {mr, 0}
      <3>1. /\ k \in Msg /\ KeysIn(sq'["client"]) /\ KeysIn(sq'["server"])
            /\ \A s \in Side : sq'[s] # <<>> => sq[s] # <<>>
        BY <2>1, <2>3, KeysDone
      <3>2. c \in Completion /\ c.op = "recv" /\ c.key # 0  BY <3>1 DEF Completion, Key, Msg
      <3>3. cq'["server"] = cq["server"] \/ cq'["server"] = Append(cq["server"], c)
        BY <2>3 DEF Completed, Peer
      <3>4. /\ ~RecvIn(cq'["server"], 0)
            /\ OpIn(cq'["server"], "read") => OpIn(cq["server"], "read")
        <4>1. "read" # "recv"  OBVIOUS
        <4> HIDE DEF c
        <4> QED  BY <3>2, <3>3, <4>1, QueueAppend
      <3> QED  BY <2>1, <2>3, <3>1, <3>4
    <2> QED  BY <1>31, <2>2, <2>3 DEF NicSend
  <1>32. ASSUME NEW sd \in Side, CqEnter(sd) PROVE NonZero'
    BY <1>32 DEF CqEnter, adapter, session, link
  <1>33. ASSUME NEW sd \in Side, CqLeave(sd) PROVE NonZero'
    BY <1>33 DEF CqLeave, adapter, session, link
  <1>34. ASSUME NEW sd \in Side, CqSet(sd) PROVE NonZero'
    BY <1>34 DEF CqSet, SetState, Overwrites, adapter
  <1>35. ASSUME NEW sd \in Side, CqRepost(sd) PROVE NonZero'
    BY <1>35 DEF CqRepost, SetState, session, link
  <1>36. ASSUME NEW sd \in Side, CqError(sd) PROVE NonZero'
    <2>1. /\ cq[sd] # <<>> /\ cq'[sd] = Tail(cq[sd])
          /\ \A s \in Side \ {sd} : cq'[s] = cq[s]
      BY <1>36 DEF CqError, Polls
    <2>2. ~RecvIn(cq'["server"], 0) /\ (OpIn(cq'["server"], "read") => OpIn(cq["server"], "read"))
      BY <2>1, QueueTail
    <2>3. UNCHANGED <<pc, sq, mr, remote_rkey, rdma_buf, shown, key, start_buf>>
      BY <1>36 DEF CqError, adapter, handler, session, link
    <2>4. state'["server"] \in {state["server"], ERROR} /\ cqh'["server"] \in {cqh["server"], "out"}
      BY <1>36 DEF CqError, SetState
    <2> QED  BY <2>2, <2>3, <2>4
  <1>37. ASSUME NEW sd \in Side, LinkLoss(sd) PROVE NonZero'
    <2>1. UNCHANGED <<state, pc, mr, cqh, remote_rkey, rdma_buf, shown, key, start_buf>>
      BY <1>37 DEF LinkLoss, Break, session
    <2>2. Break(sd, FALSE)  BY <1>37 DEF LinkLoss
    <2>3. \A s \in Side : sq'[s] \in {sq[s], <<>>}  BY <2>2 DEF Break
    <2> QED  BY <2>1, <2>2, <2>3, KeysGone, BreakQueue
  <1>38. ASSUME NEW sd \in Side, DeviceRemoval(sd) PROVE NonZero'
    <2>1. UNCHANGED <<pc, cq, mr, cqh, remote_rkey, rdma_buf, shown, key, start_buf>>
      BY <1>38 DEF DeviceRemoval, handler, session
    <2>2. state'["server"] \in {state["server"], ERROR}  BY <1>38 DEF DeviceRemoval, SetState
    <2>3. \A s \in Side : sq'[s] \in {sq[s], <<>>}  BY <1>38 DEF DeviceRemoval
    <2> QED  BY <2>1, <2>2, <2>3, KeysGone
  <1>39. CASE UNCHANGED vars  BY <1>0, <1>39 DEF vars, adapter, handler, session, link
  <1> QED
    BY <1>1, <1>2, <1>3, <1>4, <1>5, <1>6, <1>7, <1>8, <1>9, <1>10, <1>11, <1>12, <1>13, <1>14,
       <1>15, <1>16, <1>17, <1>18, <1>19, <1>20, <1>21, <1>22, <1>23, <1>24, <1>25, <1>26,
       <1>27, <1>28, <1>29, <1>30, <1>31, <1>32, <1>33, <1>34, <1>35, <1>36, <1>37, <1>38,
       <1>39
       DEF Next, ServerThread, ClientThread, Caller, Nic, CqHandler, Fault, Side

-----------------------------------------------------------------------------
(***************************************************************************)
(* What the set-up has made when it fails is cleaned up, but for the DMA   *)
(* mappings.                                                               *)
(***************************************************************************)
LEMMA SetupMakes ==
    ASSUME NEW sd \in Side
    PROVE  /\ Range(SetupOrder(sd)) = {"pd", "cq", "qp", "dma", "mr", "buf"}
           /\ \A k \in {1, 2, 3, 5, 6, 7}, ids \in SUBSET {"cm_id", "child_cm_id"} :
                Cleanup(k, ids \cup Range(SubSeq(SetupOrder(sd), 1, k - 1))) \subseteq ids \cup {"dma"}
  <1> DEFINE all == {"pd", "cq", "qp", "dma", "mr", "buf"}
             head == <<"pd", "cq", "qp", "dma">>
             tail == IF sd = "client" THEN <<"mr", "buf">> ELSE <<"buf", "mr">>
  <1>1. head \in Seq(all) /\ Len(head) = 4 /\ tail \in Seq(all) /\ Len(tail) = 2
    <2>1. head \in Seq(all) /\ Len(head) = 4  OBVIOUS
    <2>2. <<"mr", "buf">> \in Seq(all) /\ Len(<<"mr", "buf">>) = 2  OBVIOUS
    <2>3. <<"buf", "mr">> \in Seq(all) /\ Len(<<"buf", "mr">>) = 2  OBVIOUS
    <2> QED  BY <2>1, <2>2, <2>3
  <1>2. /\ SetupOrder(sd) \in Seq(all) /\ Len(SetupOrder(sd)) = 6
        /\ \A n \in 1..6 : SetupOrder(sd)[n] = IF n <= 4 THEN head[n] ELSE tail[n - 4]
    BY <1>1, ConcatProperties DEF SetupOrder
  <1>3. head[1] = "pd" /\ head[2] = "cq" /\ head[3] = "qp" /\ head[4] = "dma" /\ {tail[1], tail[2]} = {"mr", "buf"}
    OBVIOUS
  <1>4. DOMAIN SetupOrder(sd) = 1..6  BY <1>2
  <1>5. Range(SetupOrder(sd)) = all
    <2>1. Range(SetupOrder(sd)) = {SetupOrder(sd)[n] : n \in 1..6}  BY <1>4 DEF Range
    <2>2. 1..6 = {1, 2, 3, 4, 5, 6}  OBVIOUS
    <2>3. /\ SetupOrder(sd)[1] = "pd" /\ SetupOrder(sd)[2] = "cq" /\ SetupOrder(sd)[3] = "qp"
          /\ SetupOrder(sd)[4] = "dma" /\ {SetupOrder(sd)[5], SetupOrder(sd)[6]} = {"mr", "buf"}
      BY <1>2, <1>3
    <2> HIDE DEF head, tail
    <2> QED  BY <2>1, <2>2, <2>3
  <1>6. ASSUME NEW k \in {1, 2, 3, 5, 6, 7}, NEW ids \in SUBSET {"cm_id", "child_cm_id"}
        PROVE  Cleanup(k, ids \cup Range(SubSeq(SetupOrder(sd), 1, k - 1))) \subseteq ids \cup {"dma"}
    <2> DEFINE part == SubSeq(SetupOrder(sd), 1, k - 1)
    <2>1. DOMAIN part = 1..(k - 1) /\ \A n \in 1..(k - 1) : part[n] = SetupOrder(sd)[n]
      BY <1>2, SubSeqProperties
    <2>2. Range(part) \subseteq all  BY <2>1, <1>2 DEF Range
    <2>3. k <= 3 => Range(part) \subseteq {"pd", "cq"}
      <3>1. \A n \in 1..(k - 1) : k <= 3 => n \in {1, 2}  OBVIOUS
      <3>2. SetupOrder(sd)[1] = "pd" /\ SetupOrder(sd)[2] = "cq"  BY <1>2, <1>3
      <3> QED  BY <3>1, <3>2, <2>1 DEF Range
    <2> HIDE DEF part, head, tail
    <2>4. CASE k <= 3
      <3>1. Cleanup(k, ids \cup Range(part)) = (ids \cup Range(part)) \ {"cq", "pd"}  BY <2>4 DEF Cleanup
      <3> QED  BY <3>1, <2>3, <2>4 DEF part
    <2>5. CASE k \in {5, 6}
      <3>1. Cleanup(k, ids \cup Range(part)) = nmsg_free_qp((ids \cup Range(part)) \ {"mr", "buf"})
        BY <2>5 DEF Cleanup
      <3> QED  BY <3>1, <2>2 DEF part, nmsg_free_qp
    <2>6. CASE k = 7
      <3>1. Cleanup(k, ids \cup Range(part)) = nmsg_free_qp(nmsg_free_buffers(ids \cup Range(part)))
        BY <2>6 DEF Cleanup
      <3> QED  BY <3>1, <2>2 DEF part, nmsg_free_qp, nmsg_free_buffers
    <2> QED  BY <2>4, <2>5, <2>6
  <1> QED  BY <1>5, <1>6

(***************************************************************************)
(* Freeing an end leaves nothing but the ids it does not destroy.          *)
(***************************************************************************)
LEMMA FreedRes ==
    ASSUME ResInv, NEW sd \in Side, NEW ids, Freed(sd, ids)
    PROVE  res' = [res EXCEPT ![sd] = (@ \cap {"cm_id", "child_cm_id"}) \ ids]
  BY DEF ResInv, Freed, nmsg_free_qp, nmsg_free_buffers

\* A set-up that fails leaves at most the DMA mappings.
LEMMA SetupFailsRes ==
    ASSUME LinkTypes, ResInv, NEW sd \in Side, NEW l, NEW ids \in SUBSET {"cm_id", "child_cm_id"},
           SetupFails(sd, l, ids), res[sd] \subseteq {"cm_id", "child_cm_id"}
    PROVE  /\ res' \in [Side -> SUBSET {"pd", "cq", "qp", "dma", "mr", "buf", "cm_id", "child_cm_id"}]
           /\ res'[sd] \subseteq {"dma"} \cup (res[sd] \ ids) /\ \A s \in Side \ {sd} : res'[s] = res[s]
           /\ pc'[sd] \in {l, "undefined"} /\ \A s \in Side \ {sd} : pc'[s] = pc[s]
  <1> DEFINE C(k) == Cleanup(k, res[sd] \cup Range(SubSeq(SetupOrder(sd), 1, k - 1)))
  <1>1. PICK k \in {1, 2, 3, 5, 6, 7} :
          /\ res' = [res EXCEPT ![sd] = C(k) \ ids]
          /\ Goto(sd, l) \/ (k = 5 /\ Goto(sd, "undefined"))
    BY DEF SetupFails
  <1>2. C(k) \subseteq res[sd] \cup {"dma"}  BY SetupMakes
  <1> HIDE DEF C
  <1>3. /\ res' \in [Side -> SUBSET {"pd", "cq", "qp", "dma", "mr", "buf", "cm_id", "child_cm_id"}]
        /\ res'[sd] \subseteq {"dma"} \cup (res[sd] \ ids) /\ \A s \in Side \ {sd} : res'[s] = res[s]
    BY <1>1, <1>2 DEF ResInv
  <1>4. pc'[sd] \in {l, "undefined"} /\ \A s \in Side \ {sd} : pc'[s] = pc[s]
    BY <1>1 DEF Goto, LinkTypes, ControlTypes
  <1> QED  BY <1>3, <1>4

\* What an end holds, step by step.
LEMMA ResStep == LinkTypes /\ ResInv /\ [Next]_vars => ResInv'
  <1> SUFFICES ASSUME LinkTypes, ResInv, [Next]_vars PROVE ResInv'  OBVIOUS
  <1>0. ASSUME UNCHANGED <<res, pc, second>>
        PROVE  ResInv'
    BY <1>0 DEF ResInv, NothingLeft
  <1> USE DEF LinkTypes, ControlTypes, DataTypes, ResInv, NothingLeft, Side
  <1>1. ASSUME ServerRequest PROVE ResInv'
    BY <1>1 DEF ServerRequest, Goto, session, link
  <1>2. ASSUME ServerSetup PROVE ResInv'
    <2>1. CASE Goto("server", "accept") /\ Made("server")
      BY <1>2, <2>1, SetupMakes DEF ServerSetup, Made, Goto, session, link
    <2>2. CASE SetupFails("server", "done", {"child_cm_id"})
      BY <1>2, <2>2, SetupFailsRes DEF ServerSetup, session, link
    <2> QED  BY <1>2, <2>1, <2>2 DEF ServerSetup
  <1>3. ASSUME ServeSecond PROVE ResInv'
    BY <1>3 DEF ServeSecond, Goto, session, link
  <1>4. ASSUME Accept PROVE ResInv'
    BY <1>4 DEF Accept, Goto, session, link
  <1>5. ASSUME nmsg_accept PROVE ResInv'
    BY <1>5 DEF nmsg_accept, Goto, session, link
  <1>6. ASSUME ReadAdvertised PROVE ResInv'
    BY <1>6 DEF ReadAdvertised, Goto, session, link
  <1>7. ASSUME ReadCompleted PROVE ResInv'
    BY <1>7 DEF ReadCompleted, Goto
  <1>8. ASSUME ResetConnected PROVE ResInv'
    BY <1>8 DEF ResetConnected, Goto
  <1>9. ASSUME GoAhead PROVE ResInv'
    BY <1>9 DEF GoAhead, Goto, session, link
  <1>10. ASSUME Teardown PROVE ResInv'
    BY <1>10, FreedRes DEF Teardown, Goto, SetState, adapter, handler, session, link
  <1>11. ASSUME nmsg_bind_client PROVE ResInv'
    BY <1>11 DEF nmsg_bind_client, Goto, session, link
  <1>12. ASSUME ClientSetup PROVE ResInv'
    <2>1. CASE Goto("client", "connect") /\ Made("client")
      BY <1>12, <2>1, SetupMakes DEF ClientSetup, Made, Goto, session, link
    <2>2. CASE SetupFails("client", "failed", {})
      BY <1>12, <2>2, SetupFailsRes DEF ClientSetup, session, link
    <2> QED  BY <1>12, <2>1, <2>2 DEF ClientSetup
  <1>13. ASSUME Connect PROVE ResInv'
    BY <1>13, FreedRes DEF Connect, Goto, SetState, adapter, handler, session, link
  <1>14. ASSUME nmsg_connect_client PROVE ResInv'
    BY <1>14, FreedRes DEF nmsg_connect_client, Goto, SetState, adapter, handler, session, link
  <1>15. ASSUME MakeMessage PROVE ResInv'
    BY <1>15 DEF MakeMessage, Goto
  <1>16. ASSUME SendMessage PROVE ResInv'
    BY <1>16 DEF SendMessage, Goto
  <1>17. ASSUME ResolveAddr PROVE ResInv'
    BY <1>17 DEF ResolveAddr, Goto, session, link
  <1>18. ASSUME SendStart PROVE ResInv'
    BY <1>18 DEF SendStart, Goto
  <1>19. ASSUME nmsg_destroy_client PROVE ResInv'
    BY <1>19, FreedRes DEF nmsg_destroy_client, Goto, SetState, adapter, handler, session, link
  <1>20. ASSUME nmsg_stop_server PROVE ResInv'
    BY <1>20, FreedRes DEF nmsg_stop_server, Goto, SetState, adapter, handler, session, link
  <1>21. ASSUME SecondRequest PROVE ResInv'
    BY <1>21 DEF SecondRequest
  <1>22. ASSUME BindInterrupted PROVE ResInv'
    BY <1>22 DEF BindInterrupted, Goto, session, link
  <1>23. ASSUME ConnectInterrupted PROVE ResInv'
    BY <1>23 DEF ConnectInterrupted, Goto, session, link
  <1>24. ASSUME ServerCmEvent PROVE ResInv'
    BY <1>24 DEF ServerCmEvent, session, link
  <1>25. ASSUME NEW sd \in Side,
                \/ ClientCmEvent \/ NicReg \/ NicRead \/ CqRead \/ ServerCqRecv
                \/ ClientCqRecv \/ NicSend(sd) \/ CqEnter(sd) \/ CqLeave(sd) \/ CqSet(sd)
                \/ CqRepost(sd) \/ CqError(sd) \/ LinkLoss(sd) \/ DeviceRemoval(sd)
         PROVE  ResInv'
    <2>1. UNCHANGED <<res, pc, second>>
      BY <1>25
         DEF ClientCmEvent, NicReg, NicRead, CqRead, ServerCqRecv, ClientCqRecv, NicSend,
             CqEnter, CqLeave, CqSet, CqRepost, CqError, LinkLoss, DeviceRemoval, Break,
             Decides, adapter, handler, session, link
    <2> QED  BY <2>1, <1>0
  <1>26. CASE UNCHANGED vars  BY <1>0, <1>26 DEF vars, adapter, handler, session, link
  <1> QED
    BY <1>1, <1>2, <1>3, <1>4, <1>5, <1>6, <1>7, <1>8, <1>9, <1>10, <1>11, <1>12, <1>13, <1>14,
       <1>15, <1>16, <1>17, <1>18, <1>19, <1>20, <1>21, <1>22, <1>23, <1>24, <1>25, <1>26
       DEF Next, ServerThread, ClientThread, Caller, Nic, CqHandler, Fault, Side

(***************************************************************************)
(* The wait of nmsg_bind_client().                                         *)
(***************************************************************************)
LEMMA BindStep == LinkTypes /\ ResInv /\ DownInv /\ BindInv /\ [Next]_vars => BindInv'
  <1> SUFFICES ASSUME LinkTypes, ResInv, DownInv, BindInv, [Next]_vars PROVE BindInv'  OBVIOUS
  <1>0. ASSUME UNCHANGED <<state, ev, pc, res>>
        PROVE  BindInv'
    BY <1>0 DEF BindInv
  <1> USE DEF LinkTypes, ControlTypes, EventTypes, ResInv, BindInv, CmEvent, Side, IDLE,
              CONNECT_REQUEST, ADDR_RESOLVED, ROUTE_RESOLVED, CONNECTED, RDMA_READ_ADV,
              RDMA_READ_COMPLETE, RDMA_WRITE_ADV, RDMA_WRITE_COMPLETE, ERROR
  <1>1. ASSUME ServerRequest PROVE BindInv'
    BY <1>1 DEF ServerRequest, Goto, adapter, link
  <1>2. ASSUME ServerSetup PROVE BindInv'
    <2>1. ev'["client"] # <<>> \/ ev'["client"] = ev["client"]
      BY <1>2, QueueOps DEF ServerSetup
    <2>2. UNCHANGED <<pc["client"], state>>
      BY <1>2 DEF ServerSetup, SetupFails, Goto
    <2>3. UNCHANGED res["client"]
      BY <1>2 DEF ServerSetup, SetupFails, Made
    <2> QED  BY <2>1, <2>2, <2>3
  <1>3. ASSUME ServeSecond PROVE BindInv'
    BY <1>3 DEF ServeSecond, Goto, adapter, link
  <1>4. ASSUME Accept PROVE BindInv'
    <2>1. ev'["client"] # <<>> \/ ev'["client"] = ev["client"]
      BY <1>4, QueueOps DEF Accept
    <2>2. UNCHANGED <<pc["client"], state, res["client"]>>
      BY <1>4 DEF Accept, Goto, Freed
    <2> QED  BY <2>1, <2>2
  <1>5. ASSUME nmsg_accept PROVE BindInv'
    BY <1>5 DEF nmsg_accept, Goto, adapter, link
  <1>6. ASSUME ReadAdvertised PROVE BindInv'
    BY <1>6 DEF ReadAdvertised, Goto, SetState, link
  <1>7. ASSUME ReadCompleted PROVE BindInv'
    BY <1>7 DEF ReadCompleted, Goto, adapter
  <1>8. ASSUME ResetConnected PROVE BindInv'
    BY <1>8 DEF ResetConnected, Goto, SetState, adapter
  <1>9. ASSUME GoAhead PROVE BindInv'
    BY <1>9 DEF GoAhead, Goto, link
  <1>10. ASSUME Teardown PROVE BindInv'
    <2>1. ev'["client"] # <<>> \/ ev'["client"] = ev["client"]
      <3>1. ev["client"] \in Seq(CmEvent)  OBVIOUS
      <3>2. ev'["client"] = ev["client"] \/ ev'["client"] = Append(ev["client"], "FAILURE")
        BY <1>10 DEF Teardown
      <3> QED  BY <3>1, <3>2
    <2>2. UNCHANGED <<pc["client"], state, res["client"]>>
      BY <1>10 DEF Teardown, Goto, Freed
    <2> QED  BY <2>1, <2>2
  <1>11. ASSUME nmsg_bind_client PROVE BindInv'
    BY <1>11 DEF nmsg_bind_client, Goto, adapter, link
  <1>12. ASSUME ClientSetup PROVE BindInv'
    <2>1. pc'["client"] # "bind"  BY <1>12 DEF ClientSetup, Goto, SetupFails
    <2> QED  BY <2>1
  <1>13. ASSUME Connect PROVE BindInv'
    <2>1. pc'["client"] # "bind"  BY <1>13 DEF Connect, Goto, SetupFails
    <2> QED  BY <2>1
  <1>14. ASSUME nmsg_connect_client PROVE BindInv'
    <2>1. pc'["client"] # "bind"  BY <1>14 DEF nmsg_connect_client, Goto, SetupFails
    <2> QED  BY <2>1
  <1>15. ASSUME MakeMessage PROVE BindInv'
    BY <1>15 DEF MakeMessage, Goto, SetState
  <1>16. ASSUME SendMessage PROVE BindInv'
    BY <1>16 DEF SendMessage, Goto
  <1>17. ASSUME ResolveAddr PROVE BindInv'
    <2>1. CASE pc'["client"] # "bind"  BY <2>1
    <2>2. CASE \E e \in CmEvent : ev' = [ev EXCEPT !["client"] = Append(@, e)]
      <3>1. ev'["client"] # <<>>
        <4>1. ev["client"] \in Seq(CmEvent) /\ ev \in [Side -> Seq(CmEvent)] /\ "client" \in Side
          OBVIOUS
        <4>2. PICK e \in CmEvent : ev' = [ev EXCEPT !["client"] = Append(@, e)]  BY <2>2
        <4>3. ev'["client"] = Append(ev["client"], e)  BY <4>1, <4>2
        <4>4. Append(ev["client"], e) # <<>>  BY <4>1, <4>2
        <4> QED  BY <4>3, <4>4
      <3>2. pc'["client"] = "bind" => res'["client"] = {"cm_id"}
        BY <1>17 DEF ResolveAddr, Goto
      <3> QED  BY <3>1, <3>2
    <2> QED  BY <1>17, <2>1, <2>2 DEF ResolveAddr, Goto
  <1>18. ASSUME SendStart PROVE BindInv'
    BY <1>18 DEF SendStart, Goto, SetState, adapter
  <1>19. ASSUME nmsg_destroy_client PROVE BindInv'
    BY <1>19 DEF nmsg_destroy_client, Goto, SetState, link
  <1>20. ASSUME nmsg_stop_server PROVE BindInv'
    <2>1. ev'["client"] # <<>> \/ ev'["client"] = ev["client"]
      BY <1>20, QueueOps DEF nmsg_stop_server
    <2>2. UNCHANGED <<pc["client"], state, res["client"]>>
      BY <1>20 DEF nmsg_stop_server, Goto, Freed
    <2> QED  BY <2>1, <2>2
  <1>21. ASSUME SecondRequest PROVE BindInv'
    BY <1>21 DEF SecondRequest, SetState, adapter
  <1>22. ASSUME BindInterrupted PROVE BindInv'
    BY <1>22 DEF BindInterrupted, Goto, adapter, link
  <1>23. ASSUME ConnectInterrupted PROVE BindInv'
    BY <1>23 DEF ConnectInterrupted, Goto, adapter, link
  <1>24. ASSUME ClientCmEvent PROVE BindInv'
    <2>1. state'["client"] >= ADDR_RESOLVED /\ UNCHANGED <<res, pc>>
      BY <1>24 DEF ClientCmEvent, SetState
    <2> QED  BY <2>1
  <1>25. ASSUME ServerCmEvent PROVE BindInv'
    <2>1. UNCHANGED <<state["client"], ev["client"], pc["client"], res["client"]>>
      BY <1>25 DEF ServerCmEvent, SetState
    <2> QED  BY <2>1
  <1>26. ASSUME CqRead PROVE BindInv'
    BY <1>26 DEF CqRead, SetState
  <1>27. ASSUME NEW sd \in Side, CqSet(sd) PROVE BindInv'
    <2>1. pc["client"] = "bind" => cqh["client"] = "out"  BY DEF DownInv, Early
    <2>2. UNCHANGED <<ev, pc, res>>  BY <1>27 DEF CqSet
    <2>3. pc["client"] = "bind" => state'["client"] = state["client"]
      BY <1>27, <2>1 DEF CqSet, SetState
    <2> QED  BY <2>2, <2>3
  <1>28. ASSUME NEW sd \in Side, CqRepost(sd) PROVE BindInv'
    BY <1>28 DEF CqRepost, SetState, link
  <1>29. ASSUME NEW sd \in Side, CqError(sd) PROVE BindInv'
    BY <1>29 DEF CqError, SetState, link
  <1>30. ASSUME NEW sd \in Side, DeviceRemoval(sd) PROVE BindInv'
    BY <1>30 DEF DeviceRemoval, SetState
  <1>31. ASSUME NEW sd \in Side,
                \/ NicReg \/ NicRead \/ ServerCqRecv \/ ClientCqRecv \/ NicSend(sd)
                \/ CqEnter(sd) \/ CqLeave(sd) \/ LinkLoss(sd)
         PROVE  BindInv'
    <2>1. UNCHANGED <<state, ev, pc, res>>
      BY <1>31
         DEF NicReg, NicRead, ServerCqRecv, ClientCqRecv, NicSend, CqEnter, CqLeave, LinkLoss,
             Break, Decides, adapter, session, link
    <2> QED  BY <2>1, <1>0
  <1>32. CASE UNCHANGED vars  BY <1>0, <1>32 DEF vars, adapter, handler, session, link
  <1> QED
    BY <1>1, <1>2, <1>3, <1>4, <1>5, <1>6, <1>7, <1>8, <1>9, <1>10, <1>11, <1>12, <1>13, <1>14,
       <1>15, <1>16, <1>17, <1>18, <1>19, <1>20, <1>21, <1>22, <1>23, <1>24, <1>25, <1>26,
       <1>27, <1>28, <1>29, <1>30, <1>31, <1>32
       DEF Next, ServerThread, ClientThread, Caller, Nic, CqHandler, Fault, Side

-----------------------------------------------------------------------------
(***************************************************************************)
(* Events in a queue that grows at its end and shrinks at its head.        *)
(***************************************************************************)
LEMMA EventOps ==
    ASSUME NEW S, NEW s \in Seq(S), NEW e
    PROVE  /\ ~EventIn(<<>>, e) /\ Once(<<>>, e) /\ First(<<>>, e)
           /\ \A x \in S : /\ EventIn(Append(s, x), e) <=> EventIn(s, e) \/ x = e
                           /\ (x # e \/ ~EventIn(s, e)) /\ Once(s, e) => Once(Append(s, x), e)
                           /\ (x # e \/ s = <<>>) /\ First(s, e) => First(Append(s, x), e)
           /\ s # <<>> => /\ EventIn(Tail(s), e) => EventIn(s, e)
                          /\ Head(s) = e => EventIn(s, e)
                          /\ Once(s, e) => Once(Tail(s), e)
                          /\ Once(s, e) /\ Head(s) = e => ~EventIn(Tail(s), e)
                          /\ First(s, e) => First(Tail(s), e) /\ ~EventIn(Tail(s), e)
  <1>1. ~EventIn(<<>>, e) /\ Once(<<>>, e) /\ First(<<>>, e)  BY DEF EventIn, Once, First
  <1>2. ASSUME NEW x \in S
        PROVE  /\ EventIn(Append(s, x), e) <=> EventIn(s, e) \/ x = e
               /\ (x # e \/ ~EventIn(s, e)) /\ Once(s, e) => Once(Append(s, x), e)
               /\ (x # e \/ s = <<>>) /\ First(s, e) => First(Append(s, x), e)
    <2> DEFINE a == Append(s, x)
    <2>1. /\ Len(s) \in Nat /\ Len(a) = Len(s) + 1 /\ a[Len(a)] = x
          /\ \A n \in 1..Len(s) : a[n] = s[n]
      BY AppendProperties
    <2>2. \A n \in 1..Len(a) : n \in 1..Len(s) \/ n = Len(a)  BY <2>1
    <2>3. 1..Len(s) \subseteq 1..Len(a) /\ Len(a) \in 1..Len(a)  BY <2>1
    <2>4. s = <<>> => Len(a) = 1  BY <2>1
    <2> HIDE DEF a
    <2>5. EventIn(a, e) <=> EventIn(s, e) \/ x = e  BY <2>1, <2>2, <2>3 DEF EventIn
    <2>6. (x # e \/ ~EventIn(s, e)) /\ Once(s, e) => Once(a, e)
      BY <2>1, <2>2, <2>3 DEF EventIn, Once
    <2>7. (x # e \/ s = <<>>) /\ First(s, e) => First(a, e)  BY <2>1, <2>2, <2>3, <2>4 DEF First
    <2> QED  BY <2>5, <2>6, <2>7 DEF a
  <1>3. ASSUME s # <<>>
        PROVE  /\ EventIn(Tail(s), e) => EventIn(s, e)
               /\ Head(s) = e => EventIn(s, e)
               /\ Once(s, e) => Once(Tail(s), e)
               /\ Once(s, e) /\ Head(s) = e => ~EventIn(Tail(s), e)
               /\ First(s, e) => First(Tail(s), e) /\ ~EventIn(Tail(s), e)
    <2> DEFINE t == Tail(s)
    <2>1. /\ Len(s) \in Nat /\ Len(s) > 0 /\ Len(t) = Len(s) - 1 /\ Head(s) = s[1]
          /\ \A n \in 1..Len(t) : t[n] = s[n + 1]
      BY <1>3, HeadTailProperties, LenProperties
    <2>2. \A n \in 1..Len(t) : n + 1 \in 1..Len(s) /\ n + 1 # 1  BY <2>1
    <2>3. 1 \in 1..Len(s)  BY <2>1
    <2> HIDE DEF t
    <2>4. (EventIn(t, e) => EventIn(s, e)) /\ (Head(s) = e => EventIn(s, e))
      BY <2>1, <2>2, <2>3 DEF EventIn
    <2>5. Once(s, e) => Once(t, e)
      <3>1. \A m, n \in 1..Len(t) : m + 1 = n + 1 => m = n  BY <2>1
      <3> QED  BY <2>1, <2>2, <3>1 DEF Once
    <2>6. Once(s, e) /\ Head(s) = e => ~EventIn(t, e)  BY <2>1, <2>2, <2>3 DEF Once, EventIn
    <2>7. First(s, e) => First(t, e) /\ ~EventIn(t, e)  BY <2>1, <2>2 DEF First, EventIn
    <2> QED  BY <2>4, <2>5, <2>6, <2>7 DEF t
  <1> QED  BY <1>1, <1>2, <1>3

\* An event appended to a queue.
LEMMA EventAppend ==
    ASSUME NEW s \in Seq(CmEvent), NEW x \in CmEvent, NEW e
    PROVE  /\ EventIn(Append(s, x), e) <=> EventIn(s, e) \/ x = e
           /\ (x # e \/ ~EventIn(s, e)) /\ Once(s, e) => Once(Append(s, x), e)
  BY EventOps

\* The queue of an end that takes its first event.
LEMMA EventQueue ==
    ASSUME LinkTypes, NEW sd \in Side, NEW e
    PROVE  /\ ~EventIn(<<>>, e) /\ Once(<<>>, e) /\ First(<<>>, e)
           /\ \A x \in CmEvent :
                /\ EventIn(Append(ev[sd], x), e) <=> EventIn(ev[sd], e) \/ x = e
                /\ (x # e \/ ~EventIn(ev[sd], e)) /\ Once(ev[sd], e) => Once(Append(ev[sd], x), e)
                /\ (x # e \/ ev[sd] = <<>>) /\ First(ev[sd], e) => First(Append(ev[sd], x), e)
           /\ ev[sd] # <<>> =>
                /\ Head(ev[sd]) \in CmEvent /\ Tail(ev[sd]) \in Seq(CmEvent)
                /\ EventIn(Tail(ev[sd]), e) => EventIn(ev[sd], e)
                /\ Head(ev[sd]) = e => EventIn(ev[sd], e)
                /\ Once(ev[sd], e) => Once(Tail(ev[sd]), e)
                /\ Once(ev[sd], e) /\ Head(ev[sd]) = e => ~EventIn(Tail(ev[sd]), e)
                /\ First(ev[sd], e) => First(Tail(ev[sd]), e) /\ ~EventIn(Tail(ev[sd]), e)
  <1>1. ev[sd] \in Seq(CmEvent)  BY QueueOps
  <1>2. ev[sd] # <<>> => Head(ev[sd]) \in CmEvent /\ Tail(ev[sd]) \in Seq(CmEvent)  BY QueueOps
  <1> QED  BY <1>1, <1>2, EventOps

LEMMA EventGrows ==
    ASSUME LinkTypes, NEW sd \in Side, NEW e, NEW x \in CmEvent, NEW s,
           s = ev[sd] \/ s = Append(ev[sd], x),
           Once(ev[sd], e), ~EventIn(ev[sd], e) \/ x # e
    PROVE  /\ Once(s, e)
           /\ x # e => (EventIn(s, e) => EventIn(ev[sd], e))
  <1>1. CASE s = ev[sd]  BY <1>1
  <1>2. CASE s = Append(ev[sd], x)  BY <1>2, EventQueue
  <1> QED  BY <1>1, <1>2

(***************************************************************************)
(* An end that is not set up has no queue pair.                            *)
(***************************************************************************)
LEMMA DownStep == LinkTypes /\ DownInv /\ [Next]_vars => DownInv'
  <1> SUFFICES ASSUME LinkTypes, DownInv, [Next]_vars PROVE DownInv'  OBVIOUS
  <1>0. ASSUME UNCHANGED <<pc, qp, mr, cq, sq, cqh, arm>>
        PROVE  DownInv'
    BY <1>0 DEF DownInv, Early
  <1> USE DEF LinkTypes, ControlTypes, RequestTypes, CompletionTypes, FlagTypes, DownInv,
              Early, Side
  <1>1. ASSUME ServerRequest PROVE DownInv'
    BY <1>1, QueueOps DEF ServerRequest, Goto, adapter, handler
  <1>2. ASSUME ServerSetup PROVE DownInv'
    BY <1>2, QueueOps DEF ServerSetup, Goto, Made, SetupFails, adapter, handler
  <1>3. ASSUME ServeSecond PROVE DownInv'
    BY <1>3, QueueOps DEF ServeSecond, Goto, adapter, handler
  <1>4. ASSUME Accept PROVE DownInv'
    BY <1>4, QueueOps DEF Accept, Goto, handler
  <1>5. ASSUME nmsg_accept PROVE DownInv'
    BY <1>5, QueueOps DEF nmsg_accept, Goto, adapter, handler
  <1>6. ASSUME ReadAdvertised PROVE DownInv'
    BY <1>6, QueueOps DEF ReadAdvertised, Goto, Post, handler
  <1>7. ASSUME ReadCompleted PROVE DownInv'
    BY <1>7, QueueOps DEF ReadCompleted, Goto, adapter, handler
  <1>8. ASSUME ResetConnected PROVE DownInv'
    BY <1>8, QueueOps DEF ResetConnected, Goto, adapter, handler
  <1>9. ASSUME GoAhead PROVE DownInv'
    BY SMTT(30), <1>9, QueueOps DEF GoAhead, Goto, Post, handler
  <1>10. ASSUME Teardown PROVE DownInv'
    BY <1>10, QueueOps DEF Teardown, Goto, Freed
  <1>11. ASSUME nmsg_bind_client PROVE DownInv'
    BY <1>11, QueueOps DEF nmsg_bind_client, Goto, adapter, handler
  <1>12. ASSUME ClientSetup PROVE DownInv'
    BY <1>12, QueueOps DEF ClientSetup, Goto, Made, SetupFails, adapter, handler
  <1>13. ASSUME Connect PROVE DownInv'
    <2>1. /\ pc["client"] \in {"connect", "connecting"} /\ UNCHANGED pc["server"]
          /\ pc'["client"] \in {"failed", "connecting", "ready"}
      BY <1>13 DEF Connect, Goto
    <2>2. CASE Freed("client", {})  BY <2>1, <2>2 DEF Freed
    <2>3. CASE UNCHANGED <<adapter, handler>>  BY <2>1, <2>3 DEF adapter, handler
    <2> QED  BY <1>13, <2>2, <2>3 DEF Connect
  <1>14. ASSUME nmsg_connect_client PROVE DownInv'
    <2>1. /\ pc["client"] \in {"connect", "connecting"} /\ UNCHANGED pc["server"]
          /\ pc'["client"] \in {"failed", "connecting", "ready"}
      BY <1>14 DEF nmsg_connect_client, Goto
    <2>2. CASE Freed("client", {})  BY <2>1, <2>2 DEF Freed
    <2>3. CASE UNCHANGED <<adapter, handler>>  BY <2>1, <2>3 DEF adapter, handler
    <2> QED  BY <1>14, <2>2, <2>3 DEF nmsg_connect_client
  <1>15. ASSUME MakeMessage PROVE DownInv'
    BY <1>15, QueueOps DEF MakeMessage, Goto, Post, make_message, handler
  <1>16. ASSUME SendMessage PROVE DownInv'
    BY <1>16, QueueOps DEF SendMessage, Goto, Post, handler
  <1>17. ASSUME ResolveAddr PROVE DownInv'
    BY <1>17, QueueOps DEF ResolveAddr, Goto, adapter, handler
  <1>18. ASSUME SendStart PROVE DownInv'
    BY <1>18, QueueOps DEF SendStart, Goto, adapter, handler
  <1>19. ASSUME nmsg_destroy_client PROVE DownInv'
    BY <1>19, QueueOps DEF nmsg_destroy_client, Goto, Freed
  <1>20. ASSUME nmsg_stop_server PROVE DownInv'
    BY <1>20, QueueOps DEF nmsg_stop_server, Goto, Freed
  <1>21. ASSUME BindInterrupted PROVE DownInv'
    BY <1>21, QueueOps DEF BindInterrupted, Goto, adapter, handler
  <1>22. ASSUME ConnectInterrupted PROVE DownInv'
    BY <1>22, QueueOps DEF ConnectInterrupted, Goto, adapter, handler
  <1>23. ASSUME ClientCmEvent PROVE DownInv'
    BY <1>23, QueueOps DEF ClientCmEvent, handler
  <1>24. ASSUME NicReg PROVE DownInv'
    BY <1>24, QueueOps DEF NicReg, AtHead, Executed, Completed, Notified, Break
  <1>25. ASSUME NicRead PROVE DownInv'
    BY <1>25, QueueOps DEF NicRead, AtHead, Executed, Completed, Notified, Break
  <1>26. ASSUME CqRead PROVE DownInv'
    BY <1>26, QueueOps DEF CqRead, Polls, handler
  <1>27. ASSUME ServerCqRecv PROVE DownInv'
    BY <1>27, QueueOps DEF ServerCqRecv, Polls, Decides
  <1>28. ASSUME ClientCqRecv PROVE DownInv'
    BY <1>28, QueueOps DEF ClientCqRecv, Polls, Decides
  <1>29. ASSUME NEW sd \in Side, NicSend(sd) PROVE DownInv'
    <2>1. qp[sd] = "up" /\ UNCHANGED <<pc, cqh>>  BY <1>29 DEF NicSend, AtHead
    <2>2. CASE \E refused : Break(sd, refused)  BY <2>1, <2>2 DEF Break, Completed, Notified
    <2>3. CASE /\ UNCHANGED qp /\ sq' = Executed(sd) /\ qp[Peer(sd)] = "up"
               /\ cq' = Completed(Peer(sd), "recv", Head(sq[sd]).key)
               /\ mr' = IF sd = "server" THEN 0 ELSE mr
      <3>1. \A s \in Side : sq'[s] # <<>> => sq[s] # <<>>  BY <2>1, <2>3 DEF Executed
      <3>2. \A s \in Side : qp[s] # "up" => cq'[s] = cq[s]  BY <2>3 DEF Completed
      <3>3. \A s \in Side : qp[s] # "up" => arm'[s] # "event" \/ arm[s] = "event" \/ s \notin {sd, Peer(sd)}
        BY <2>1, <2>3
      <3>4. \A s \in Side : s \in {sd, Peer(sd)}  BY DEF Peer
      <3> QED  BY <2>1, <2>3, <3>1, <3>2, <3>3, <3>4
    <2> QED  BY <1>29, <2>2, <2>3 DEF NicSend
  <1>30. ASSUME NEW sd \in Side, CqEnter(sd) PROVE DownInv'
    BY <1>30, QueueOps DEF CqEnter, adapter
  <1>31. ASSUME NEW sd \in Side, CqLeave(sd) PROVE DownInv'
    BY <1>31, QueueOps DEF CqLeave, adapter
  <1>32. ASSUME NEW sd \in Side, CqSet(sd) PROVE DownInv'
    BY <1>32, QueueOps DEF CqSet, adapter
  <1>33. ASSUME NEW sd \in Side, CqRepost(sd) PROVE DownInv'
    BY <1>33, QueueOps DEF CqRepost
  <1>34. ASSUME NEW sd \in Side, CqError(sd) PROVE DownInv'
    BY <1>34, QueueOps DEF CqError, Polls
  <1>35. ASSUME NEW sd \in Side, LinkLoss(sd) PROVE DownInv'
    BY <1>35, QueueOps DEF LinkLoss, Completed, Notified, Break
  <1>36. ASSUME NEW sd \in Side, DeviceRemoval(sd) PROVE DownInv'
    BY <1>36, QueueOps DEF DeviceRemoval, handler
  <1>37. ASSUME NEW sd \in Side,
                \/ SecondRequest \/ ServerCmEvent
         PROVE  DownInv'
    <2>1. UNCHANGED <<pc, qp, mr, cq, sq, cqh, arm>>
      BY <1>37
         DEF SecondRequest, ServerCmEvent, adapter, handler, session, link
    <2> QED  BY <2>1, <1>0
  <1>38. CASE UNCHANGED vars  BY <1>0, <1>38 DEF vars, adapter, handler, session, link
  <1> QED
    BY <1>1, <1>2, <1>3, <1>4, <1>5, <1>6, <1>7, <1>8, <1>9, <1>10, <1>11, <1>12, <1>13, <1>14,
       <1>15, <1>16, <1>17, <1>18, <1>19, <1>20, <1>21, <1>22, <1>23, <1>24, <1>25, <1>26,
       <1>27, <1>28, <1>29, <1>30, <1>31, <1>32, <1>33, <1>34, <1>35, <1>36, <1>37, <1>38
       DEF Next, ServerThread, ClientThread, Caller, Nic, CqHandler, Fault, Side

(***************************************************************************)
(* The request comes first, and once.                                      *)
(***************************************************************************)
LEMMA RequestInvStep == LinkTypes /\ ResInv /\ DownInv /\ RequestInv /\ [Next]_vars => RequestInv'
  <1> SUFFICES ASSUME LinkTypes, ResInv, DownInv, RequestInv, [Next]_vars PROVE RequestInv'  OBVIOUS
  <1>0. ASSUME UNCHANGED <<pc, requested, ev, state, res>>
        PROVE  RequestInv'
    BY <1>0 DEF RequestInv, Early
  <1> USE DEF LinkTypes, ControlTypes, EventTypes, FlagTypes, CmEvent, ResInv, DownInv,
              RequestInv, Early, Side, IDLE, CONNECT_REQUEST, ADDR_RESOLVED, ROUTE_RESOLVED,
              CONNECTED, RDMA_READ_ADV, RDMA_READ_COMPLETE, RDMA_WRITE_ADV,
              RDMA_WRITE_COMPLETE, ERROR
  <1>1. ASSUME ServerRequest PROVE RequestInv'
    BY <1>1, EventQueue DEF ServerRequest, Goto, adapter, session, link
  <1>2. ASSUME ServerSetup PROVE RequestInv'
    BY <1>2, EventQueue DEF ServerSetup, Goto, Made, SetupFails, adapter, session, link
  <1>3. ASSUME ServeSecond PROVE RequestInv'
    BY <1>3, EventQueue DEF ServeSecond, Goto, adapter, session, link
  <1>4. ASSUME Accept PROVE RequestInv'
    BY <1>4, EventQueue DEF Accept, Goto, session, link
  <1>5. ASSUME nmsg_accept PROVE RequestInv'
    BY <1>5, EventQueue DEF nmsg_accept, Goto, adapter, session, link
  <1>6. ASSUME ReadAdvertised PROVE RequestInv'
    BY <1>6, EventQueue DEF ReadAdvertised, Goto, SetState, session, link
  <1>7. ASSUME ReadCompleted PROVE RequestInv'
    BY <1>7, EventQueue DEF ReadCompleted, Goto, adapter
  <1>8. ASSUME ResetConnected PROVE RequestInv'
    BY <1>8, EventQueue DEF ResetConnected, Goto, SetState, adapter
  <1>9. ASSUME GoAhead PROVE RequestInv'
    BY <1>9, EventQueue DEF GoAhead, Goto, session, link
  <1>10. ASSUME Teardown PROVE RequestInv'
    BY <1>10, EventQueue DEF Teardown, Goto, Freed, session, link
  <1>11. ASSUME nmsg_bind_client PROVE RequestInv'
    BY <1>11, EventQueue DEF nmsg_bind_client, Goto, adapter, session, link
  <1>12. ASSUME ClientSetup PROVE RequestInv'
    BY <1>12, EventQueue DEF ClientSetup, Goto, Made, SetupFails, adapter, session, link
  <1>13. ASSUME Connect PROVE RequestInv'
    <2>1. pc["client"] = "connect" /\ ~requested /\ pc'["client"] \in {"failed", "connecting"}
      BY <1>13 DEF Connect, Goto
    <2>2. UNCHANGED <<pc["server"], state, res["server"]>>
      BY <1>13 DEF Connect, Goto, Freed
    <2>3. CASE UNCHANGED <<ev, requested>>  BY <2>1, <2>2, <2>3
    <2>4. CASE ev' = [ev EXCEPT !["server"] = Append(@, "CONNECT_REQUEST")] /\ requested' = TRUE
      BY <2>1, <2>2, <2>4, EventQueue
    <2>5. CASE ev' = [ev EXCEPT !["client"] = Append(@, "FAILURE")] /\ UNCHANGED requested
      BY <2>1, <2>2, <2>5, EventQueue
    <2> QED  BY <1>13, <2>3, <2>4, <2>5 DEF Connect
  <1>14. ASSUME nmsg_connect_client PROVE RequestInv'
    BY <1>14, EventQueue DEF nmsg_connect_client, Goto, Freed, adapter, session, link
  <1>15. ASSUME MakeMessage PROVE RequestInv'
    BY <1>15, EventQueue DEF MakeMessage, Goto, SetState
  <1>16. ASSUME SendMessage PROVE RequestInv'
    BY <1>16, EventQueue DEF SendMessage, Goto
  <1>17. ASSUME ResolveAddr PROVE RequestInv'
    <2>1. pc["client"] = "start" /\ pc'["client"] \in {"failed", "bind"}
      BY <1>17 DEF ResolveAddr, Goto
    <2>2. UNCHANGED <<pc["server"], state, requested, ev["server"], res["server"]>>
      BY <1>17 DEF ResolveAddr, Goto, session, link
    <2>3. ev'["client"] \in {ev["client"], Append(ev["client"], "ADDR_RESOLVED"), Append(ev["client"], "FAILURE")}
      BY <1>17 DEF ResolveAddr
    <2>4. EventIn(ev'["client"], "ESTABLISHED") => EventIn(ev["client"], "ESTABLISHED")
      BY <2>3, EventQueue
    <2> QED  BY <2>1, <2>2, <2>4
  <1>18. ASSUME SendStart PROVE RequestInv'
    BY <1>18, EventQueue DEF SendStart, Goto, SetState, adapter
  <1>19. ASSUME nmsg_destroy_client PROVE RequestInv'
    BY <1>19, EventQueue DEF nmsg_destroy_client, Goto, SetState, Freed, session, link
  <1>20. ASSUME nmsg_stop_server PROVE RequestInv'
    <2>1. UNCHANGED <<state, requested, pc["client"], ev["client"]>> /\ pc'["server"] = "undefined"
      BY <1>20 DEF nmsg_stop_server, Goto, session, link
    <2>2. ev'["server"] = <<>>  BY <1>20 DEF nmsg_stop_server
    <2>3. res'["server"] \subseteq res["server"]
      BY <1>20 DEF nmsg_stop_server, Freed, nmsg_free_qp, nmsg_free_buffers
    <2> QED  BY <2>1, <2>2, <2>3, EventQueue
  <1>21. ASSUME SecondRequest PROVE RequestInv'
    BY <1>21, EventQueue DEF SecondRequest, SetState, adapter
  <1>22. ASSUME BindInterrupted PROVE RequestInv'
    BY <1>22, EventQueue DEF BindInterrupted, Goto, adapter, session, link
  <1>23. ASSUME ConnectInterrupted PROVE RequestInv'
    BY <1>23, EventQueue DEF ConnectInterrupted, Goto, adapter, session, link
  <1>24. ASSUME ClientCmEvent PROVE RequestInv'
    <2>1. ev["client"] # <<>> /\ UNCHANGED <<pc, requested, res, state["server"]>>
      BY <1>24 DEF ClientCmEvent, SetState, session, link
    <2>2. CASE /\ UNCHANGED ev["server"]
               /\ ev'["client"] \in {Tail(ev["client"]), Append(Tail(ev["client"]), "ROUTE_RESOLVED"),
                                     Append(Tail(ev["client"]), "FAILURE")}
      <3>1. Tail(ev["client"]) \in Seq(CmEvent)
            /\ (EventIn(Tail(ev["client"]), "ESTABLISHED") => EventIn(ev["client"], "ESTABLISHED"))
        BY <2>1, EventQueue
      <3>2. EventIn(ev'["client"], "ESTABLISHED") => EventIn(ev["client"], "ESTABLISHED")
        <4>1. "ROUTE_RESOLVED" \in CmEvent /\ "FAILURE" \in CmEvent  OBVIOUS
        <4> HIDE DEF LinkTypes, CmEvent, DownInv, RequestInv
        <4>2. \A x \in {"ROUTE_RESOLVED", "FAILURE"} :
                EventIn(Append(Tail(ev["client"]), x), "ESTABLISHED") => EventIn(Tail(ev["client"]), "ESTABLISHED")
          BY <3>1, <4>1, EventAppend
        <4> QED  BY <2>2, <3>1, <4>2
      <3> QED  BY <2>1, <2>2, <3>2
    <2>3. CASE /\ Head(ev["client"]) = "ESTABLISHED" /\ ev'["client"] = Tail(ev["client"])
               /\ ev'["server"] = Append(ev["server"], "ESTABLISHED")
      BY <2>1, <2>3, EventQueue
    <2> QED  BY <1>24, <2>2, <2>3 DEF ClientCmEvent
  <1>25. ASSUME ServerCmEvent PROVE RequestInv'
    BY <1>25, EventQueue DEF ServerCmEvent, SetState, adapter, session, link
  <1>26. ASSUME CqRead PROVE RequestInv'
    BY <1>26, EventQueue DEF CqRead, SetState, Polls
  <1>27. ASSUME NEW sd \in Side, CqSet(sd) PROVE RequestInv'
    BY <1>27, EventQueue DEF CqSet, SetState, adapter
  <1>28. ASSUME NEW sd \in Side, CqRepost(sd) PROVE RequestInv'
    BY <1>28, EventQueue DEF CqRepost, SetState, session, link
  <1>29. ASSUME NEW sd \in Side, CqError(sd) PROVE RequestInv'
    BY <1>29, EventQueue DEF CqError, SetState, Polls, session, link
  <1>30. ASSUME NEW sd \in Side, DeviceRemoval(sd) PROVE RequestInv'
    BY <1>30, EventQueue DEF DeviceRemoval, SetState, session
  <1>31. ASSUME NEW sd \in Side,
                \/ NicReg \/ NicRead \/ ServerCqRecv \/ ClientCqRecv \/ NicSend(sd)
                \/ CqEnter(sd) \/ CqLeave(sd) \/ LinkLoss(sd)
         PROVE  RequestInv'
    <2>1. UNCHANGED <<pc, requested, ev, state, res>>
      BY <1>31
         DEF NicReg, NicRead, ServerCqRecv, ClientCqRecv, NicSend, CqEnter, CqLeave, LinkLoss,
             Break, Decides, adapter, session, link
    <2> QED  BY <2>1, <1>0
  <1>32. CASE UNCHANGED vars  BY <1>0, <1>32 DEF vars, adapter, handler, session, link
  <1> QED
    BY <1>1, <1>2, <1>3, <1>4, <1>5, <1>6, <1>7, <1>8, <1>9, <1>10, <1>11, <1>12, <1>13, <1>14,
       <1>15, <1>16, <1>17, <1>18, <1>19, <1>20, <1>21, <1>22, <1>23, <1>24, <1>25, <1>26,
       <1>27, <1>28, <1>29, <1>30, <1>31, <1>32
       DEF Next, ServerThread, ClientThread, Caller, Nic, CqHandler, Fault, Side

(***************************************************************************)
(* Until ESTABLISHED nothing passes.                                       *)
(***************************************************************************)
LEMMA NeverUpStep ==
    LinkTypes /\ ResInv /\ DownInv /\ RequestInv /\ NeverUpInv /\ [Next]_vars => NeverUpInv'
  <1> SUFFICES ASSUME LinkTypes, ResInv, DownInv, RequestInv, NeverUpInv, [Next]_vars PROVE NeverUpInv'  OBVIOUS
  <1>0. ASSUME UNCHANGED <<pc, ev, state, qp, cq, mr, cqh, hasty>>
        PROVE  NeverUpInv'
    BY <1>0 DEF NeverUpInv, NeverUp
  <1> USE DEF LinkTypes, ControlTypes, EventTypes, CompletionTypes, FlagTypes, CmEvent, ResInv,
              DownInv, RequestInv, NeverUpInv, NeverUp, Early, Side, IDLE, CONNECT_REQUEST,
              ADDR_RESOLVED, ROUTE_RESOLVED, CONNECTED, RDMA_READ_ADV, RDMA_READ_COMPLETE,
              RDMA_WRITE_ADV, RDMA_WRITE_COMPLETE, ERROR
  <1>1. ASSUME ServerRequest PROVE NeverUpInv'
    BY <1>1, EventQueue DEF ServerRequest, Goto, adapter, handler, session, link
  <1>2. ASSUME ServerSetup PROVE NeverUpInv'
    <2>1. /\ UNCHANGED <<state, cq, mr, cqh, hasty, pc["client"]>> /\ qp'["client"] = qp["client"]
          /\ pc["server"] = "setup"
      BY <1>2 DEF ServerSetup, Made, SetupFails, Goto, adapter, handler, session, link
    <2>2. ev'["client"] \in {ev["client"], Append(ev["client"], "FAILURE")}
      BY <1>2 DEF ServerSetup
    <2>3. ~EventIn(ev'["client"], "ESTABLISHED") /\ Once(ev'["client"], "ESTABLISHED")
      <3> DEFINE x == "FAILURE"
      <3>1. x \in CmEvent /\ x # "ESTABLISHED"  OBVIOUS
      <3>2. /\ Once(ev["client"], "ESTABLISHED") /\ ~EventIn(ev["client"], "ESTABLISHED")
            /\ "client" \in Side
        BY <2>1
      <3> HIDE DEF x
      <3>3. ev'["client"] = ev["client"] \/ ev'["client"] = Append(ev["client"], x)  BY <2>2 DEF x
      <3>4. LinkTypes  OBVIOUS
      <3> HIDE DEF LinkTypes, ControlTypes, EventTypes, CompletionTypes, FlagTypes, CmEvent, ResInv,
                   DownInv, RequestInv, NeverUpInv, NeverUp, Once, EventIn
      <3> QED  BY ONLY <3>1, <3>2, <3>3, <3>4, EventGrows
    <2> QED  BY <2>1, <2>3
  <1>3. ASSUME ServeSecond PROVE NeverUpInv'
    BY <1>3, EventQueue DEF ServeSecond, Goto, adapter, handler, session, link
  <1>4. ASSUME Accept PROVE NeverUpInv'
    <2>1. /\ UNCHANGED <<state, cq, mr, cqh, hasty, pc["client"]>> /\ qp'["client"] = qp["client"]
          /\ pc["server"] = "accept" /\ pc'["server"] \in {"accepting", "teardown"}
      BY <1>4 DEF Accept, Goto, handler, session, link
    <2>2. ev'["client"] \in {ev["client"], Append(ev["client"], "ESTABLISHED")}
      BY <1>4 DEF Accept
    <2>3. Once(ev'["client"], "ESTABLISHED")
      <3>1. Once(ev["client"], "ESTABLISHED") /\ ~EventIn(ev["client"], "ESTABLISHED")
        BY <2>1
      <3>2. "client" \in Side /\ "ESTABLISHED" \in CmEvent  OBVIOUS
      <3> QED  BY <2>2, <3>1, <3>2, EventGrows
    <2>4. NeverUp'  BY <2>1
    <2> QED  BY <2>1, <2>3, <2>4
  <1>5. ASSUME nmsg_accept PROVE NeverUpInv'
    BY <1>5, EventQueue DEF nmsg_accept, Goto, adapter, handler, session, link
  <1>6. ASSUME ReadAdvertised PROVE NeverUpInv'
    BY <1>6, EventQueue DEF ReadAdvertised, Goto, SetState, handler, session, link
  <1>7. ASSUME ReadCompleted PROVE NeverUpInv'
    BY <1>7, EventQueue DEF ReadCompleted, Goto, adapter, handler
  <1>8. ASSUME ResetConnected PROVE NeverUpInv'
    BY <1>8, EventQueue DEF ResetConnected, Goto, SetState, adapter, handler
  <1>9. ASSUME GoAhead PROVE NeverUpInv'
    BY <1>9, EventQueue DEF GoAhead, Goto, handler, session, link
  <1>10. ASSUME Teardown PROVE NeverUpInv'
    BY <1>10, EventQueue DEF Teardown, Goto, Freed, session, link
  <1>11. ASSUME nmsg_bind_client PROVE NeverUpInv'
    BY <1>11, EventQueue DEF nmsg_bind_client, Goto, adapter, handler, session, link
  <1>12. ASSUME ClientSetup PROVE NeverUpInv'
    BY <1>12, EventQueue DEF ClientSetup, Goto, Made, SetupFails, adapter, handler, session,
                             link
  <1>13. ASSUME Connect PROVE NeverUpInv'
    <2>1. pc'["client"] \in {"failed", "connecting"} /\ ~EventIn(ev["client"], "ESTABLISHED")
      BY <1>13 DEF Connect, Goto
    <2>2. UNCHANGED <<pc["server"], state, hasty>>  BY <1>13 DEF Connect, Goto
    <2>3. ev'["client"] \in {ev["client"], Append(ev["client"], "FAILURE")}
      BY <1>13 DEF Connect
    <2>4. ~EventIn(ev'["client"], "ESTABLISHED") /\ Once(ev'["client"], "ESTABLISHED")
      <3> DEFINE x == "FAILURE"
      <3>1. x \in CmEvent /\ x # "ESTABLISHED" /\ "client" \in Side  OBVIOUS
      <3>2. Once(ev["client"], "ESTABLISHED") /\ ~EventIn(ev["client"], "ESTABLISHED")
        BY <2>1
      <3> HIDE DEF x
      <3>3. ev'["client"] = ev["client"] \/ ev'["client"] = Append(ev["client"], x)  BY <2>3 DEF x
      <3>4. LinkTypes  OBVIOUS
      <3> HIDE DEF LinkTypes, ControlTypes, EventTypes, CompletionTypes, FlagTypes, CmEvent, ResInv,
                   DownInv, RequestInv, NeverUpInv, NeverUp, Once, EventIn
      <3> QED  BY ONLY <3>1, <3>2, <3>3, <3>4, EventGrows
    <2>5. NeverUp => NeverUp'
      BY <1>13, <2>1, <2>2 DEF Connect, Freed, adapter, handler
    <2> QED  BY <2>2, <2>4, <2>5
  <1>14. ASSUME nmsg_connect_client PROVE NeverUpInv'
    BY <1>14, EventQueue DEF nmsg_connect_client, Goto, Freed, adapter, handler, session, link
  <1>15. ASSUME MakeMessage PROVE NeverUpInv'
    BY <1>15, EventQueue DEF MakeMessage, Goto, SetState, handler
  <1>16. ASSUME SendMessage PROVE NeverUpInv'
    BY <1>16, EventQueue DEF SendMessage, Goto, handler
  <1>17. ASSUME ResolveAddr PROVE NeverUpInv'
    <2>1. pc'["client"] \in {"failed", "bind"}  BY <1>17 DEF ResolveAddr, Goto
    <2>2. UNCHANGED <<pc["server"], state, qp, cq, mr, cqh, hasty>>
      BY <1>17 DEF ResolveAddr, Goto, session, link, adapter, handler
    <2>3. ev'["client"] \in {ev["client"], Append(ev["client"], "ADDR_RESOLVED"), Append(ev["client"], "FAILURE")}
      BY <1>17 DEF ResolveAddr
    <2>4. /\ EventIn(ev'["client"], "ESTABLISHED") => EventIn(ev["client"], "ESTABLISHED")
          /\ Once(ev'["client"], "ESTABLISHED")
      <3>0. PICK x \in CmEvent \ {"ESTABLISHED"} :
                     ev'["client"] \in {ev["client"], Append(ev["client"], x)}
        <4>1. "ADDR_RESOLVED" \in CmEvent \ {"ESTABLISHED"}  OBVIOUS
        <4>2. "FAILURE" \in CmEvent \ {"ESTABLISHED"}  OBVIOUS
        <4> QED  BY ONLY <2>3, <4>1, <4>2
      <3>1. x \in CmEvent /\ x # "ESTABLISHED" /\ "client" \in Side  BY <3>0
      <3>2. Once(ev["client"], "ESTABLISHED")  OBVIOUS
      <3>3. ev'["client"] = ev["client"] \/ ev'["client"] = Append(ev["client"], x)  BY <3>0
      <3>4. LinkTypes  OBVIOUS
      <3> HIDE DEF LinkTypes, ControlTypes, EventTypes, CompletionTypes, FlagTypes, CmEvent, ResInv,
                   DownInv, RequestInv, NeverUpInv, NeverUp, Once, EventIn
      <3> QED  BY ONLY <3>1, <3>2, <3>3, <3>4, EventGrows
    <2> QED  BY <2>1, <2>2, <2>4
  <1>18. ASSUME SendStart PROVE NeverUpInv'
    <2>1. UNCHANGED <<ev, qp, cq, mr, cqh, pc["server"]>> /\ state'["client"] = RDMA_READ_ADV
      BY <1>18 DEF SendStart, Goto, SetState, adapter, handler
    <2>2. state["client"] \notin {CONNECTED, RDMA_WRITE_ADV, RDMA_WRITE_COMPLETE} => hasty'
      BY <1>18 DEF SendStart
    <2>3. NeverUp => NeverUp'  BY <2>1, <2>2
    <2> QED  BY <2>1, <2>3
  <1>19. ASSUME nmsg_destroy_client PROVE NeverUpInv'
    BY <1>19, EventQueue DEF nmsg_destroy_client, Goto, SetState, Freed, session, link
  <1>20. ASSUME nmsg_stop_server PROVE NeverUpInv'
    BY <1>20, EventQueue DEF nmsg_stop_server, Goto, Freed, session, link
  <1>21. ASSUME SecondRequest PROVE NeverUpInv'
    BY <1>21, EventQueue DEF SecondRequest, SetState, adapter, handler
  <1>22. ASSUME BindInterrupted PROVE NeverUpInv'
    BY <1>22, EventQueue DEF BindInterrupted, Goto, adapter, handler, session, link
  <1>23. ASSUME ConnectInterrupted PROVE NeverUpInv'
    BY <1>23, EventQueue DEF ConnectInterrupted, Goto, adapter, handler, session, link
  <1>24. ASSUME ClientCmEvent PROVE NeverUpInv'
    <2> DEFINE t == Tail(ev["client"])
    <2>1. ev["client"] # <<>> /\ UNCHANGED <<pc, cq, mr, cqh, hasty>>
      BY <1>24 DEF ClientCmEvent, handler, session, link
    <2>2. /\ t \in Seq(CmEvent) /\ Once(t, "ESTABLISHED")
          /\ EventIn(t, "ESTABLISHED") => EventIn(ev["client"], "ESTABLISHED")
          /\ Head(ev["client"]) = "ESTABLISHED" => ~EventIn(t, "ESTABLISHED") /\ EventIn(ev["client"], "ESTABLISHED")
      BY <2>1, EventQueue
    <2> HIDE DEF t
    <2>3. CASE /\ ev'["client"] \in {t, Append(t, "ROUTE_RESOLVED"), Append(t, "FAILURE")}
               /\ UNCHANGED qp
               /\ state'["client"] \in {ADDR_RESOLVED, ROUTE_RESOLVED, ERROR}
      <3>1. /\ EventIn(ev'["client"], "ESTABLISHED") => EventIn(ev["client"], "ESTABLISHED")
            /\ Once(ev'["client"], "ESTABLISHED")
        <4>1. "ROUTE_RESOLVED" \in CmEvent /\ "FAILURE" \in CmEvent  OBVIOUS
        <4> HIDE DEF LinkTypes, CmEvent, DownInv, RequestInv, NeverUpInv
        <4>2. \A x \in {"ROUTE_RESOLVED", "FAILURE"} :
                /\ EventIn(Append(t, x), "ESTABLISHED") => EventIn(t, "ESTABLISHED")
                /\ Once(Append(t, x), "ESTABLISHED")
          BY <2>2, <4>1, EventAppend
        <4> QED  BY <2>2, <2>3, <4>2
      <3> HIDE DEF LinkTypes, DownInv, RequestInv
      <3>2. NeverUp => NeverUp'  BY <2>1, <2>3
      <3> QED  BY <2>1, <3>1, <3>2
    <2>4. CASE Head(ev["client"]) = "ESTABLISHED" /\ ev'["client"] = t
      BY <2>1, <2>2, <2>4
    <2> QED  BY <1>24, <2>3, <2>4 DEF ClientCmEvent, SetState, t
  <1>25. ASSUME ServerCmEvent PROVE NeverUpInv'
    BY <1>25, EventQueue DEF ServerCmEvent, SetState, adapter, handler, session, link
  <1>26. ASSUME NicReg PROVE NeverUpInv'
    BY <1>26, EventQueue DEF NicReg, AtHead, Executed, Completed, Break, session, link
  <1>27. ASSUME NicRead PROVE NeverUpInv'
    BY <1>27, EventQueue DEF NicRead, AtHead, Executed, Completed, Break
  <1>28. ASSUME CqRead PROVE NeverUpInv'
    BY <1>28, EventQueue DEF CqRead, SetState, Polls, handler
  <1>29. ASSUME ServerCqRecv PROVE NeverUpInv'
    BY <1>29, EventQueue DEF ServerCqRecv, Polls, Decides, server_recv
  <1>30. ASSUME ClientCqRecv PROVE NeverUpInv'
    BY <1>30, EventQueue DEF ClientCqRecv, Polls, Decides, client_recv, session, link
  <1>31. ASSUME NEW sd \in Side, NicSend(sd) PROVE NeverUpInv'
    BY <1>31, EventQueue DEF NicSend, AtHead, Executed, Completed, Break, Peer, session, link
  <1>32. ASSUME NEW sd \in Side, CqEnter(sd) PROVE NeverUpInv'
    BY <1>32, EventQueue DEF CqEnter, adapter, session, link
  <1>33. ASSUME NEW sd \in Side, CqLeave(sd) PROVE NeverUpInv'
    BY <1>33, EventQueue DEF CqLeave, adapter, session, link
  <1>34. ASSUME NEW sd \in Side, CqSet(sd) PROVE NeverUpInv'
    BY <1>34, EventQueue DEF CqSet, SetState, adapter
  <1>35. ASSUME NEW sd \in Side, CqRepost(sd) PROVE NeverUpInv'
    BY <1>35, EventQueue DEF CqRepost, SetState, session, link
  <1>36. ASSUME NEW sd \in Side, CqError(sd) PROVE NeverUpInv'
    BY <1>36, EventQueue DEF CqError, SetState, Polls, session, link
  <1>37. ASSUME NEW sd \in Side, LinkLoss(sd) PROVE NeverUpInv'
    BY <1>37, EventQueue DEF LinkLoss, Completed, Break, session
  <1>38. ASSUME NEW sd \in Side, DeviceRemoval(sd) PROVE NeverUpInv'
    BY <1>38, EventQueue DEF DeviceRemoval, SetState, handler, session
  <1>39. CASE UNCHANGED vars  BY <1>0, <1>39 DEF vars, adapter, handler, session, link
  <1> QED
    BY <1>1, <1>2, <1>3, <1>4, <1>5, <1>6, <1>7, <1>8, <1>9, <1>10, <1>11, <1>12, <1>13, <1>14,
       <1>15, <1>16, <1>17, <1>18, <1>19, <1>20, <1>21, <1>22, <1>23, <1>24, <1>25, <1>26,
       <1>27, <1>28, <1>29, <1>30, <1>31, <1>32, <1>33, <1>34, <1>35, <1>36, <1>37, <1>38,
       <1>39
       DEF Next, ServerThread, ClientThread, Caller, Nic, CqHandler, Fault, Side
=============================================================================
