------------------------------- MODULE Remote -------------------------------
(***************************************************************************)
(* The remote fetch inside page migration: __migrate_device_pages() of     *)
(* mm/migrate_device.c asks retrieve_page() for every page of its range,   *)
(* retrieve_page() talks UDP through mm/nmsg.c, and the server at the      *)
(* other end keeps its pages in the store of mm/mem.c.                     *)
(*                                                                         *)
(* The callers modelled are those that migrate device pages without a VMA: *)
(* "evict" (dmirror_device_evict_chunk() over a chunk) and "coherent"      *)
(* (migrate_device_coherent_page() of one page).  They lock their pages,   *)
(* hold them locked and unmapped through the fetch, and share the one      *)
(* global socket nmsg_client.sock.                                         *)
(***************************************************************************)
EXTENDS Integers, FiniteSets

CONSTANTS
    Caller,     \* threads that migrate
    NPages,     \* pages of the chunk
    Negative,   \* pages whose migrate_pfn() entry is negative as an int
    Sock,       \* addresses of sockets
    MaxCalls,   \* bound on calls
    MaxQueue,   \* bound on datagrams that wait in the server's socket
    NoCaller, NoSock

Page == 1..NPages

ASSUME RemoteAssumption ==
    /\ NPages \in Nat \ {0}
    /\ Negative \subseteq Page
    /\ MaxCalls \in Nat /\ MaxQueue \in Nat
    /\ IsFiniteSet(Caller)
    /\ NoCaller \notin Caller /\ NoSock \notin Sock

VARIABLES
    used,     \* pages that are not free
    lock,     \* page lock: the caller that holds it
    ref,      \* references that callers hold on each page
    mapped,   \* pages whose page-table entries are no migration entries
    pc,       \* where each caller is
    arg,      \* what it runs, "evict" or "coherent", and the pages of its src_pfns array
    i,        \* the loop counter of __migrate_device_pages()
    src,      \* src_pfns: no page, a page, a page with MIGRATE_PFN_MIGRATE
    dst,      \* entries of dst_pfns that name a page
    sock,     \* nmsg_client.sock
    open,     \* sockets that are not released
    overlap,  \* history: two calls of retrieve_page() were under way at once
    srv,      \* where the server's thread is
    queue,    \* requests waiting in its socket
    stopped,  \* nmsg_stop_server() was called
    mem,      \* `memory': as memory_init() left it, or freed
    page0,    \* memory->pages[0].state
    ncalls

pageVars == <<used, lock, ref, mapped>>
argVars == <<arg, src, dst>>
sockVars == <<sock, open, overlap>>
srvVars == <<srv, stopped, mem, page0>>
vars == <<pageVars, pc, argVars, i, sockVars, srvVars, queue, ncalls>>

Evicts == [op |-> "evict", lo |-> 1, hi |-> NPages]
Migrates(p) == [op |-> "coherent", lo |-> p, hi |-> p]
NoArg == [op |-> "none", lo |-> 1, hi |-> 1]

Init ==
    /\ used \in SUBSET Page /\ used # {}
    /\ lock = [p \in Page |-> NoCaller]
    /\ ref = [p \in Page |-> 0]
    /\ mapped = used
    /\ pc = [c \in Caller |-> "idle"]
    /\ arg = [c \in Caller |-> NoArg] /\ i = [c \in Caller |-> 1]
    /\ src = [c \in Caller |-> [p \in Page |-> "none"]]
    /\ dst = [c \in Caller |-> {}]
    /\ sock = NoSock /\ open = {} /\ overlap = FALSE
    /\ srv = "none" /\ queue = 0 /\ stopped = FALSE
    /\ mem = "ready" /\ page0 = "INVALID"
    /\ ncalls = 0

At(c, l) == pc[c] = l
Goto(c, l) == pc' = [pc EXCEPT ![c] = l]

Leave(c, l) ==
    /\ Goto(c, l)
    /\ arg' = [arg EXCEPT ![c] = NoArg] /\ i' = [i EXCEPT ![c] = 1]

Return(c) == Leave(c, "idle")

\* The thread dies, and keeps what it has locked.
Oops(c) == Leave(c, "oops")

\* Mutant: the loops run one page too far.
LastRoundLate(c) == i[c] = arg[c].hi + 1

LastRound(c) == i[c] = arg[c].hi

Held(c) == {p \in Page : src[c][p] # "none"}

-----------------------------------------------------------------------------
(***************************************************************************)
(* dmirror_device_evict_chunk() starts; so does                            *)
(* migrate_device_coherent_page(), whose caller holds a reference.         *)
(***************************************************************************)
Evict(c) ==
    /\ At(c, "idle") /\ ncalls < MaxCalls
    /\ Goto(c, "range")
    /\ arg' = [arg EXCEPT ![c] = Evicts]
    /\ i' = [i EXCEPT ![c] = 1]
    /\ ncalls' = ncalls + 1
    /\ UNCHANGED <<pageVars, src, dst, sockVars, srvVars, queue>>

Coherent(c, p) ==
    /\ At(c, "idle") /\ ncalls < MaxCalls
    /\ p \in used
    /\ Goto(c, "lock")
    /\ arg' = [arg EXCEPT ![c] = Migrates(p)]
    /\ i' = [i EXCEPT ![c] = p]
    /\ ref' = [ref EXCEPT ![p] = @ + 1]
    /\ src' = [src EXCEPT ![c][p] = "page"]
    /\ ncalls' = ncalls + 1
    /\ UNCHANGED <<used, lock, mapped, dst, sockVars, srvVars, queue>>

\* Mutant: the reference to a page that is locked by somebody else is kept.
LockedPageKept(p) == ref' = [ref EXCEPT ![p] = @ + 1]

\* get_page_unless_zero(), trylock_page() fails, put_page()
LockedPage(p) == UNCHANGED ref

(***************************************************************************)
(* One round of the loop of migrate_device_range(): a free page and one    *)
(* that is locked are left out.                                            *)
(***************************************************************************)
migrate_device_range(c) ==
    LET p == i[c] IN
    /\ At(c, "range")
    /\ \/ p \notin used /\ UNCHANGED <<ref, lock, src>>
       \/ p \in used /\ lock[p] # NoCaller /\ LockedPage(p) /\ UNCHANGED <<lock, src>>
       \/ /\ p \in used /\ lock[p] = NoCaller
          /\ lock' = [lock EXCEPT ![p] = c]
          /\ ref' = [ref EXCEPT ![p] = @ + 1]
          /\ src' = [src EXCEPT ![c][p] = "migrate"]
    /\ IF LastRound(c) THEN Goto(c, "unmap") /\ UNCHANGED i
                       ELSE i' = [i EXCEPT ![c] = p + 1] /\ UNCHANGED pc
    /\ UNCHANGED <<used, mapped, arg, dst, sockVars, srvVars, queue, ncalls>>

LockPage(c) ==
    LET p == i[c] IN
    /\ At(c, "lock") /\ lock[p] = NoCaller
    /\ lock' = [lock EXCEPT ![p] = c]
    /\ src' = [src EXCEPT ![c][p] = "migrate"]
    /\ Goto(c, "unmap")
    /\ UNCHANGED <<used, ref, mapped, arg, i, dst, sockVars, srvVars, queue, ncalls>>

(***************************************************************************)
(* The page-table entries point to the pages in M again, which are         *)
(* unlocked and put.                                                       *)
(***************************************************************************)
PutBack(M) ==
    /\ mapped' = mapped \cup M
    /\ lock' = [p \in Page |-> IF p \in M THEN NoCaller ELSE lock[p]]
    /\ ref' = [p \in Page |-> IF p \in M THEN ref[p] - 1 ELSE ref[p]]

(***************************************************************************)
(* migrate_device_unmap(): the pages that somebody has pinned are put back *)
(* and no longer in src_pfns.  migrate_device_coherent_page() returns      *)
(* -EBUSY when that was its page.                                          *)
(***************************************************************************)
migrate_device_unmap(c) ==
    /\ At(c, "unmap")
    /\ \E pinned \in SUBSET Held(c) :
         /\ mapped' = (mapped \ Held(c)) \cup pinned
         /\ lock' = [p \in Page |-> IF p \in pinned THEN NoCaller ELSE lock[p]]
         /\ ref' = [p \in Page |-> IF p \in pinned THEN ref[p] - 1 ELSE ref[p]]
         /\ src' = [src EXCEPT ![c] = [p \in Page |-> IF p \in pinned THEN "none" ELSE @[p]]]
         /\ IF arg[c].op = "coherent" /\ pinned # {}
              THEN Return(c) ELSE Goto(c, "alloc") /\ UNCHANGED <<arg, i>>
    /\ UNCHANGED <<used, dst, sockVars, srvVars, queue, ncalls>>

(***************************************************************************)
(* The destinations: alloc_page() with __GFP_NOFAIL for every page of the  *)
(* chunk, without it for the coherent page.                                *)
(***************************************************************************)
AllocDst(c) ==
    /\ At(c, "alloc")
    /\ \E D \in SUBSET Held(c) :
         /\ arg[c].op = "evict" => D = Held(c)
         /\ dst' = [dst EXCEPT ![c] = D]
    /\ i' = [i EXCEPT ![c] = arg[c].lo]
    /\ Goto(c, "init")
    /\ UNCHANGED <<pageVars, arg, src, sockVars, srvVars, queue, ncalls>>

-----------------------------------------------------------------------------
(***************************************************************************)
(* retrieve_page() of entry i.  Its result is (struct page * ) -1 in every *)
(* case: each failure returns -1, and nmsg_retrieve_pages() returns 0 for  *)
(* success, which retrieve_page() takes for a NULL page.                   *)
(***************************************************************************)
Retrieving(c) == pc[c] \in {"send", "retrieve", "recv", "destroy"}

nmsg_init_client(c) ==
    /\ At(c, "init")
    /\ \/ /\ Sock \ open # {}
          /\ sock' = CHOOSE s \in Sock : s \notin open
          /\ open' = open \cup {sock'}
          /\ overlap' = (overlap \/ \E d \in Caller \ {c} : Retrieving(d))
          /\ Goto(c, "send")
       \/ Goto(c, "use") /\ UNCHANGED sockVars      \* sock_create() failed
    /\ UNCHANGED <<pageVars, argVars, i, srvVars, queue, ncalls>>

(***************************************************************************)
(* kernel_sendmsg() of the text "retrieve_pages": the datagram reaches the *)
(* server's queue or is lost.                                              *)
(***************************************************************************)
Sent == \/ UNCHANGED queue
        \/ srv \in {"recv", "process"} /\ queue < MaxQueue /\ queue' = queue + 1

\* What an access to a released socket comes to: an error, or the end of the thread.
Released(c, l) ==
    /\ sock \notin open
    /\ (Goto(c, l) /\ UNCHANGED <<arg, i>>) \/ Oops(c)

\* Mutant: retrieve_page() forgets the socket when it cannot send.
SendFailedLeak == "use"

\* nmsg_send_message() fails: nmsg_destroy_client(), and the result is -1
SendFailed == "destroy"

nmsg_send_message(c) ==
    /\ At(c, "send")
    /\ \/ sock \in open /\ Goto(c, "retrieve") /\ Sent /\ UNCHANGED <<arg, i>>
       \/ sock \in open /\ Goto(c, SendFailed) /\ UNCHANGED <<arg, i, queue>>
       \/ Released(c, "destroy") /\ UNCHANGED queue
    /\ UNCHANGED <<pageVars, src, dst, sockVars, srvVars, ncalls>>

\* The int that src_pfns[i] becomes.
NumPages(c) ==
    IF i[c] \notin Held(c) THEN 0 ELSE IF i[c] \in Negative THEN -1 ELSE 1

(***************************************************************************)
(* nmsg_retrieve_pages() sends the request once more and waits for as many *)
(* datagrams as the entry of src_pfns is big, if it is positive.  What it  *)
(* does with a datagram is left out: the server of this repository answers *)
(* with none.                                                              *)
(***************************************************************************)
nmsg_retrieve_pages(c) ==
    /\ At(c, "retrieve")
    /\ \/ /\ sock \in open
          /\ Goto(c, IF NumPages(c) > 0 THEN "recv" ELSE "destroy")
          /\ Sent /\ UNCHANGED <<arg, i>>
       \/ sock \in open /\ Goto(c, "destroy") /\ UNCHANGED <<arg, i, queue>>
       \/ Released(c, "destroy") /\ UNCHANGED queue
    /\ UNCHANGED <<pageVars, src, dst, sockVars, srvVars, ncalls>>

(***************************************************************************)
(* No server sends anything, so kernel_recvmsg() ends only with an error:  *)
(* a signal to the thread, or a socket that another caller has released.   *)
(***************************************************************************)
RecvFails(c) ==
    /\ At(c, "recv")
    /\ (sock \in open /\ Goto(c, "destroy") /\ UNCHANGED <<arg, i>>) \/ Released(c, "destroy")
    /\ UNCHANGED <<pageVars, src, dst, sockVars, srvVars, queue, ncalls>>

nmsg_destroy_client(c) ==
    /\ At(c, "destroy")
    /\ \/ sock \in open /\ open' = open \ {sock} /\ Goto(c, "use") /\ UNCHANGED <<arg, i>>
       \/ Released(c, "use") /\ UNCHANGED open
    /\ UNCHANGED <<pageVars, src, dst, sock, overlap, srvVars, queue, ncalls>>

-----------------------------------------------------------------------------
\* src_pfns[i] &= ~MIGRATE_PFN_MIGRATE
MigrateCleared(s) == IF s = "migrate" THEN "page" ELSE s

\* Mutant: `continue' without i++.
NextIndexSame(c) == i[c]

NextIndex(c) == IF LastRound(c) THEN i[c] ELSE i[c] + 1

(***************************************************************************)
(* The rest of the round of __migrate_device_pages(), where `page' is -1.  *)
(* Without a destination the entry is cleared.  With one, `page' passes    *)
(* the test for NULL, and page_mapping() reads through it.                 *)
(***************************************************************************)
__migrate_device_pages(c) ==
    /\ At(c, "use")
    /\ IF i[c] \in dst[c]
         THEN Oops(c) /\ UNCHANGED src
         ELSE /\ src' = [src EXCEPT ![c][i[c]] = MigrateCleared(@)]
              /\ i' = [i EXCEPT ![c] = NextIndex(c)]
              /\ Goto(c, IF LastRound(c) THEN "finalize" ELSE "init")
              /\ UNCHANGED arg
    /\ UNCHANGED <<pageVars, dst, sockVars, srvVars, queue, ncalls>>

(***************************************************************************)
(* migrate_device_finalize(): an entry that is not marked gets its old     *)
(* page back.  None is marked: a caller with a destination has died in     *)
(* __migrate_device_pages(), so nobody gets here with a page that migrates.*)
(***************************************************************************)
migrate_device_finalize(c) ==
    /\ At(c, "finalize")
    /\ PutBack(Held(c))
    /\ src' = [src EXCEPT ![c] = [p \in Page |-> "none"]]
    /\ dst' = [dst EXCEPT ![c] = {}]
    /\ Return(c)
    /\ UNCHANGED <<used, sockVars, srvVars, queue, ncalls>>

-----------------------------------------------------------------------------
nmsg_start_server ==
    /\ mem = "ready" /\ srv = "none"
    /\ srv' \in {"setup", "failed"}      \* kthread_create() may fail
    /\ UNCHANGED <<pageVars, pc, argVars, i, sockVars, stopped, mem, page0, queue, ncalls>>

(***************************************************************************)
(* __nmsg_init_server(): the socket, its address and the buffer, or the    *)
(* end of the thread; then the loop.                                       *)
(***************************************************************************)
ServerSetup ==
    /\ srv = "setup"
    /\ srv' \in {"recv", "failed"}
    /\ UNCHANGED <<pageVars, pc, argVars, i, sockVars, stopped, mem, page0, queue, ncalls>>

\* Mutant: the loop ends after the first message.
NextRoundNever == "ended"

NextRound == "recv"

(***************************************************************************)
(* A round of the loop: kernel_recvmsg() brings a request or fails, which  *)
(* ends the loop, and nmsg_process_message() writes the request into page  *)
(* 0 of the store.  nmsg_stop_server() has freed buffer and socket, and    *)
(* memory_destroy() perhaps the store: what the thread then does with them *)
(* may end it, and so may its own kfree() and sock_release().              *)
(***************************************************************************)
ServerStep ==
    /\ \/ /\ srv = "recv" /\ queue > 0
          /\ srv' = "process" /\ queue' = queue - 1
          /\ UNCHANGED page0
       \/ /\ srv = "process"
          /\ page0' = IF mem = "ready" THEN "SHARED" ELSE page0
          /\ srv' = NextRound
          /\ UNCHANGED queue
       \/ /\ srv \in {"recv", "process"} /\ stopped
          /\ srv' = "ended"
          /\ UNCHANGED <<page0, queue>>
    /\ UNCHANGED <<pageVars, pc, argVars, i, sockVars, stopped, mem, ncalls>>

ServerRecvFails ==
    /\ srv = "recv"
    /\ srv' = "failed"
    /\ UNCHANGED <<pageVars, pc, argVars, i, sockVars, stopped, mem, page0, queue, ncalls>>

(***************************************************************************)
(* nmsg_stop_server().  Its signal does not reach a kernel thread that has *)
(* allowed none, and kthread_stop() is not called.                         *)
(***************************************************************************)
nmsg_stop_server ==
    /\ srv # "none" /\ ~stopped
    /\ stopped' = TRUE
    /\ UNCHANGED <<pageVars, pc, argVars, i, sockVars, srv, mem, page0, queue, ncalls>>

memory_destroy ==
    /\ stopped /\ mem = "ready"
    /\ mem' = "freed"
    /\ UNCHANGED <<pageVars, pc, argVars, i, sockVars, srv, stopped, page0, queue, ncalls>>

-----------------------------------------------------------------------------
CallStep(c) ==
    \/ migrate_device_range(c) \/ LockPage(c) \/ migrate_device_unmap(c) \/ AllocDst(c)
    \/ nmsg_init_client(c) \/ nmsg_send_message(c) \/ nmsg_retrieve_pages(c) \/ nmsg_destroy_client(c)
    \/ __migrate_device_pages(c) \/ migrate_device_finalize(c)

Next ==
    \/ \E c \in Caller : \/ Evict(c) \/ (\E p \in Page : Coherent(c, p))
                         \/ CallStep(c) \/ RecvFails(c)
    \/ nmsg_start_server \/ ServerSetup \/ ServerStep \/ ServerRecvFails
    \/ nmsg_stop_server \/ memory_destroy

(***************************************************************************)
(* Threads go on where they do not wait; no signal need come.              *)
(***************************************************************************)
Spec ==
    /\ Init /\ [][Next]_vars
    /\ \A c \in Caller : WF_vars(CallStep(c))
    /\ WF_vars(ServerSetup \/ ServerStep)

-----------------------------------------------------------------------------
(***************************************************************************)
(* Every variable has its type.                                            *)
(***************************************************************************)
TypeOK ==
    /\ used \subseteq Page /\ mapped \subseteq used
    /\ lock \in [Page -> Caller \cup {NoCaller}]
    /\ ref \in [Page -> 0..Cardinality(Caller)]
    /\ pc \in [Caller -> {"idle", "range", "lock", "unmap", "alloc", "init", "send", "retrieve",
                         "recv", "destroy", "use", "finalize", "oops"}]
    /\ arg \in [Caller -> {NoArg, Evicts} \cup {Migrates(p) : p \in Page}]
    /\ i \in [Caller -> Page]
    /\ src \in [Caller -> [Page -> {"none", "page", "migrate"}]]
    /\ dst \in [Caller -> SUBSET Page]
    /\ sock \in Sock \cup {NoSock} /\ open \subseteq Sock /\ overlap \in BOOLEAN
    /\ srv \in {"none", "setup", "recv", "process", "failed", "ended"}
    /\ queue \in 0..MaxQueue /\ stopped \in BOOLEAN
    /\ mem \in {"ready", "freed"} /\ page0 \in {"INVALID", "SHARED"}
    /\ ncalls \in 0..MaxCalls

(***************************************************************************)
(* Callers that race for the same pages keep the page locks and references *)
(* of migrate_device_range(), migrate_device_unmap() and                   *)
(* migrate_device_finalize() in balance: a page has one reference for each *)
(* caller whose src_pfns names it, is locked by at most one of them, and   *)
(* is unmapped only while it is locked.                                    *)
(***************************************************************************)
PagesBalanced ==
    \A p \in Page :
        /\ ref[p] = Cardinality({c \in Caller : p \in Held(c)})
        /\ \A c \in Caller : lock[p] = c <=> p \in Held(c) /\ ~At(c, "lock")
        /\ p \in used \ mapped => lock[p] # NoCaller

(***************************************************************************)
(* As long as calls of retrieve_page() do not overlap, every path through  *)
(* it, the failing ones too, releases the socket it has made.  (When they  *)
(* do, one overwrites the other's nmsg_client.sock.)                       *)
(***************************************************************************)
SocketsReleased ==
    overlap \/ /\ open \subseteq {sock}
               /\ (\A c \in Caller : ~Retrieving(c)) => open = {}

(***************************************************************************)
(* A migration ends unless it dies on the page that retrieve_page()        *)
(* returned, waits for an answer of the server, or waits in lock_page()    *)
(* for a page that such a migration holds.                                 *)
(***************************************************************************)
Stuck(c) == pc[c] \in {"recv", "oops"}

CallEnds ==
    \A c \in Caller :
        ~At(c, "idle") ~> \/ At(c, "idle")
                          \/ Stuck(c)
                          \/ At(c, "lock") /\ \E d \in Caller : lock[i[c]] = d /\ Stuck(d)

(***************************************************************************)
(* Requests that reach the server end up in page 0 of its store, unless    *)
(* the server is stopped or receiving fails.                               *)
(***************************************************************************)
RequestsServed ==
    queue > 0 ~> (queue = 0 /\ page0 = "SHARED") \/ srv = "failed" \/ stopped
=============================================================================
