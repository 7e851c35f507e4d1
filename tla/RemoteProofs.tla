---------------------------- MODULE RemoteProofs ----------------------------
(***************************************************************************)
(* Proofs about Remote: the page locks, references and page-table entries  *)
(* of callers that race for the same pages stay in balance, nothing is     *)
(* migrated, and the socket of retrieve_page() is released, for any number *)
(* of callers and pages.                                                   *)
(***************************************************************************)
EXTENDS Remote, FiniteSetTheorems, TLAPS

\* Inside the loop of __migrate_device_pages().
Fetching(c) == pc[c] \in {"init", "send", "retrieve", "recv", "destroy", "use"}

(***************************************************************************)
(* What the locals of a caller are at each place: its loop counter stays   *)
(* between the ends of its array; its array names used pages between those *)
(* ends; an idle caller holds nothing; and the entries the loop of         *)
(* __migrate_device_pages() has passed have no destination and no mark.    *)
(***************************************************************************)
LocalOK(c) ==
    /\ i[c] \in arg[c].lo .. arg[c].hi
    /\ pc[c] # "oops" => Held(c) \subseteq arg[c].lo .. arg[c].hi
    /\ Held(c) \subseteq used
    /\ At(c, "idle") => Held(c) = {}
    /\ At(c, "lock") => i[c] \in Held(c) /\ Held(c) \subseteq {i[c]}
    /\ ~Fetching(c) /\ ~At(c, "oops") => dst[c] = {}
    /\ Fetching(c) => /\ dst[c] \subseteq Held(c)
                      /\ \A p \in Page : p < i[c] => p \notin dst[c] /\ src[c][p] # "migrate"
    /\ At(c, "finalize") => \A p \in Page : src[c][p] # "migrate"

\* TypeOK without the bound on references, which PagesBalanced gives.
RemoteTypes ==
    /\ used \subseteq Page /\ mapped \subseteq used
    /\ lock \in [Page -> Caller \cup {NoCaller}]
    /\ ref \in [Page -> Int]
    /\ pc \in [Caller -> {"idle", "range", "lock", "unmap", "alloc", "init", "send", "retrieve",
                         "recv", "destroy", "use", "finalize", "oops"}]
    /\ arg \in [Caller -> {NoArg, Evicts} \cup {Migrates(p) : p \in Page}]
    /\ i \in [Caller -> Page]
    /\ src \in [Caller -> [Page -> {"none", "page", "migrate"}]]
    /\ dst \in [Caller -> SUBSET Page]
    /\ sock \in Sock \cup {NoSock} /\ open \subseteq Sock /\ overlap \in BOOLEAN
    /\ srv \in {"none", "setup", "recv", "process", "failed", "ended"}
    /\ queue \in 0..MaxQueue /\ stopped \in BOOLEAN
    /\ mem \in {"ready", "freed"} /\ page0 \in {"INVALID", "SHARED"}
    /\ ncalls \in 0..MaxCalls

RemoteInv ==
    /\ RemoteTypes
    /\ \A c \in Caller : LocalOK(c)
    /\ PagesBalanced

-----------------------------------------------------------------------------
\* The ends of a caller's array are pages.
LEMMA ArgEnds ==
    ASSUME RemoteTypes, NEW c \in Caller
    PROVE  /\ arg[c].lo \in Page /\ arg[c].hi \in Page
           /\ i[c] \in Page /\ Page \subseteq Int
           /\ arg[c].op \in {"none", "evict", "coherent"}
  BY RemoteAssumption DEF RemoteTypes, Page, NoArg, Evicts, Migrates

\* The locals of d are not touched.
Untouched(d) ==
    pc'[d] = pc[d] /\ arg'[d] = arg[d] /\ i'[d] = i[d] /\ src'[d] = src[d] /\ dst'[d] = dst[d]

\* A step that touches neither the locals of a caller nor the used pages keeps LocalOK.
LEMMA LocalFrame ==
    ASSUME NEW d \in Caller, LocalOK(d), Untouched(d), used' = used
    PROVE  LocalOK(d)'
  <1>1. Held(d)' = Held(d)
    BY DEF Held, Untouched
  <1> QED
    BY <1>1 DEF LocalOK, Untouched, At, Fetching

\* Each step of a caller keeps its own locals in order and leaves those of the others alone.
LEMMA LocalStep ==
    ASSUME RemoteTypes, \A c \in Caller : LocalOK(c), PagesBalanced, [Next]_vars
    PROVE  \A c \in Caller : LocalOK(c)'
  <1> USE DEF At, Goto
  <1>1. ASSUME NEW c \in Caller, LocalOK(c)', used' = used, \A d \in Caller \ {c} : Untouched(d)
        PROVE  \A d \in Caller : LocalOK(d)'
    BY <1>1, LocalFrame
  <1>2. ASSUME NEW c \in Caller, Evict(c)  PROVE \A d \in Caller : LocalOK(d)'
    <2>1. used' = used /\ \A d \in Caller \ {c} : Untouched(d)
      BY <1>2 DEF Evict, RemoteTypes, pageVars, Untouched
    <2>2. LocalOK(c)'
      <3>1. pc'[c] = "range" /\ arg'[c].lo = 1 /\ arg'[c].hi = NPages /\ i'[c] = 1 /\ dst' = dst
        BY <1>2 DEF Evict, RemoteTypes, Evicts
      <3>2. Held(c)' = {} /\ dst[c] = {}
        BY <1>2 DEF Evict, LocalOK, Held, Fetching
      <3> QED BY <3>1, <3>2, RemoteAssumption DEF LocalOK, Fetching
    <2> QED BY <1>1, <2>1, <2>2
  <1>3. ASSUME NEW c \in Caller, NEW p \in Page, Coherent(c, p)  PROVE \A d \in Caller : LocalOK(d)'
    <2>1. used' = used /\ \A d \in Caller \ {c} : Untouched(d)
      BY <1>3 DEF Coherent, RemoteTypes, pageVars, Untouched
    <2>2. Held(c)' = {p}
      BY <1>3 DEF Coherent, RemoteTypes, LocalOK, Held
    <2>3. LocalOK(c)'
      <3>1. pc'[c] = "lock" /\ arg'[c].lo = p /\ arg'[c].hi = p /\ i'[c] = p /\ dst' = dst
        BY <1>3 DEF Coherent, RemoteTypes, Migrates
      <3>2. dst[c] = {} /\ p \in used
        BY <1>3 DEF Coherent, LocalOK, Fetching
      <3> QED BY <2>1, <2>2, <3>1, <3>2 DEF LocalOK, Fetching, Page
    <2> QED BY <1>1, <2>1, <2>3
  <1>4. ASSUME NEW c \in Caller, migrate_device_range(c)  PROVE \A d \in Caller : LocalOK(d)'
    <2>1. used' = used /\ \A d \in Caller \ {c} : Untouched(d)
      BY <1>4 DEF migrate_device_range, RemoteTypes, pageVars, Untouched
    <2>2. Held(c) \subseteq Held(c)' /\ Held(c)' \subseteq Held(c) \cup {i[c]} /\ Held(c)' \subseteq used
      BY <1>4 DEF migrate_device_range, RemoteTypes, LocalOK, Held
    <2>3. LocalOK(c)'
      <3>1. /\ pc'[c] = IF LastRound(c) THEN "unmap" ELSE "range"
            /\ i'[c] = IF LastRound(c) THEN i[c] ELSE i[c] + 1
            /\ arg' = arg /\ dst' = dst
        BY <1>4 DEF migrate_device_range, RemoteTypes
      <3>2. i[c] \in arg[c].lo .. arg[c].hi /\ Held(c) \subseteq arg[c].lo .. arg[c].hi /\ dst[c] = {}
        BY <1>4 DEF migrate_device_range, LocalOK, Fetching
      <3>3. i'[c] \in arg[c].lo .. arg[c].hi
        BY <3>1, <3>2, ArgEnds DEF LastRound
      <3> QED BY <2>1, <2>2, <3>1, <3>2, <3>3 DEF LocalOK, Fetching
    <2> QED BY <1>1, <2>1, <2>3
  <1>5. ASSUME NEW c \in Caller, LockPage(c)  PROVE \A d \in Caller : LocalOK(d)'
    <2>1. used' = used /\ \A d \in Caller \ {c} : Untouched(d)
      BY <1>5 DEF LockPage, RemoteTypes, pageVars, Untouched
    <2>2. Held(c)' = Held(c)
      BY <1>5 DEF LockPage, RemoteTypes, LocalOK, Held
    <2>3. LocalOK(c)'
      BY <1>5, <2>1, <2>2, ArgEnds DEF LockPage, RemoteTypes, LocalOK, Fetching, Page
    <2> QED BY <1>1, <2>1, <2>3
  <1>6. ASSUME NEW c \in Caller, migrate_device_unmap(c)  PROVE \A d \in Caller : LocalOK(d)'
    <2>1. used' = used /\ \A d \in Caller \ {c} : Untouched(d)
      BY <1>6 DEF migrate_device_unmap, RemoteTypes, Untouched, Return, Leave
    <2>2. LocalOK(c)'
      <3>1. PICK pinned \in SUBSET Held(c) :
              /\ src' = [src EXCEPT ![c] = [p \in Page |-> IF p \in pinned THEN "none" ELSE @[p]]]
              /\ IF arg[c].op = "coherent" /\ pinned # {}
                   THEN Return(c) ELSE Goto(c, "alloc") /\ UNCHANGED <<arg, i>>
        BY <1>6 DEF migrate_device_unmap
      <3>2. Held(c)' = Held(c) \ pinned
        BY <3>1 DEF RemoteTypes, Held
      <3>3. CASE arg[c].op = "coherent" /\ pinned # {}
        <4>1. arg[c].lo = arg[c].hi
          BY <3>3 DEF RemoteTypes, NoArg, Evicts, Migrates
        <4>2. Held(c)' = {}
          BY <1>6, <3>2, <3>3, <4>1, ArgEnds DEF migrate_device_unmap, LocalOK, Page
        <4>3. pc'[c] = "idle" /\ i'[c] = 1 /\ arg'[c] = NoArg /\ dst' = dst
          BY <1>6, <3>1, <3>3 DEF migrate_device_unmap, Return, Leave, RemoteTypes
        <4> QED BY <1>6, <4>2, <4>3, <2>1 DEF migrate_device_unmap, LocalOK, NoArg, Fetching
      <3>4. CASE ~(arg[c].op = "coherent" /\ pinned # {})
        <4>1. pc'[c] = "alloc" /\ i' = i /\ arg' = arg /\ dst' = dst
          BY <1>6, <3>1, <3>4 DEF migrate_device_unmap, RemoteTypes
        <4> QED BY <1>6, <3>2, <4>1, <2>1 DEF migrate_device_unmap, LocalOK, Fetching
      <3> QED BY <3>3, <3>4
    <2> QED BY <1>1, <2>1, <2>2
  <1>7. ASSUME NEW c \in Caller, AllocDst(c)  PROVE \A d \in Caller : LocalOK(d)'
    <2>1. used' = used /\ \A d \in Caller \ {c} : Untouched(d)
      BY <1>7 DEF AllocDst, RemoteTypes, pageVars, Untouched
    <2>2. Held(c)' = Held(c)
      BY <1>7 DEF AllocDst, Held
    <2>3. LocalOK(c)'
      <3>1. /\ pc'[c] = "init" /\ i'[c] = arg[c].lo /\ arg' = arg /\ src' = src
            /\ dst'[c] \subseteq Held(c)
        BY <1>7 DEF AllocDst, RemoteTypes
      <3>2. Held(c) \subseteq arg[c].lo .. arg[c].hi /\ Held(c) \subseteq used /\ i[c] \in arg[c].lo .. arg[c].hi
        BY <1>7 DEF AllocDst, LocalOK
      <3>3. ASSUME NEW p \in Page, p < arg[c].lo  PROVE p \notin Held(c) /\ src[c][p] # "migrate"
        BY <3>2, <3>3, ArgEnds DEF Held
      <3>4. arg[c].lo \in arg[c].lo .. arg[c].hi
        BY <3>2, ArgEnds
      <3> QED BY <2>1, <2>2, <3>1, <3>2, <3>3, <3>4 DEF LocalOK, Fetching
    <2> QED BY <1>1, <2>1, <2>3
  <1> DEFINE Moves(c) == /\ used' = used /\ src' = src /\ dst' = dst
                         /\ Fetching(c)
                         /\ \/ /\ pc' = [pc EXCEPT ![c] = pc'[c]] /\ Fetching(c)'
                               /\ UNCHANGED <<arg, i>>
                            \/ Oops(c)
  <1>8. ASSUME NEW c \in Caller, Moves(c)  PROVE \A d \in Caller : LocalOK(d)'
    <2>1. \A d \in Caller \ {c} : Untouched(d)
      BY <1>8 DEF RemoteTypes, Untouched, Oops, Leave
    <2>2. Held(c)' = Held(c)
      BY <1>8 DEF Held
    <2>3. LocalOK(c)'
      BY <1>8, <2>2 DEF RemoteTypes, LocalOK, Fetching, Oops, Leave, NoArg
    <2> QED BY <1>1, <1>8, <2>1, <2>3
  <1>9. ASSUME NEW c \in Caller,
               \/ nmsg_init_client(c) \/ nmsg_send_message(c) \/ nmsg_retrieve_pages(c)
               \/ RecvFails(c) \/ nmsg_destroy_client(c)
        PROVE \A d \in Caller : LocalOK(d)'
    <2>1. Moves(c)
      BY <1>9 DEF nmsg_init_client, nmsg_send_message, nmsg_retrieve_pages, RecvFails, nmsg_destroy_client,
                  Released, SendFailed, RemoteTypes, pageVars, argVars, Fetching
    <2> QED BY <1>8, <2>1
  <1>10. ASSUME NEW c \in Caller, __migrate_device_pages(c)  PROVE \A d \in Caller : LocalOK(d)'
    <2>1. CASE i[c] \in dst[c]
      <3>1. Moves(c)
        BY <1>10, <2>1 DEF __migrate_device_pages, pageVars, Fetching
      <3> QED BY <1>8, <3>1
    <2>2. CASE i[c] \notin dst[c]
      <3>1. used' = used /\ \A d \in Caller \ {c} : Untouched(d)
        BY <1>10, <2>2 DEF __migrate_device_pages, RemoteTypes, pageVars, Untouched
      <3>2. /\ src'[c] = [src[c] EXCEPT ![i[c]] = MigrateCleared(@)]
            /\ dst' = dst /\ arg' = arg /\ i'[c] = NextIndex(c)
            /\ pc'[c] = IF LastRound(c) THEN "finalize" ELSE "init"
        BY <1>10, <2>2 DEF __migrate_device_pages, RemoteTypes
      <3>3. Held(c)' = Held(c)
        BY <3>2 DEF Held, RemoteTypes, MigrateCleared
      <3>4. \A p \in Page : p <= i[c] => p \notin dst[c] /\ src'[c][p] # "migrate"
        <4>1. \A p \in Page : p < i[c] => p \notin dst[c] /\ src[c][p] # "migrate"
          BY <1>10 DEF __migrate_device_pages, LocalOK, Fetching
        <4>2. src[c] \in [Page -> {"none", "page", "migrate"}]
          BY DEF RemoteTypes
        <4> QED BY <2>2, <3>2, <4>1, <4>2, ArgEnds DEF MigrateCleared
      <3>5. CASE LastRound(c)
        <4>1. \A p \in Page : p \notin dst[c] /\ src'[c][p] # "migrate"
          BY <1>10, <3>2, <3>3, <3>4, <3>5, ArgEnds
             DEF __migrate_device_pages, LocalOK, Fetching, LastRound, Held, Page
        <4>2. dst[c] = {}
          BY <4>1 DEF RemoteTypes
        <4> QED BY <1>1, <1>10, <3>1, <3>2, <3>3, <3>5, <4>1, <4>2
                DEF __migrate_device_pages, LocalOK, Fetching, NextIndex
      <3>6. CASE ~LastRound(c)
        <4>1. pc'[c] = "init" /\ i'[c] = i[c] + 1
          BY <3>2, <3>6 DEF NextIndex
        <4>2. /\ Held(c) \subseteq arg[c].lo .. arg[c].hi /\ Held(c) \subseteq used
              /\ dst[c] \subseteq Held(c) /\ i[c] \in arg[c].lo .. arg[c].hi
          BY <1>10 DEF __migrate_device_pages, LocalOK, Fetching
        <4>3. i'[c] \in arg[c].lo .. arg[c].hi /\ \A p \in Page : p < i'[c] => p <= i[c]
          BY <3>6, <4>1, <4>2, ArgEnds DEF LastRound
        <4>4. LocalOK(c)'
          BY <3>1, <3>2, <3>3, <3>4, <4>1, <4>2, <4>3 DEF LocalOK, Fetching
        <4> QED BY <1>1, <3>1, <4>4
      <3> QED BY <3>5, <3>6
    <2> QED BY <2>1, <2>2
  <1>11. ASSUME NEW c \in Caller, migrate_device_finalize(c)  PROVE \A d \in Caller : LocalOK(d)'
    <2>1. used' = used /\ \A d \in Caller \ {c} : Untouched(d)
      BY <1>11 DEF migrate_device_finalize, RemoteTypes, Untouched, Return, Leave
    <2>2. Held(c)' = {}
      BY <1>11 DEF migrate_device_finalize, RemoteTypes, Held
    <2>3. LocalOK(c)'
      BY <1>11, <2>2 DEF migrate_device_finalize, RemoteTypes, LocalOK, Return, Leave, NoArg, Fetching
    <2> QED BY <1>1, <2>1, <2>3
  <1>12. ASSUME UNCHANGED <<used, pc, argVars, i>>  PROVE \A d \in Caller : LocalOK(d)'
    BY <1>12, LocalFrame DEF argVars, Untouched
  <1>13. CASE \/ nmsg_start_server \/ ServerSetup \/ ServerStep \/ ServerRecvFails
              \/ nmsg_stop_server \/ memory_destroy
    BY <1>12, <1>13 DEF nmsg_start_server, ServerSetup, ServerStep, ServerRecvFails, nmsg_stop_server,
                        memory_destroy, pageVars
  <1>14. CASE UNCHANGED vars
    BY <1>12, <1>14 DEF vars, pageVars
  <1> QED
    BY <1>2, <1>3, <1>4, <1>5, <1>6, <1>7, <1>9, <1>10, <1>11, <1>13, <1>14 DEF Next, CallStep

-----------------------------------------------------------------------------
\* The references to p when caller c alone starts or stops to name it.
RefStep(c, p) ==
    IF p \in Held(c) THEN IF p \in Held(c)' THEN ref[p] ELSE ref[p] - 1
                     ELSE IF p \in Held(c)' THEN ref[p] + 1 ELSE ref[p]

\* The number of callers that name a page follows RefStep.
LEMMA HolderCount ==
    ASSUME NEW c \in Caller, NEW p \in Page,
           \A d \in Caller \ {c} : Held(d)' = Held(d),
           ref[p] = Cardinality({d \in Caller : p \in Held(d)}),
           ref'[p] = RefStep(c, p)
    PROVE  ref'[p] = Cardinality({d \in Caller : p \in Held(d)'})
  <1> DEFINE H == {d \in Caller : p \in Held(d)}
             G == {d \in Caller : p \in Held(d)'}
  <1>1. IsFiniteSet(H)
    BY RemoteAssumption, FS_Subset
  <1>2. /\ Cardinality(H \cup {c}) = IF c \in H THEN Cardinality(H) ELSE Cardinality(H) + 1
        /\ Cardinality(H \ {c}) = IF c \in H THEN Cardinality(H) - 1 ELSE Cardinality(H)
    BY <1>1, FS_AddElement, FS_RemoveElement
  <1>3. (c \in H <=> p \in Held(c)) /\ (c \in G <=> p \in Held(c)')
    OBVIOUS
  <1>4. CASE c \in G
    <2>1. G = H \cup {c}
      BY <1>4
    <2> QED BY <1>2, <1>3, <1>4, <2>1 DEF RefStep
  <1>5. CASE c \notin G
    <2>1. G = H \ {c}
      BY <1>5
    <2> QED BY <1>2, <1>3, <1>5, <2>1 DEF RefStep
  <1> QED BY <1>4, <1>5

\* What a step of caller c must do to page p to keep the balance.
BalancedStep(c, p) ==
    /\ ref'[p] = RefStep(c, p)
    /\ lock'[p] = lock[p] \/ (lock[p] \in {c, NoCaller} /\ lock'[p] \in {c, NoCaller})
    /\ lock'[p] = c <=> p \in Held(c)' /\ pc'[c] # "lock"
    /\ p \in used \ mapped' => lock'[p] # NoCaller

LEMMA BalanceLocal ==
    ASSUME PagesBalanced, NEW c \in Caller, used' = used,
           \A d \in Caller \ {c} : Untouched(d),
           \A p \in Page : BalancedStep(c, p)
    PROVE  PagesBalanced'
  <1>1. \A d \in Caller \ {c} : Held(d)' = Held(d)
    BY DEF Held, Untouched
  <1> SUFFICES ASSUME NEW p \in Page
               PROVE  /\ ref'[p] = Cardinality({d \in Caller : p \in Held(d)'})
                      /\ \A d \in Caller : lock'[p] = d <=> p \in Held(d)' /\ pc'[d] # "lock"
                      /\ p \in used \ mapped' => lock'[p] # NoCaller
    BY DEF PagesBalanced, At
  <1>2. ref'[p] = Cardinality({d \in Caller : p \in Held(d)'})
    BY <1>1, HolderCount DEF BalancedStep, PagesBalanced
  <1>3. ASSUME NEW d \in Caller  PROVE lock'[p] = d <=> p \in Held(d)' /\ pc'[d] # "lock"
    <2>1. CASE d = c
      BY <2>1 DEF BalancedStep
    <2>2. CASE d # c
      <3>1. lock[p] = d <=> p \in Held(d)' /\ pc'[d] # "lock"
        <4>1. lock[p] = d <=> p \in Held(d) /\ pc[d] # "lock"
          BY DEF PagesBalanced, At
        <4>2. Held(d)' = Held(d) /\ pc'[d] = pc[d]
          BY <1>1, <2>2 DEF Untouched
        <4> QED BY <4>1, <4>2
      <3> QED BY <2>2, <3>1, RemoteAssumption DEF BalancedStep
    <2> QED BY <2>1, <2>2
  <1> QED BY <1>2, <1>3 DEF BalancedStep

LEMMA BalanceStep ==
    ASSUME RemoteTypes, \A c \in Caller : LocalOK(c), PagesBalanced, [Next]_vars
    PROVE  PagesBalanced'
  <1> USE DEF At, Goto
  <1>1. ASSUME NEW c \in Caller, NEW p \in Page
        PROVE  /\ lock[p] = c <=> p \in Held(c) /\ pc[c] # "lock"
               /\ p \in used \ mapped => lock[p] # NoCaller
               /\ ref[p] \in Int
    BY DEF PagesBalanced, RemoteTypes
  <1>2. ASSUME NEW c \in Caller, used' = used, \A d \in Caller \ {c} : Untouched(d),
               Held(c)' = Held(c), pc[c] # "lock" \/ Held(c) = {}, pc'[c] # "lock",
               UNCHANGED <<lock, ref, mapped>>
        PROVE  PagesBalanced'
    <2>1. \A p \in Page : BalancedStep(c, p)
      BY <1>1, <1>2 DEF BalancedStep, RefStep
    <2> QED BY <1>2, <2>1, BalanceLocal
  <1>3. ASSUME NEW c \in Caller, NEW p \in Page, Coherent(c, p)  PROVE PagesBalanced'
    <2>1. used' = used /\ \A d \in Caller \ {c} : Untouched(d)
      BY <1>3 DEF Coherent, RemoteTypes, pageVars, Untouched
    <2>2. Held(c)' = {p} /\ Held(c) = {}
      BY <1>3 DEF Coherent, RemoteTypes, LocalOK, Held
    <2>3. ref' = [ref EXCEPT ![p] = @ + 1] /\ lock' = lock /\ mapped' = mapped /\ pc'[c] = "lock" /\ pc[c] = "idle"
      BY <1>3 DEF Coherent, RemoteTypes
    <2>4. ASSUME NEW q \in Page  PROVE BalancedStep(c, q)
      <3>1. ref'[q] = RefStep(c, q)
        BY <2>2, <2>3 DEF RefStep, RemoteTypes
      <3> QED BY <1>1, <2>2, <2>3, <3>1 DEF BalancedStep
    <2> QED BY <2>1, <2>4, BalanceLocal
  <1>4. ASSUME NEW c \in Caller, migrate_device_range(c)  PROVE PagesBalanced'
    <2>1. used' = used /\ \A d \in Caller \ {c} : Untouched(d)
      BY <1>4 DEF migrate_device_range, RemoteTypes, pageVars, Untouched
    <2>2. mapped' = mapped /\ pc'[c] \in {"range", "unmap"} /\ pc[c] = "range" /\ i[c] \in Page
      BY <1>4 DEF migrate_device_range, RemoteTypes
    <2>3. CASE UNCHANGED <<ref, lock, src>>
      <3>1. Held(c)' = Held(c)
        BY <2>3 DEF Held
      <3> QED BY <1>2, <2>1, <2>2, <2>3, <3>1
    <2>4. CASE /\ i[c] \in used /\ lock[i[c]] = NoCaller
               /\ lock' = [lock EXCEPT ![i[c]] = c]
               /\ ref' = [ref EXCEPT ![i[c]] = @ + 1]
               /\ src' = [src EXCEPT ![c][i[c]] = "migrate"]
      <3>1. Held(c)' = Held(c) \cup {i[c]}
        BY <2>2, <2>4 DEF Held, RemoteTypes
      <3>2. i[c] \notin Held(c)
        BY <1>1, <2>2, <2>4, RemoteAssumption
      <3>3. ASSUME NEW q \in Page  PROVE BalancedStep(c, q)
        <4>1. CASE q = i[c]
          <5>1. ref'[q] = ref[q] + 1 /\ lock'[q] = c
            BY <2>2, <2>4, <4>1 DEF RemoteTypes
          <5> QED BY <2>2, <2>4, <3>1, <3>2, <4>1, <5>1, RemoteAssumption DEF BalancedStep, RefStep
        <4>2. CASE q # i[c]
          <5>1. ref'[q] = ref[q] /\ lock'[q] = lock[q]
            BY <2>2, <2>4, <4>2 DEF RemoteTypes
          <5> QED BY <1>1, <2>2, <3>1, <4>2, <5>1 DEF BalancedStep, RefStep
        <4> QED BY <4>1, <4>2
      <3> QED BY <2>1, <3>3, BalanceLocal
    <2> QED BY <1>4, <2>3, <2>4 DEF migrate_device_range, LockedPage
  <1>5. ASSUME NEW c \in Caller, LockPage(c)  PROVE PagesBalanced'
    <2>1. used' = used /\ \A d \in Caller \ {c} : Untouched(d)
      BY <1>5 DEF LockPage, RemoteTypes, pageVars, Untouched
    <2>2. /\ mapped' = mapped /\ ref' = ref /\ pc'[c] = "unmap" /\ pc[c] = "lock" /\ i[c] \in Page
          /\ lock' = [lock EXCEPT ![i[c]] = c] /\ lock[i[c]] = NoCaller
      BY <1>5 DEF LockPage, RemoteTypes
    <2>3. Held(c)' = Held(c) /\ Held(c) = {i[c]}
      BY <1>5 DEF LockPage, RemoteTypes, LocalOK, Held
    <2>4. ASSUME NEW q \in Page  PROVE BalancedStep(c, q)
      <3>1. lock'[q] = IF q = i[c] THEN c ELSE lock[q]
        BY <2>2 DEF RemoteTypes
      <3> QED BY <1>1, <2>2, <2>3, <3>1, RemoteAssumption DEF BalancedStep, RefStep
    <2> QED BY <2>1, <2>4, BalanceLocal
  <1>6. ASSUME NEW c \in Caller, NEW M \in SUBSET Held(c), used' = used, \A d \in Caller \ {c} : Untouched(d),
               pc[c] # "lock", pc'[c] # "lock", Held(c)' = Held(c) \ M,
               lock' = [p \in Page |-> IF p \in M THEN NoCaller ELSE lock[p]],
               ref' = [p \in Page |-> IF p \in M THEN ref[p] - 1 ELSE ref[p]],
               \A p \in Page : p \in used \ mapped' => p \notin M /\ (p \in used \ mapped \/ p \in Held(c))
        PROVE  PagesBalanced'
    <2>1. ASSUME NEW q \in Page  PROVE BalancedStep(c, q)
      <3>1. lock'[q] = (IF q \in M THEN NoCaller ELSE lock[q]) /\ ref'[q] = (IF q \in M THEN ref[q] - 1 ELSE ref[q])
        BY <1>6
      <3> QED BY <1>1, <1>6, <3>1, RemoteAssumption DEF BalancedStep, RefStep
    <2> QED BY <1>6, <2>1, BalanceLocal
  <1>7. ASSUME NEW c \in Caller, migrate_device_unmap(c)  PROVE PagesBalanced'
    <2>1. used' = used /\ \A d \in Caller \ {c} : Untouched(d)
      BY <1>7 DEF migrate_device_unmap, RemoteTypes, Untouched, Return, Leave
    <2>2. pc[c] # "lock" /\ pc'[c] # "lock"
      BY <1>7 DEF migrate_device_unmap, RemoteTypes, Return, Leave
    <2>3. PICK pinned \in SUBSET Held(c) :
              /\ mapped' = (mapped \ Held(c)) \cup pinned
              /\ lock' = [p \in Page |-> IF p \in pinned THEN NoCaller ELSE lock[p]]
              /\ ref' = [p \in Page |-> IF p \in pinned THEN ref[p] - 1 ELSE ref[p]]
              /\ src' = [src EXCEPT ![c] = [p \in Page |-> IF p \in pinned THEN "none" ELSE @[p]]]
      BY <1>7 DEF migrate_device_unmap
    <2>4. Held(c)' = Held(c) \ pinned
      BY <2>3 DEF RemoteTypes, Held
    <2> QED BY <1>6, <2>1, <2>2, <2>3, <2>4
  <1>8. ASSUME NEW c \in Caller, migrate_device_finalize(c)  PROVE PagesBalanced'
    <2>1. used' = used /\ \A d \in Caller \ {c} : Untouched(d)
      BY <1>8 DEF migrate_device_finalize, RemoteTypes, Untouched, Return, Leave
    <2>2. pc[c] # "lock" /\ pc'[c] # "lock"
      BY <1>8 DEF migrate_device_finalize, RemoteTypes, Return, Leave
    <2>3. Held(c)' = {}
      BY <1>8 DEF migrate_device_finalize, RemoteTypes, Held
    <2> QED BY <1>6, <1>8, <2>1, <2>2, <2>3 DEF migrate_device_finalize, PutBack
  <1>9. ASSUME NEW c \in Caller, Evict(c)  PROVE PagesBalanced'
    <2>1. /\ used' = used /\ \A d \in Caller \ {c} : Untouched(d)
          /\ Held(c)' = Held(c) /\ pc[c] # "lock" /\ pc'[c] # "lock"
          /\ UNCHANGED <<lock, ref, mapped>>
      BY <1>9 DEF Evict, RemoteTypes, pageVars, Untouched, Held
    <2> QED BY <1>2, <2>1
  <1>10. ASSUME NEW c \in Caller, AllocDst(c)  PROVE PagesBalanced'
    <2>1. /\ used' = used /\ \A d \in Caller \ {c} : Untouched(d)
          /\ Held(c)' = Held(c) /\ pc[c] # "lock" /\ pc'[c] # "lock"
          /\ UNCHANGED <<lock, ref, mapped>>
      BY <1>10 DEF AllocDst, RemoteTypes, pageVars, Untouched, Held
    <2> QED BY <1>2, <2>1
  <1>11. ASSUME NEW c \in Caller,
               \/ nmsg_init_client(c) \/ nmsg_send_message(c) \/ nmsg_retrieve_pages(c)
               \/ RecvFails(c) \/ nmsg_destroy_client(c)
        PROVE PagesBalanced'
    <2>1. /\ used' = used /\ UNCHANGED <<lock, ref, mapped>> /\ src' = src
          /\ \A d \in Caller \ {c} : Untouched(d)
          /\ pc[c] # "lock" /\ pc'[c] # "lock"
      BY <1>11 DEF nmsg_init_client, nmsg_send_message, nmsg_retrieve_pages, RecvFails, nmsg_destroy_client,
                  Released, SendFailed, RemoteTypes, pageVars, argVars, Untouched, Oops, Leave
    <2>2. Held(c)' = Held(c)
      BY <2>1 DEF Held
    <2> QED BY <1>2, <2>1, <2>2
  <1>12. ASSUME NEW c \in Caller, __migrate_device_pages(c)  PROVE PagesBalanced'
    <2>1. /\ used' = used /\ UNCHANGED <<lock, ref, mapped>>
          /\ \A d \in Caller \ {c} : Untouched(d)
          /\ pc[c] # "lock" /\ pc'[c] # "lock"
      BY <1>12 DEF __migrate_device_pages, RemoteTypes, pageVars, Untouched, Oops, Leave
    <2>2. Held(c)' = Held(c)
      BY <1>12 DEF __migrate_device_pages, RemoteTypes, Held, MigrateCleared
    <2> QED BY <1>2, <2>1, <2>2
  <1>13. ASSUME UNCHANGED <<used, lock, ref, mapped, pc, src>>  PROVE PagesBalanced'
    BY <1>13 DEF PagesBalanced, Held
  <1>14. CASE \/ nmsg_start_server \/ ServerSetup \/ ServerStep \/ ServerRecvFails
              \/ nmsg_stop_server \/ memory_destroy
    BY <1>13, <1>14 DEF nmsg_start_server, ServerSetup, ServerStep, ServerRecvFails, nmsg_stop_server,
                        memory_destroy, pageVars, argVars
  <1>15. CASE UNCHANGED vars
    BY <1>13, <1>15 DEF vars, pageVars, argVars
  <1> QED
    BY <1>3, <1>4, <1>5, <1>7, <1>8, <1>9, <1>10, <1>11, <1>12, <1>14, <1>15 DEF Next, CallStep

-----------------------------------------------------------------------------
\* Steps of callers and of the server keep the types.
LEMMA RemoteTypesStep ==
    ASSUME RemoteTypes, \A c \in Caller : LocalOK(c), [Next]_vars
    PROVE  RemoteTypes'
  <1> USE RemoteAssumption DEF At, Goto
  <1> DEFINE PageTypes == /\ used' \subseteq Page /\ mapped' \subseteq used'
                          /\ lock' \in [Page -> Caller \cup {NoCaller}]
                          /\ ref' \in [Page -> Int]
             CallTypes == /\ pc' \in [Caller -> {"idle", "range", "lock", "unmap", "alloc", "init", "send",
                                     "retrieve", "recv", "destroy", "use", "finalize", "oops"}]
                          /\ arg' \in [Caller -> {NoArg, Evicts} \cup {Migrates(p) : p \in Page}]
                          /\ i' \in [Caller -> Page]
                          /\ src' \in [Caller -> [Page -> {"none", "page", "migrate"}]]
                          /\ dst' \in [Caller -> SUBSET Page]
             SockTypes == sock' \in Sock \cup {NoSock} /\ open' \subseteq Sock /\ overlap' \in BOOLEAN
             ServerTypes == /\ srv' \in {"none", "setup", "recv", "process", "failed", "ended"}
                            /\ queue' \in 0..MaxQueue /\ stopped' \in BOOLEAN
                            /\ mem' \in {"ready", "freed"} /\ page0' \in {"INVALID", "SHARED"}
                            /\ ncalls' \in 0..MaxCalls
  <1>1. (UNCHANGED pageVars => PageTypes) /\ (UNCHANGED <<pc, argVars, i>> => CallTypes)
        /\ (UNCHANGED sockVars => SockTypes) /\ (UNCHANGED <<srvVars, queue, ncalls>> => ServerTypes)
    BY DEF RemoteTypes, pageVars, argVars, sockVars, srvVars
  <1>2. PageTypes /\ CallTypes /\ SockTypes /\ ServerTypes => RemoteTypes'
    BY DEF RemoteTypes
  <1>3. 1 \in Page /\ \A c \in Caller : Held(c) \subseteq used
    BY DEF Page, LocalOK
  <1>4. ASSUME NEW c \in Caller, Oops(c) \/ Return(c)
        PROVE  /\ pc' \in [Caller -> {"idle", "range", "lock", "unmap", "alloc", "init", "send",
                                     "retrieve", "recv", "destroy", "use", "finalize", "oops"}]
               /\ arg' \in [Caller -> {NoArg, Evicts} \cup {Migrates(p) : p \in Page}]
               /\ i' \in [Caller -> Page]
    BY <1>3, <1>4 DEF Oops, Return, Leave, RemoteTypes
  <1> HIDE DEF PageTypes, CallTypes, SockTypes, ServerTypes
  <1>5. ASSUME NEW c \in Caller, Evict(c)  PROVE RemoteTypes'
    <2>1. CallTypes
      BY <1>3, <1>5 DEF Evict, RemoteTypes, CallTypes
    <2>2. ServerTypes
      BY <1>5 DEF Evict, RemoteTypes, ServerTypes, srvVars
    <2> QED BY <1>1, <1>2, <1>5, <2>1, <2>2 DEF Evict
  <1>6. ASSUME NEW c \in Caller, NEW p \in Page, Coherent(c, p)  PROVE RemoteTypes'
    <2>1. CallTypes
      BY <1>6 DEF Coherent, RemoteTypes, CallTypes
    <2>2. ServerTypes
      BY <1>6 DEF Coherent, RemoteTypes, ServerTypes, srvVars
    <2>3. PageTypes
      BY <1>6 DEF Coherent, RemoteTypes, PageTypes
    <2> QED BY <1>1, <1>2, <1>6, <2>1, <2>2, <2>3 DEF Coherent
  <1>7. ASSUME NEW c \in Caller, migrate_device_range(c)  PROVE RemoteTypes'
    <2>1. ~LastRound(c) => i[c] + 1 \in Page
      BY ArgEnds DEF LocalOK, LastRound, Page
    <2>4. src' \in [Caller -> [Page -> {"none", "page", "migrate"}]]
      <3>1. CASE UNCHANGED src
        BY <3>1 DEF RemoteTypes
      <3>2. CASE src' = [src EXCEPT ![c][i[c]] = "migrate"]
        BY <3>2 DEF RemoteTypes
      <3> QED BY <1>7, <3>1, <3>2 DEF migrate_device_range
    <2>5. arg' = arg /\ dst' = dst
      BY <1>7 DEF migrate_device_range
    <2>2. CallTypes
      <3>1. CASE LastRound(c)
        <4>1. i' = i /\ pc' = [pc EXCEPT ![c] = "unmap"]
          BY <1>7, <3>1 DEF migrate_device_range
        <4> QED BY <2>4, <2>5, <4>1 DEF RemoteTypes, CallTypes
      <3>2. CASE ~LastRound(c)
        <4>1. pc' = pc /\ i' = [i EXCEPT ![c] = i[c] + 1]
          BY <1>7, <3>2 DEF migrate_device_range
        <4> QED BY <2>1, <2>4, <2>5, <3>2, <4>1 DEF RemoteTypes, CallTypes
      <3> QED BY <3>1, <3>2
    <2>3. PageTypes
      BY <1>7 DEF migrate_device_range, RemoteTypes, PageTypes, LockedPage
    <2> QED BY <1>1, <1>2, <1>7, <2>2, <2>3 DEF migrate_device_range
  <1>8. ASSUME NEW c \in Caller, LockPage(c)  PROVE RemoteTypes'
    <2>1. CallTypes
      BY <1>8 DEF LockPage, RemoteTypes, CallTypes
    <2>2. PageTypes
      BY <1>8 DEF LockPage, RemoteTypes, PageTypes
    <2> QED BY <1>1, <1>2, <1>8, <2>1, <2>2 DEF LockPage
  <1>9. ASSUME NEW c \in Caller, migrate_device_unmap(c)  PROVE RemoteTypes'
    <2>1. PICK pinned \in SUBSET Held(c) :
              /\ mapped' = (mapped \ Held(c)) \cup pinned
              /\ lock' = [p \in Page |-> IF p \in pinned THEN NoCaller ELSE lock[p]]
              /\ ref' = [p \in Page |-> IF p \in pinned THEN ref[p] - 1 ELSE ref[p]]
              /\ src' = [src EXCEPT ![c] = [p \in Page |-> IF p \in pinned THEN "none" ELSE @[p]]]
              /\ IF arg[c].op = "coherent" /\ pinned # {}
                   THEN Return(c) ELSE Goto(c, "alloc") /\ UNCHANGED <<arg, i>>
      BY <1>9 DEF migrate_device_unmap
    <2>4. src' \in [Caller -> [Page -> {"none", "page", "migrate"}]]
      BY <2>1 DEF RemoteTypes
    <2>5. dst' = dst
      BY <1>9 DEF migrate_device_unmap
    <2>2. CallTypes
      BY <1>4, <2>1, <2>4, <2>5 DEF RemoteTypes, CallTypes
    <2>3. PageTypes
      BY <1>3, <1>9, <2>1 DEF migrate_device_unmap, RemoteTypes, PageTypes
    <2> QED BY <1>1, <1>2, <1>9, <2>2, <2>3 DEF migrate_device_unmap
  <1>10. ASSUME NEW c \in Caller, AllocDst(c)  PROVE RemoteTypes'
    <2>1. CallTypes
      BY <1>10, ArgEnds DEF AllocDst, RemoteTypes, CallTypes, Held
    <2> QED BY <1>1, <1>2, <1>10, <2>1 DEF AllocDst
  <1>11. ASSUME NEW c \in Caller, nmsg_init_client(c)  PROVE RemoteTypes'
    <2>1. CallTypes
      BY <1>11 DEF nmsg_init_client, RemoteTypes, CallTypes, argVars
    <2>2. SockTypes
      <3>1. CASE UNCHANGED sockVars
        BY <1>1, <3>1
      <3>2. CASE /\ Sock \ open # {}
                 /\ sock' = CHOOSE s \in Sock : s \notin open
                 /\ open' = open \cup {sock'}
                 /\ overlap' = (overlap \/ \E d \in Caller \ {c} : Retrieving(d))
        <4>1. sock' \in Sock
          <5>1. \E s \in Sock : s \notin open
            BY <3>2
          <5> QED BY <3>2, <5>1, Zenon
        <4>2. overlap' \in BOOLEAN
          BY <3>2, Zenon
        <4> QED BY <3>2, <4>1, <4>2 DEF RemoteTypes, SockTypes
      <3> QED BY <1>11, <3>1, <3>2 DEF nmsg_init_client
    <2> QED BY <1>1, <1>2, <1>11, <2>1, <2>2 DEF nmsg_init_client
  <1>12. ASSUME NEW c \in Caller,
                \/ nmsg_send_message(c) \/ nmsg_retrieve_pages(c) \/ RecvFails(c) \/ nmsg_destroy_client(c)
         PROVE  RemoteTypes'
    <2>1. CallTypes
      BY <1>4, <1>12 DEF nmsg_send_message, nmsg_retrieve_pages, RecvFails, nmsg_destroy_client, Released,
                         SendFailed, RemoteTypes, CallTypes
    <2>2. SockTypes
      BY <1>12 DEF nmsg_send_message, nmsg_retrieve_pages, RecvFails, nmsg_destroy_client, RemoteTypes,
                   SockTypes, sockVars
    <2>3. ServerTypes
      BY <1>12 DEF nmsg_send_message, nmsg_retrieve_pages, RecvFails, nmsg_destroy_client, RemoteTypes,
                   ServerTypes, srvVars, Sent
    <2>4. UNCHANGED pageVars
      BY <1>12 DEF nmsg_send_message, nmsg_retrieve_pages, RecvFails, nmsg_destroy_client
    <2> QED BY <1>1, <1>2, <2>1, <2>2, <2>3, <2>4
  <1>13. ASSUME NEW c \in Caller, __migrate_device_pages(c)  PROVE RemoteTypes'
    <2>1. NextIndex(c) \in Page
      BY ArgEnds DEF LocalOK, NextIndex, LastRound, Page
    <2>3. ASSUME i[c] \in dst[c]  PROVE CallTypes
      BY <1>4, <1>13, <2>3 DEF __migrate_device_pages, RemoteTypes, CallTypes
    <2>4. ASSUME i[c] \notin dst[c]  PROVE CallTypes
      <3>1. src' \in [Caller -> [Page -> {"none", "page", "migrate"}]]
        <4>1. src' = [src EXCEPT ![c][i[c]] = MigrateCleared(@)]
          BY <1>13, <2>4 DEF __migrate_device_pages
        <4> QED BY <4>1 DEF RemoteTypes, MigrateCleared
      <3>2. arg' = arg /\ dst' = dst
        BY <1>13, <2>4 DEF __migrate_device_pages
      <3>3. pc' = [pc EXCEPT ![c] = IF LastRound(c) THEN "finalize" ELSE "init"] /\ i' = [i EXCEPT ![c] = NextIndex(c)]
        BY <1>13, <2>4 DEF __migrate_device_pages
      <3> QED BY <2>1, <3>1, <3>2, <3>3 DEF RemoteTypes, CallTypes
    <2>2. CallTypes
      BY <2>3, <2>4
    <2> QED BY <1>1, <1>2, <1>13, <2>2 DEF __migrate_device_pages
  <1>14. ASSUME NEW c \in Caller, migrate_device_finalize(c)  PROVE RemoteTypes'
    <2>1. CallTypes
      BY <1>4, <1>14 DEF migrate_device_finalize, RemoteTypes, CallTypes
    <2>2. PageTypes
      BY <1>3, <1>14 DEF migrate_device_finalize, PutBack, RemoteTypes, PageTypes
    <2> QED BY <1>1, <1>2, <1>14, <2>1, <2>2 DEF migrate_device_finalize
  <1>15. CASE \/ nmsg_start_server \/ ServerSetup \/ ServerStep \/ ServerRecvFails
              \/ nmsg_stop_server \/ memory_destroy
    <2>1. ServerTypes
      <3>1. /\ srv' \in {"none", "setup", "recv", "process", "failed", "ended"}
            /\ mem' \in {"ready", "freed"} /\ page0' \in {"INVALID", "SHARED"}
        BY <1>15 DEF nmsg_start_server, ServerSetup, ServerStep, ServerRecvFails, nmsg_stop_server,
                     memory_destroy, RemoteTypes, NextRound
      <3>2. queue' \in 0..MaxQueue /\ ncalls' \in 0..MaxCalls
        BY <1>15 DEF nmsg_start_server, ServerSetup, ServerStep, ServerRecvFails, nmsg_stop_server,
                     memory_destroy, RemoteTypes
      <3>3. stopped' \in BOOLEAN
        BY <1>15, Zenon DEF nmsg_start_server, ServerSetup, ServerStep, ServerRecvFails, nmsg_stop_server,
                     memory_destroy, RemoteTypes
      <3> QED BY <3>1, <3>2, <3>3 DEF ServerTypes
    <2>2. UNCHANGED <<pageVars, pc, argVars, i, sockVars>>
      BY <1>15 DEF nmsg_start_server, ServerSetup, ServerStep, ServerRecvFails, nmsg_stop_server, memory_destroy
    <2> QED BY <1>1, <1>2, <2>1, <2>2
  <1>16. CASE UNCHANGED vars
    BY <1>1, <1>2, <1>16 DEF vars
  <1> QED
    BY <1>5, <1>6, <1>7, <1>8, <1>9, <1>10, <1>11, <1>12, <1>13, <1>14, <1>15, <1>16 DEF Next, CallStep

-----------------------------------------------------------------------------
\* RemoteInv holds at first and every step keeps it.
LEMMA RemoteInvariant == Spec => []RemoteInv
  <1>1. Init => RemoteInv
    <2> SUFFICES ASSUME Init  PROVE RemoteInv
      OBVIOUS
    <2>1. RemoteTypes
      <3>1. 1 \in Page
        BY RemoteAssumption DEF Page
      <3>2. arg \in [Caller -> {NoArg, Evicts} \cup {Migrates(p) : p \in Page}]
        BY DEF Init
      <3>3. overlap \in BOOLEAN /\ stopped \in BOOLEAN
        BY Zenon DEF Init
      <3> QED BY <3>1, <3>2, <3>3, RemoteAssumption DEF Init, RemoteTypes
    <2>2. \A c \in Caller : Held(c) = {}
      BY DEF Init, Held
    <2>3. \A c \in Caller : LocalOK(c)
      BY <2>2 DEF Init, LocalOK, At, Fetching, NoArg
    <2>4. \A p \in Page : {c \in Caller : p \in Held(c)} = {}
      BY <2>2
    <2>5. PagesBalanced
      BY <2>2, <2>4, FS_EmptySet, RemoteAssumption DEF Init, PagesBalanced
    <2> QED BY <2>1, <2>3, <2>5 DEF RemoteInv
  <1>2. RemoteInv /\ [Next]_vars => RemoteInv'
    BY LocalStep, BalanceStep, RemoteTypesStep DEF RemoteInv
  <1> QED BY <1>1, <1>2, PTL DEF Spec

(***************************************************************************)
(* Type correctness: the calls, their loop counters, the socket and the    *)
(* server stay in range, and no page ever has more references than there   *)
(* are callers.                                                            *)
(***************************************************************************)
THEOREM RemoteTypeCorrect == Spec => []TypeOK
  <1>1. RemoteInv => TypeOK
    <2> SUFFICES ASSUME RemoteInv  PROVE TypeOK
      OBVIOUS
    <2>1. ASSUME NEW p \in Page  PROVE ref[p] \in 0..Cardinality(Caller)
      <3>1. {c \in Caller : p \in Held(c)} \in SUBSET Caller
        OBVIOUS
      <3>2. /\ Cardinality({c \in Caller : p \in Held(c)}) \in Nat /\ Cardinality(Caller) \in Nat
            /\ Cardinality({c \in Caller : p \in Held(c)}) <= Cardinality(Caller)
        BY <3>1, FS_Subset, FS_CardinalityType, RemoteAssumption
      <3>3. ref[p] = Cardinality({c \in Caller : p \in Held(c)})
        BY DEF RemoteInv, PagesBalanced
      <3> QED BY <3>2, <3>3
    <2>2. ref \in [Page -> 0..Cardinality(Caller)]
      BY <2>1 DEF RemoteInv, RemoteTypes
    <2> QED BY <2>2 DEF RemoteInv, RemoteTypes, TypeOK
  <1> QED BY <1>1, RemoteInvariant, PTL

(***************************************************************************)
(* Page locks, references and page-table entries stay in balance however   *)
(* migrate_device_range(), migrate_device_unmap() and                      *)
(* migrate_device_finalize() of racing callers interleave.                 *)
(***************************************************************************)
THEOREM PagesStayBalanced == Spec => []PagesBalanced
  <1>1. RemoteInv => PagesBalanced
    BY DEF RemoteInv
  <1> QED BY <1>1, RemoteInvariant, PTL

(***************************************************************************)
(* Unless two calls of retrieve_page() have overlapped, at most the socket *)
(* in nmsg_client.sock is open, and none once the call has returned.       *)
(***************************************************************************)
THEOREM SocketsAreReleased == Spec => []SocketsReleased
  <1>1. Init => SocketsReleased
    BY DEF Init, SocketsReleased
  <1>2. ASSUME RemoteTypes, SocketsReleased, [Next]_vars  PROVE SocketsReleased'
    <2> USE DEF At, Goto
    <2>1. ASSUME UNCHANGED sockVars,
                 open = {} \/ \A c \in Caller : Retrieving(c) => Retrieving(c)'
          PROVE  SocketsReleased'
      BY <1>2, <2>1 DEF SocketsReleased, sockVars
    <2>2. ASSUME NEW c \in Caller, nmsg_init_client(c)  PROVE SocketsReleased'
      <3>1. CASE UNCHANGED sockVars /\ Goto(c, "use")
        <4>1. \A d \in Caller : Retrieving(d) => Retrieving(d)'
          BY <1>2, <2>2, <3>1 DEF nmsg_init_client, Retrieving, RemoteTypes
        <4> QED BY <2>1, <3>1, <4>1
      <3>2. CASE /\ open' = open \cup {sock'}
                 /\ overlap' = (overlap \/ \E d \in Caller \ {c} : Retrieving(d))
                 /\ Goto(c, "send")
        <4>1. ~Retrieving(c) /\ Retrieving(c)'
          BY <1>2, <2>2, <3>2 DEF nmsg_init_client, Retrieving, RemoteTypes
        <4> QED BY <1>2, <3>2, <4>1 DEF SocketsReleased
      <3> QED BY <2>2, <3>1, <3>2 DEF nmsg_init_client
    <2>3. ASSUME NEW c \in Caller,
                 nmsg_send_message(c) \/ nmsg_retrieve_pages(c) \/ RecvFails(c)
          PROVE  SocketsReleased'
      <3>1. UNCHANGED sockVars
        BY <2>3 DEF nmsg_send_message, nmsg_retrieve_pages, RecvFails
      <3>2. sock \notin open \/ \A d \in Caller : Retrieving(d) => Retrieving(d)'
        BY <1>2, <2>3 DEF nmsg_send_message, nmsg_retrieve_pages, RecvFails, Released, SendFailed,
                          Retrieving, RemoteTypes
      <3>3. CASE sock \notin open
        BY <1>2, <3>1, <3>3 DEF SocketsReleased, sockVars
      <3> QED BY <2>1, <3>1, <3>2, <3>3
    <2>4. ASSUME NEW c \in Caller, nmsg_destroy_client(c)  PROVE SocketsReleased'
      <3>1. overlap' = overlap /\ sock' = sock /\ open' = open \ {sock}
        BY <2>4 DEF nmsg_destroy_client, Released
      <3>2. overlap \/ open' = {}
        BY <1>2, <3>1 DEF SocketsReleased
      <3> QED BY <3>1, <3>2 DEF SocketsReleased
    <2>5. ASSUME NEW c \in Caller,
                 \/ Evict(c) \/ (\E p \in Page : Coherent(c, p)) \/ migrate_device_range(c) \/ LockPage(c)
                 \/ migrate_device_unmap(c) \/ AllocDst(c) \/ __migrate_device_pages(c)
                 \/ migrate_device_finalize(c)
          PROVE  SocketsReleased'
      <3>1. UNCHANGED sockVars
        BY <2>5 DEF Evict, Coherent, migrate_device_range, LockPage, migrate_device_unmap, AllocDst,
                    __migrate_device_pages, migrate_device_finalize
      <3>2. ~Retrieving(c)
        BY <2>5 DEF Evict, Coherent, migrate_device_range, LockPage, migrate_device_unmap, AllocDst,
                    __migrate_device_pages, migrate_device_finalize, Retrieving
      <3>3. \A d \in Caller \ {c} : pc'[d] = pc[d]
        BY <1>2, <2>5 DEF Evict, Coherent, migrate_device_range, LockPage, migrate_device_unmap, AllocDst,
                    __migrate_device_pages, migrate_device_finalize, RemoteTypes, Return, Oops, Leave
      <3>4. \A d \in Caller : Retrieving(d) => Retrieving(d)'
        BY <3>2, <3>3 DEF Retrieving
      <3> QED BY <2>1, <3>1, <3>4
    <2>6. CASE UNCHANGED <<pc, sockVars>>
      BY <2>1, <2>6 DEF Retrieving
    <2>7. CASE \/ nmsg_start_server \/ ServerSetup \/ ServerStep \/ ServerRecvFails
               \/ nmsg_stop_server \/ memory_destroy
      BY <2>6, <2>7 DEF nmsg_start_server, ServerSetup, ServerStep, ServerRecvFails, nmsg_stop_server, memory_destroy
    <2>8. CASE UNCHANGED vars
      BY <2>6, <2>8 DEF vars
    <2> QED BY <1>2, <2>2, <2>3, <2>4, <2>5, <2>7, <2>8 DEF Next, CallStep
  <1>3. RemoteInv => RemoteTypes
    BY DEF RemoteInv
  <1> QED BY <1>1, <1>2, <1>3, RemoteInvariant, PTL DEF Spec
=============================================================================
