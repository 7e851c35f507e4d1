---------------------------- MODULE SharedMemory ----------------------------
(***************************************************************************)
(* What the mirror promises: the device and the CPU share one memory.      *)
(*                                                                         *)
(* The memory of the mirrored process is one value per page.  A device     *)
(* command works through its pages in order; each page it reads is the     *)
(* page's value at that moment, each page it writes takes its new value at *)
(* that moment, and a command reports success only after its last page.    *)
(* Page faults, invalidations and migrations do not appear here at all.    *)
(***************************************************************************)
EXTENDS Integers

CONSTANTS Thread, Addr, Value, Zero, Op, NoCmd

VARIABLES
    mem,      \* the contents of the process's pages
    cmd,      \* the command a device thread is running, or NoCmd
    cur,      \* the next page it transfers
    bounce,   \* the data it has transferred
    ret,      \* how its last command ended: "none", "ok" or "error"
    stores    \* how many times the CPU has changed the memory

absVars == <<mem, cmd, cur, bounce, ret, stores>>

Cmd == {c \in [op : Op, lo : Addr, hi : Addr, val : Value] : c.lo <= c.hi}

Init ==
    /\ mem = [a \in Addr |-> Zero]
    /\ cmd = [t \in Thread |-> NoCmd]
    /\ cur = [t \in Thread |-> 1]
    /\ bounce = [t \in Thread |-> [a \in Addr |-> Zero]]
    /\ ret = [t \in Thread |-> "none"]
    /\ stores = 0

Submit(t, c) ==
    /\ cmd[t] = NoCmd
    /\ cmd' = [cmd EXCEPT ![t] = c]
    /\ cur' = [cur EXCEPT ![t] = c.lo]
    /\ bounce' = [bounce EXCEPT ![t] = [a \in Addr |-> IF c.op = "write" THEN c.val ELSE Zero]]
    /\ ret' = [ret EXCEPT ![t] = "none"]
    /\ UNCHANGED <<mem, stores>>

ReadPage(t) ==
    /\ cmd[t] # NoCmd
    /\ cmd[t].op \notin {"write", "snapshot"}
    /\ cur[t] <= cmd[t].hi
    /\ bounce' = [bounce EXCEPT ![t][cur[t]] = mem[cur[t]]]
    /\ cur' = [cur EXCEPT ![t] = @ + 1]
    /\ UNCHANGED <<mem, cmd, ret, stores>>

WritePage(t) ==
    /\ cmd[t] # NoCmd
    /\ cmd[t].op = "write"
    /\ cur[t] <= cmd[t].hi
    /\ mem' = [mem EXCEPT ![cur[t]] = bounce[t][cur[t]]]
    /\ cur' = [cur EXCEPT ![t] = @ + 1]
    /\ UNCHANGED <<cmd, bounce, ret, stores>>

(***************************************************************************)
(* A snapshot tells about pages and transfers none.                        *)
(***************************************************************************)
ReportPages(t) ==
    /\ cmd[t] # NoCmd
    /\ cmd[t].op = "snapshot"
    /\ \E n \in (cur[t] + 1)..(cmd[t].hi + 1) : cur' = [cur EXCEPT ![t] = n]
    /\ UNCHANGED <<mem, cmd, bounce, ret, stores>>

Succeed(t) ==
    /\ cmd[t] # NoCmd
    /\ cmd[t].op \in {"read", "write", "todev", "excl", "snapshot"} => cur[t] > cmd[t].hi
    /\ cmd' = [cmd EXCEPT ![t] = NoCmd]
    /\ ret' = [ret EXCEPT ![t] = "ok"]
    /\ UNCHANGED <<mem, cur, bounce, stores>>

Fail(t) ==
    /\ cmd[t] # NoCmd
    /\ cmd' = [cmd EXCEPT ![t] = NoCmd]
    /\ ret' = [ret EXCEPT ![t] = "error"]
    /\ UNCHANGED <<mem, cur, bounce, stores>>

CpuStore(a, v) ==
    /\ mem' = [mem EXCEPT ![a] = v]
    /\ stores' = stores + 1
    /\ UNCHANGED <<cmd, cur, bounce, ret>>

Next ==
    \/ \E t \in Thread : \/ \E c \in Cmd : Submit(t, c)
                         \/ ReadPage(t) \/ WritePage(t) \/ ReportPages(t) \/ Succeed(t) \/ Fail(t)
    \/ \E a \in Addr, v \in Value : CpuStore(a, v)

Spec == Init /\ [][Next]_absVars
=============================================================================
