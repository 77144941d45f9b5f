--------------------------------- MODULE ShmQ ---------------------------------
(***************************************************************************)
(* The ShmQ kernel module (src/kernel_modules/shmq/shmq.c): a kfifo of     *)
(* FifoSize bytes between shm_queue_send_msg, called from the packet       *)
(* capture hook, and the work item send_msg_from_queue, which moves one    *)
(* struct shmq_msg of MsgSize bytes at a time to the System V queue.  The  *)
(* kfifo holds bytes: each is tagged <<m, i>>, byte i of message m, so a   *)
(* message the worker forwards is whole exactly when its bytes are         *)
(* <<m, 1>> .. <<m, MsgSize>>.  The contents of a byte are not modelled.   *)
(* Its caller is the packet_capture module (src/kernel_modules/          *)
(* packet_capture/packet_capture.c), whose custom_hook the network stack *)
(* calls for each received packet once init_func registered it.  One      *)
(* producer calls shm_queue_send_msg at a time.                           *)
(***************************************************************************)
EXTENDS Naturals, Sequences

CONSTANTS
    FifoSize,   \* the kfifo_alloc size, 2048 (a power of two)
    MsgSize,    \* sizeof(struct shmq_msg), 136 on x86-64
    NumMsgs     \* how many packets the hook captures

ASSUME FifoSize \in Nat \ {0} /\ MsgSize \in Nat \ {0} /\ NumMsgs \in Nat

VARIABLES
    fifo,       \* s_ring_buffer, oldest byte first
    cancel,     \* cancel_work
    wpc,        \* the worker: "loop" (top of while), "slept", "exit"
    cpc,        \* cleanup_func: "loaded", "sync" (waiting for the work), "freed"
    sent,       \* packets the hook has passed to shm_queue_send_msg
    out,        \* ghost: what msgsnd was given, one byte sequence per call
    hook,       \* packet_capture: "none", "registered", "removed"
    capDev,     \* packet_capture's s_capture_netif was found (not NULL)
    inflight    \* custom_hook calls past the device check, not yet sent

vars == <<fifo, cancel, wpc, cpc, sent, out, hook, capDev, inflight>>
pcVars == <<hook, capDev, inflight>>

\* The devices a packet arrives on: s_netif_param's, and any other.
Devices == {"capture", "other"}

\* The bytes of message m, as written by a kfifo_in that copies n of them.
Bytes(m, n) == [i \in 1 .. n |-> <<m, i>>]

(***************************************************************************)
(* init_func: resolve_syscalls looks up sys_msgget, sys_msgctl and         *)
(* sys_msgsnd, then msgget, then kfifo_alloc; any failing returns -1 and   *)
(* the module is not loaded ("failed").  A NULL create_singlethread_       *)
(* workqueue is only logged, and queue_work(NULL, ...) then dereferences   *)
(* it ("oops").  Otherwise: an empty kfifo and the work queued.            *)
(***************************************************************************)
InitOutcomes == {"loaded", "failed", "oops"}

Init ==
    /\ cpc \in InitOutcomes
    /\ wpc = IF cpc = "loaded" THEN "loop" ELSE "none"
    /\ fifo = <<>> /\ cancel = FALSE
    /\ sent = 0 /\ out = <<>>
    /\ hook = "none" /\ capDev = FALSE /\ inflight = 0

(***************************************************************************)
(* packet_capture's init_func, once shmq is loaded (it links against       *)
(* shm_queue_send_msg): dev_get_by_name may find the interface or return  *)
(* NULL, and the hook is registered either way.                            *)
(***************************************************************************)
PcInit ==
    /\ cpc = "loaded" /\ hook = "none"
    /\ hook' = "registered" /\ capDev' \in BOOLEAN
    /\ UNCHANGED <<fifo, cancel, wpc, cpc, sent, out, inflight>>

\* custom_hook: a packet from another device than a found s_capture_netif
\* goes back to the stack untouched; any other enters the capture path.
HookEnter ==
    /\ hook = "registered" /\ sent + inflight < NumMsgs
    /\ \E d \in Devices : ~capDev \/ d = "capture"
    /\ inflight' = inflight + 1
    /\ UNCHANGED <<fifo, cancel, wpc, cpc, sent, out, hook, capDev>>

\* packet_capture's cleanup_func: netif_set_custom_hook1(NULL).  Calls
\* already inside custom_hook go on.
PcCleanup ==
    /\ hook = "registered"
    /\ hook' = "removed"
    /\ UNCHANGED <<fifo, cancel, wpc, cpc, sent, out, capDev, inflight>>

(***************************************************************************)
(* shm_queue_send_msg: unless cancelled, kfifo_in copies as much of the   *)
(* MsgSize-byte buffer as the fifo has room for and drops the rest.        *)
(***************************************************************************)
SendMsg ==
    /\ ~cancel /\ inflight > 0
    /\ LET n == IF MsgSize <= FifoSize - Len(fifo) THEN MsgSize ELSE FifoSize - Len(fifo)
       IN  fifo' = fifo \o Bytes(sent + 1, n)
    /\ sent' = sent + 1 /\ inflight' = inflight - 1
    /\ UNCHANGED <<cancel, wpc, cpc, out, hook, capDev>>

\* shm_queue_send_msg after cleanup_func set cancel_work: returns 0.
SendCancelled ==
    /\ cancel /\ inflight > 0
    /\ sent' = sent + 1 /\ inflight' = inflight - 1
    /\ UNCHANGED <<fifo, cancel, wpc, cpc, out, hook, capDev>>

\* send_msg_from_queue, top of while (!cancel_work): leave.
WorkerExit ==
    /\ wpc = "loop" /\ cancel
    /\ wpc' = "exit"
    /\ UNCHANGED <<fifo, cancel, cpc, sent, out>> /\ UNCHANGED pcVars

\* Fewer than MsgSize bytes in the fifo: msleep.
WorkerSleep ==
    /\ wpc \in {"loop", "slept"} /\ ~cancel /\ Len(fifo) < MsgSize
    /\ wpc' = "slept"
    /\ UNCHANGED <<fifo, cancel, cpc, sent, out>> /\ UNCHANGED pcVars

\* After msleep, cancel_work is set: goto exit.
WorkerWake ==
    /\ wpc = "slept" /\ cancel
    /\ wpc' = "exit"
    /\ UNCHANGED <<fifo, cancel, cpc, sent, out>> /\ UNCHANGED pcVars

\* At least MsgSize bytes: kfifo_out takes the first MsgSize and msgsnd
\* sends them as one message.
WorkerTake ==
    /\ wpc \in {"loop", "slept"} /\ ~cancel /\ Len(fifo) >= MsgSize
    /\ out' = Append(out, SubSeq(fifo, 1, MsgSize))
    /\ fifo' = SubSeq(fifo, MsgSize + 1, Len(fifo))
    /\ wpc' = "loop"
    /\ UNCHANGED <<cancel, cpc, sent>> /\ UNCHANGED pcVars

\* cleanup_func: cancel_work = true, then cancel_work_sync waits for the
\* work to return before the fifo is freed.  rmmod refuses while
\* packet_capture, which uses shm_queue_send_msg, is loaded.
CleanupCancel ==
    /\ cpc = "loaded" /\ hook # "registered"
    /\ cancel' = TRUE /\ cpc' = "sync"
    /\ UNCHANGED <<fifo, wpc, sent, out>> /\ UNCHANGED pcVars

CleanupFree ==
    /\ cpc = "sync" /\ wpc = "exit"
    /\ cpc' = "freed"
    /\ UNCHANGED <<fifo, cancel, wpc, sent, out>> /\ UNCHANGED pcVars

Next ==
    \/ SendMsg \/ SendCancelled
    \/ WorkerExit \/ WorkerSleep \/ WorkerWake \/ WorkerTake
    \/ CleanupCancel \/ CleanupFree
    \/ PcInit \/ HookEnter \/ PcCleanup

Spec == Init /\ [][Next]_vars

-----------------------------------------------------------------------------
(***************************************************************************)
(* Framing: every message send_msg_from_queue passes to msgsnd is one      *)
(* whole struct shmq_msg that shm_queue_send_msg put in the fifo ("check  *)
(* if there is at least one msg ... remove that msg").  Breaks when a      *)
(* kfifo_in into a nearly full fifo writes a message's first bytes only:  *)
(* the worker's later MsgSize-byte reads straddle two messages.            *)
(***************************************************************************)
WholeMessages ==
    \A k \in 1 .. Len(out) : \E m \in 1 .. NumMsgs : out[k] = Bytes(m, MsgSize)

=============================================================================
