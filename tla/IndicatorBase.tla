---------------------------- MODULE IndicatorBase ----------------------------
(***************************************************************************)
(* One IndicatorBase element (src/click-2.0.1/elements/standard/           *)
(* indicator_base.cc): its PortSet, the _initialized flag, the operating   *)
(* mode and the VectorCache _cache, with push() as the action Push.  The   *)
(* strategy (initialize_element, process_naive, process_ext,               *)
(* process_opt_ext) is a constant operator supplied by the instantiating   *)
(* module.  emit is what the push sent downstream: NoMsg when it discarded *)
(* the packet.                                                             *)
(***************************************************************************)
EXTENDS Integers, Sequences, Buffers

CONSTANTS
    OP_MODE,                \* the OP_MODE configuration argument: 1 is naive
    InitializeElement(_),   \* PortSet -> FixedPt
    ProcessNaive(_),        \* PortSet -> FixedPt
    ProcessExt(_),          \* PortSet -> cache
    ProcessOptExt(_, _),    \* increments, cache -> cache
    Primary(_),             \* cache -> FixedPt, cache[0]._value
    EmptyCache              \* _cache before the first process_ext

VARIABLES
    ps,             \* *_buffers
    initialized,    \* _initialized
    opMode,         \* _op_mode
    cache,          \* _cache
    emit,           \* the message sent on output 0 by the last push, or NoMsg
    popFailed       \* the assert (rc == SUCCESS) of a pop_front() has failed

nodeVars == <<ps, initialized, opMode, cache, emit, popFailed>>

\* Synapse::PacketAppType of the three value messages.
INIT   == "INIT"
ADD    == "ADD"
UPDATE == "UPDATE"
Kinds  == {INIT, ADD, UPDATE}

NAIVE   == "NAIVE"
STARTUP == "STARTUP"
NORMAL  == "NORMAL"

NoMsg == [kind |-> "NONE"]

\* send_msg_value(packet, value, timestamp, msg_type)
Send(fp, t, k) == [kind |-> k, ts |-> t, val |-> fp.val, valid |-> fp.valid]

\* configure(): a fresh Buffers, mode NAIVE for OP_MODE 1 and STARTUP otherwise.
Init ==
    /\ ps          = NewPortSet
    /\ initialized = FALSE
    /\ opMode      = IF OP_MODE = 1 THEN NAIVE ELSE STARTUP
    /\ cache       = EmptyCache
    /\ emit        = NoMsg
    /\ popFailed   = FALSE

\* NAIVE and STARTUP feed ADD durably and every other kind speculatively.
Feed(v, t, port, k) ==
    IF k = ADD THEN AddNewValueOp(ps, v, t, port)
               ELSE AddNewValueTempOp(ps, v, t, port)

(***************************************************************************)
(* An INIT message, or any message before the first completed round, is  *)
(* added durably.  The round that completes calls initialize_element,     *)
(* sends its value if valid and marks the node initialised.                *)
(***************************************************************************)
PushInit(port, v, t, k) ==
    /\ k = INIT \/ ~initialized
    /\ LET b == AddNewValueOp(ps, v, t, port)
           r == InitializeElement(b)
       IN  /\ ps' = b
           /\ IF IsUpdateComplete(b)
              THEN /\ emit' = IF r.valid THEN Send(r, t, k) ELSE NoMsg
                   /\ initialized' = TRUE
              ELSE /\ emit' = NoMsg
                   /\ UNCHANGED <<initialized, popFailed>>
    /\ UNCHANGED <<opMode, cache, popFailed>>

\* NAIVE: process_naive on every completed round.
PushNaive(port, v, t, k) ==
    /\ k # INIT /\ initialized /\ opMode = NAIVE
    /\ LET b == Feed(v, t, port, k)
       IN  /\ ps' = b
           /\ emit' = IF IsUpdateComplete(b) THEN Send(ProcessNaive(b), t, k) ELSE NoMsg
    /\ UNCHANGED <<initialized, opMode, cache, popFailed>>

(***************************************************************************)
(* STARTUP: process_ext on a completed round; a completed ADD round keeps  *)
(* the cache and switches to NORMAL for good.                             *)
(***************************************************************************)
PushStartup(port, v, t, k) ==
    /\ k # INIT /\ initialized /\ opMode = STARTUP
    /\ LET b == Feed(v, t, port, k)
           c == ProcessExt(b)
           done == IsUpdateComplete(b)
       IN  /\ ps' = b
           /\ emit' = IF done THEN Send(Primary(c), t, k) ELSE NoMsg
           /\ IF done /\ k = ADD
              THEN cache' = c /\ opMode' = NORMAL
              ELSE UNCHANGED <<cache, opMode>>
    /\ UNCHANGED <<initialized, popFailed>>

\* A faulty NORMAL push that keeps the process_opt_ext cache of every kind.
PushNormalKeepEveryCache(port, v, t, k) ==
    /\ k # INIT /\ initialized /\ opMode = NORMAL
    /\ LET b == AddNewValueOp(ps, v, t, port)
           c == ProcessOptExt(Fronts(b), cache)
       IN  IF IsUpdateComplete(b)
           THEN ps' = PopFronts(b) /\ emit' = Send(Primary(c), t, k) /\ cache' = c
                /\ popFailed' = (popFailed \/ PopsEmpty(b))
           ELSE ps' = b /\ emit' = NoMsg /\ UNCHANGED <<cache, popFailed>>
    /\ UNCHANGED <<initialized, opMode>>

(***************************************************************************)
(* NORMAL: every kind is added durably; a completed round pops the front  *)
(* of every port into the increments and calls process_opt_ext on the     *)
(* cache, whose result is kept only for an ADD.                            *)
(***************************************************************************)
PushNormal(port, v, t, k) ==
    /\ k # INIT /\ initialized /\ opMode = NORMAL
    /\ LET b == AddNewValueOp(ps, v, t, port)
           c == ProcessOptExt(Fronts(b), cache)
       IN  IF IsUpdateComplete(b)
           THEN /\ ps' = PopFronts(b)
                /\ emit' = Send(Primary(c), t, k)
                /\ cache' = IF k = ADD THEN c ELSE cache
                /\ popFailed' = (popFailed \/ PopsEmpty(b))
           ELSE /\ ps' = b
                /\ emit' = NoMsg
                /\ UNCHANGED <<cache, popFailed>>
    /\ UNCHANGED <<initialized, opMode>>

\* push(port, p) for a message of an application type the node processes.
Push(port, v, t, k) ==
    \/ PushInit(port, v, t, k)
    \/ PushNaive(port, v, t, k)
    \/ PushStartup(port, v, t, k)
    \/ PushNormal(port, v, t, k)

=============================================================================
