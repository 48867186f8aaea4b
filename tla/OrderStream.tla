---------------------------- MODULE OrderStream -----------------------------
(***************************************************************************)
(* The Redis stream stream:orders and its one consumer group, as the order *)
(* producer (XADD) and the settlement workers use them.  An entry is the   *)
(* order (holdId) it was published for; entries are named by position, and *)
(* positions grow like stream ids.  Nothing ever trims the stream.         *)
(***************************************************************************)
EXTENDS TicketBase, Sequences

CONSTANTS BatchSize,    \* COUNT of XREADGROUP and XAUTOCLAIM (10 in the code)
          FirstDeploy   \* TRUE: the stream and its group do not exist yet

ASSUME BatchAssumption == BatchSize \in Nat \ {0}
ASSUME DeployAssumption == FirstDeploy \in BOOLEAN

VARIABLES stream,   \* the entries, oldest first
          group,    \* does the consumer group exist?
          cursor,   \* the group's last-delivered-id
          pending,  \* the group's pending entries list (PEL)
          idle      \* pending entries not delivered for CLAIM_IDLE_MS

streamVars == <<stream, group, cursor, pending, idle>>

Entry == 1..Len(stream)

StreamTypeOK ==
    /\ stream \in Seq(Call)
    /\ group \in BOOLEAN
    /\ cursor \in 0..Len(stream)
    /\ pending \subseteq 1..cursor
    /\ idle \subseteq pending

StreamInit ==
    /\ stream = <<>>
    /\ group = ~FirstDeploy
    /\ cursor = 0
    /\ pending = {}
    /\ idle = {}

\* (A faulty variant: an existing group is set to the end again, SETID $.)
CreateGroupAnew ==
    /\ group' = TRUE
    /\ cursor' = Len(stream)
    /\ UNCHANGED <<stream, pending, idle>>

\* XGROUP CREATE ... '$' MKSTREAM: the group starts behind the newest entry.
\* BUSYGROUP, the answer when the group exists, is swallowed.
CreateGroup ==
    /\ group' = TRUE
    /\ cursor' = IF group THEN cursor ELSE Len(stream)
    /\ UNCHANGED <<stream, pending, idle>>

XAdd(c) ==
    /\ stream' = Append(stream, c)
    /\ UNCHANGED <<group, cursor, pending, idle>>

\* XAUTOCLAIM ... 30000 0-0 COUNT BatchSize: the oldest idle entries, at most
\* BatchSize of them, are delivered again, to the caller.
Claimable == {e \in idle : Cardinality({f \in idle : f < e}) < BatchSize}

\* (A faulty variant: what is claimed counts as acknowledged.)
XAutoClaimAcks ==
    /\ idle' = idle \ Claimable
    /\ pending' = pending \ Claimable
    /\ UNCHANGED <<stream, group, cursor>>

XAutoClaim ==
    /\ idle' = idle \ Claimable
    /\ UNCHANGED <<stream, group, cursor, pending>>

\* XREADGROUP ... '>': the next undelivered entries, at most BatchSize of them,
\* enter the PEL; the BLOCK of an empty read ends with no entry at all.
NewCursor == IF cursor + BatchSize < Len(stream)
             THEN cursor + BatchSize
             ELSE Len(stream)
Readable  == (cursor + 1)..NewCursor

\* (A faulty variant: the NOACK option.)
XReadGroupNoAck ==
    /\ cursor' = NewCursor
    /\ UNCHANGED <<stream, group, pending, idle>>

XReadGroup ==
    /\ cursor' = NewCursor
    /\ pending' = pending \cup Readable
    /\ UNCHANGED <<stream, group, idle>>

\* (A faulty variant: the acknowledged entry can still be claimed.)
XAckKeepsIdle(e) ==
    /\ pending' = pending \ {e}
    /\ UNCHANGED <<stream, group, cursor, idle>>

\* XACK: a second acknowledgement of an entry finds nothing to remove.
XAck(e) ==
    /\ pending' = pending \ {e}
    /\ idle' = idle \ {e}
    /\ UNCHANGED <<stream, group, cursor>>

\* CLAIM_IDLE_MS pass without a delivery of pending entry e.  Redis does not
\* know whether its consumer is dead or only slow.
PassIdleTime(e) ==
    /\ e \in pending \ idle
    /\ idle' = idle \cup {e}
    /\ UNCHANGED <<stream, group, cursor, pending>>
=============================================================================
