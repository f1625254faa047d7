----------------------------- MODULE ThreadMerger -----------------------------
(***************************************************************************)
(* The merger of the platform and the raster thread                        *)
(* (fml/raster_thread_merger.cc, fml/shared_thread_merger.cc).             *)
(*                                                                         *)
(* Every shell has a RasterThreadMerger; the shells spawned from one       *)
(* another share the two threads, and with them one SharedThreadMerger.    *)
(* It keeps a lease per shell that used it: while some lease is positive   *)
(* the threads count as merged, and the raster queue is subsumed by the    *)
(* platform queue (see TaskQueues).  Drawing a frame costs a shell one     *)
(* term of its lease.  While enabled_ is false no call changes anything.   *)
(*                                                                         *)
(* A call holds the caller's own mutex, and over its effect the mutex of   *)
(* the shared merger; enabled_ is read and written under the first one     *)
(* only.  So MergeWithLease is in two steps, between which another shell   *)
(* may disable the merger.  The other calls that change anything are made  *)
(* by the platform thread, which disables it, or by the thread that        *)
(* enables it, and are one step.  The two queues are different ones: with  *)
(* one thread in both roles every call returns at once.                    *)
(***************************************************************************)
EXTENDS Integers

CONSTANTS
    Shells,     \* the shells, each the caller of its own merger
    LeaseTerm   \* kDefaultMergedLeaseDuration, 10 in the embedders

ASSUME LeaseAssumption == LeaseTerm \in Nat \ {0}

VARIABLES
    lease,         \* lease_term_by_caller_
    enabled,       \* enabled_
    queuesMerged   \* the platform queue owns the raster queue

mergerVars == <<lease, enabled, queuesMerged>>

NoRecord == -1     \* the shell has no entry in lease_term_by_caller_

\* Every variable of the merger has its type.
MergerTypeOK ==
    /\ lease \in [Shells -> (0..LeaseTerm) \cup {NoRecord}]
    /\ enabled \in BOOLEAN
    /\ queuesMerged \in BOOLEAN

MergerInit ==
    /\ lease = [s \in Shells |-> NoRecord]
    /\ enabled = TRUE
    /\ queuesMerged = FALSE

IsMerged == \E s \in Shells : lease[s] > 0

\* What RasterThreadMerger::MergeWithLease looks at ...
MayMerge_Always == ~IsMerged   \* mutant: enabled_ is not looked at
MayMerge == enabled /\ ~IsMerged

\* ... before it calls SharedThreadMerger::MergeWithLease.
MergeWithLease(s) ==
    /\ UNCHANGED enabled
    /\ IF ~IsMerged
       THEN /\ lease' = [lease EXCEPT ![s] = LeaseTerm]
            /\ queuesMerged' = TRUE
       ELSE UNCHANGED <<lease, queuesMerged>>

\* To be called with the threads merged.
ExtendLeaseTo(s) ==
    /\ lease' = IF enabled THEN [lease EXCEPT ![s] = LeaseTerm] ELSE lease
    /\ UNCHANGED <<enabled, queuesMerged>>

\* The lease of another shell keeps the threads merged, and this one has used
\* up its own: the FML_CHECK of DecrementLease fails and the process ends.
LeaseUnderflow(s) == IsMerged /\ enabled /\ lease[s] = 0

DecrementLease(s) ==
    /\ ~LeaseUnderflow(s)
    /\ UNCHANGED enabled
    /\ IF IsMerged /\ enabled /\ lease[s] # NoRecord
       THEN /\ lease' = [lease EXCEPT ![s] = @ - 1]
            /\ queuesMerged' = \E r \in Shells : lease'[r] > 0
       ELSE UNCHANGED <<lease, queuesMerged>>

\* DecrementLease returned kUnmergedNow.
UnmergedNow == queuesMerged /\ ~queuesMerged'

EraseRecord_First(s) ==   \* mutant: does not wait to be the last one
    /\ lease' = [lease EXCEPT ![s] = NoRecord]
    /\ queuesMerged' = FALSE
EraseRecord(s) ==
    /\ lease' = [lease EXCEPT ![s] = NoRecord]
    /\ queuesMerged' = (queuesMerged /\ \E r \in Shells : lease'[r] # NoRecord)

UnMergeNowIfLastOne(s) ==
    /\ UNCHANGED enabled
    /\ IF enabled THEN EraseRecord(s) ELSE UNCHANGED <<lease, queuesMerged>>

SetEnabled(value) ==
    /\ enabled' = value
    /\ UNCHANGED <<lease, queuesMerged>>

-----------------------------------------------------------------------------
(***************************************************************************)
(* The merger in the hands of any callers that keep to its contract; what  *)
(* MergeWithLease has looked at may have changed by then.                  *)
(***************************************************************************)
MergerNext ==
    \/ \E s \in Shells :
          \/ MergeWithLease(s)
          \/ IsMerged /\ ExtendLeaseTo(s)
          \/ DecrementLease(s) \/ UnMergeNowIfLastOne(s)
    \/ \E value \in BOOLEAN : SetEnabled(value)

MergerSpec == MergerInit /\ [][MergerNext]_mergerVars

\* What IsMerged says and what the task queues do are kept in two places.
\* When a shell holds a lease the raster tasks are the platform thread's; and
\* the queues are only left merged as long as some shell has a record of it.
\* (The converse fails: UnMergeNowIfLastOne may leave the queues merged behind
\* another shell's lease of zero, while IsMerged is false.)
MergedTogether ==
    /\ IsMerged => queuesMerged
    /\ queuesMerged => \E s \in Shells : lease[s] # NoRecord
=============================================================================
