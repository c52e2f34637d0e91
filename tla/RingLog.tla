------------------------------ MODULE RingLog ------------------------------
(***************************************************************************)
(* What a ringfile promises: a log of whole records, oldest first, of a    *)
(* bounded total cost.  A record enters at the end, all at once, when a    *)
(* write is acknowledged; a record leaves only at the front, and only to   *)
(* make room for a record that is being written; a write that fails or     *)
(* dies leaves no trace but the records that made room for it.             *)
(*                                                                         *)
(* The exception is the code's: a log that reaches Capacity exactly is     *)
(* forgotten, since its two offsets are then equal, like those of an empty *)
(* one.                                                                    *)
(***************************************************************************)
EXTENDS Integers, Sequences

CONSTANTS
  Records,
  Cost,       \* the cost of each record, a positive number
  Capacity

VARIABLES
  log,       \* the records, oldest first
  used,      \* their total cost
  pending    \* the record being written, as a set of at most one

logvars == <<log, used, pending>>

LogInit == log = << >> /\ used = 0 /\ pending = {}

(* A record that can be taken at all is smaller than the ring. *)
Begin(rec) ==
  /\ pending = {}
  /\ Cost[rec] < Capacity
  /\ pending' = {rec}
  /\ UNCHANGED <<log, used>>

Evict(rec) ==
  /\ pending = {rec}
  /\ used + Cost[rec] > Capacity
  /\ log # << >>
  /\ log' = Tail(log)
  /\ used' = used - Cost[Head(log)]
  /\ UNCHANGED pending

Commit(rec) ==
  /\ pending = {rec}
  /\ used + Cost[rec] <= Capacity
  /\ pending' = {}
  /\ log' = Append(log, rec)
  /\ used' = used + Cost[rec]

(* The record is lost together with all others. *)
CommitExact(rec) ==
  /\ pending = {rec}
  /\ used + Cost[rec] = Capacity
  /\ pending' = {}
  /\ log' = << >>
  /\ used' = 0

(* The same, in the two stores of a commit. *)
Forget ==
  /\ used = Capacity
  /\ log' = << >>
  /\ used' = 0
  /\ UNCHANGED pending

GiveUp ==
  /\ pending # {}
  /\ pending' = {}
  /\ UNCHANGED <<log, used>>

LogNext ==
  \/ \E rec \in Records : Begin(rec) \/ Evict(rec) \/ Commit(rec) \/ CommitExact(rec)
  \/ Forget
  \/ GiveUp

LogSpec == LogInit /\ [][LogNext]_logvars
=============================================================================
