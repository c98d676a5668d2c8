------------------------------- MODULE Dedupe -------------------------------
(***************************************************************************)
(* core/dedupe/dedupe.go: PacketDeduplicator, called by any number of      *)
(* goroutines.  A call of Seen reads the clock before it takes the lock,   *)
(* purges expired records with probability 5% in a lock section of its     *)
(* own, and decides in a second lock section.  Time may pass, and other    *)
(* callers may run, between the three.                                     *)
(*                                                                         *)
(* The key of a record ((sender << 32) | packetID, or a hash of the data)  *)
(* is a member of Packets; SeenData differs from Seen only in the key.     *)
(***************************************************************************)
EXTENDS Integers

CONSTANTS Callers, Packets, ExpiresAfter, MaxTime

ASSUME DedupeAssumption ==
    /\ ExpiresAfter \in Nat
    /\ MaxTime \in Nat

VARIABLES clock,  \* the monotonic clock
          seen,   \* seen[k]: time recorded for k, NoTime if k is not in the map
          pc,     \* pc[c]: where caller c is: "idle", "purge" or "check"
          arg,    \* arg[c]: the key of c's call
          now,    \* now[c]: the time c read before taking the lock
          ret,    \* ret[c]: "none" during a call, then "new" (false) or "dup" (true)
          last    \* history: last[k] is the time of the latest record made of k

dedupeVars == <<clock, seen, pc, arg, now, ret, last>>

NoTime == -1
Time == 0..MaxTime

\* The types of the map of seen packets and of the callers' locals.
DedupeTypeOK ==
    /\ clock \in Time
    /\ seen \in [Packets -> Time \cup {NoTime}]
    /\ pc \in [Callers -> {"idle", "purge", "check"}]
    /\ arg \in [Callers -> Packets]
    /\ now \in [Callers -> Time]
    /\ ret \in [Callers -> {"idle", "none", "new", "dup"}]
    /\ last \in [Packets -> Time \cup {NoTime}]

DedupeInit ==
    /\ clock = 0
    /\ seen = [k \in Packets |-> NoTime]
    /\ pc = [c \in Callers |-> "idle"]
    /\ arg \in [Callers -> Packets]
    /\ now = [c \in Callers |-> 0]
    /\ ret = [c \in Callers |-> "idle"]
    /\ last = [k \in Packets |-> NoTime]

PassTime ==
    /\ clock < MaxTime
    /\ clock' = clock + 1
    /\ UNCHANGED <<seen, pc, arg, now, ret, last>>

\* Seen / SeenData: read the clock, then draw whether to purge.
Seen(c, k) ==
    /\ pc[c] = "idle"
    /\ arg' = [arg EXCEPT ![c] = k]
    /\ now' = [now EXCEPT ![c] = clock]
    /\ ret' = [ret EXCEPT ![c] = "none"]
    /\ \E draw \in {"purge", "check"} : pc' = [pc EXCEPT ![c] = draw]
    /\ UNCHANGED <<clock, seen, last>>

\* timestamp.Before(t) with t = now - expiresAfter.
Expired(stamp, t) == stamp # NoTime /\ stamp < t - ExpiresAfter

DeleteUntil(c) ==
    /\ pc[c] = "purge"
    /\ seen' = [k \in Packets |-> IF Expired(seen[k], now[c]) THEN NoTime ELSE seen[k]]
    /\ pc' = [pc EXCEPT ![c] = "check"]
    /\ UNCHANGED <<clock, arg, now, ret, last>>

\* The second lock section of isSeen, one action per way out.
RecordNew(c) ==
    /\ pc[c] = "check"
    /\ seen[arg[c]] = NoTime
    /\ seen' = [seen EXCEPT ![arg[c]] = now[c]]
    /\ last' = [last EXCEPT ![arg[c]] = now[c]]
    /\ ret' = [ret EXCEPT ![c] = "new"]
    /\ pc' = [pc EXCEPT ![c] = "idle"]
    /\ UNCHANGED <<clock, arg, now>>

\* Mutant: a record is taken as expired one tick early.
ForgetOnBoundary(c) ==
    /\ pc[c] = "check"
    /\ seen[arg[c]] # NoTime
    /\ now[c] - seen[arg[c]] >= ExpiresAfter
    /\ seen' = [seen EXCEPT ![arg[c]] = NoTime]
    /\ ret' = [ret EXCEPT ![c] = "new"]
    /\ pc' = [pc EXCEPT ![c] = "idle"]
    /\ UNCHANGED <<clock, arg, now, last>>

\* An expired record is deleted and "false" returned: the packet is not recorded.
ForgetExpired(c) ==
    /\ pc[c] = "check"
    /\ seen[arg[c]] # NoTime
    /\ now[c] - seen[arg[c]] > ExpiresAfter
    /\ seen' = [seen EXCEPT ![arg[c]] = NoTime]
    /\ ret' = [ret EXCEPT ![c] = "new"]
    /\ pc' = [pc EXCEPT ![c] = "idle"]
    /\ UNCHANGED <<clock, arg, now, last>>

ReportDup(c) ==
    /\ pc[c] = "check"
    /\ seen[arg[c]] # NoTime
    /\ ~(now[c] - seen[arg[c]] > ExpiresAfter)
    /\ ret' = [ret EXCEPT ![c] = "dup"]
    /\ pc' = [pc EXCEPT ![c] = "idle"]
    /\ UNCHANGED <<clock, seen, arg, now, last>>

DedupeNext ==
    \/ PassTime
    \/ \E c \in Callers :
          \/ \E k \in Packets : Seen(c, k)
          \/ DeleteUntil(c)
          \/ RecordNew(c)
          \/ ForgetExpired(c)
          \/ ReportDup(c)

DedupeSpec == DedupeInit /\ [][DedupeNext]_dedupeVars
-----------------------------------------------------------------------------
(***************************************************************************)
(* Properties.                                                             *)
(***************************************************************************)

\* A record is kept for its whole window: neither a purge nor a check by a
\* caller with a stale clock removes or moves it before ExpiresAfter has passed
\* since the time it was made with (isSeen, deleteUntil).
RecordKept ==
    \A k \in Packets :
        last[k] # NoTime /\ clock - last[k] <= ExpiresAfter => seen[k] = last[k]

\* The refinement mapping: a packet's window ends ExpiresAfter its latest record.
Abstract == INSTANCE DedupeWindow WITH
    until <- [k \in Packets |-> IF last[k] = NoTime THEN NoTime ELSE last[k] + ExpiresAfter]

\* What the users of the deduplicator rely on: the code implements the window
\* specification, so a packet recorded as new is reported as a duplicate by
\* every caller until its window is over.
WindowSpec == Abstract!WindowSpec

\* The doc comment of Seen, read literally: a caller that was told "not seen
\* before" finds the packet recorded for the rest of the window of its call.
\* The expired branch of isSeen deletes without recording and refutes it.
NewIsRecorded ==
    \A c \in Callers :
        ret[c] = "new" /\ clock - now[c] <= ExpiresAfter => seen[arg[c]] # NoTime

\* The inductive invariant of the proofs.  A caller's time is never ahead of the
\* clock, a record in the map is the latest one made of its packet, and a call is
\* open exactly while its answer is pending.
CallerClock == \A c \in Callers : now[c] <= clock
SeenIsLast  == \A k \in Packets : seen[k] # NoTime => seen[k] = last[k]
CallOpen    == \A c \in Callers : (ret[c] = "none") <=> (pc[c] # "idle")

IInv == DedupeTypeOK /\ CallerClock /\ SeenIsLast /\ CallOpen /\ RecordKept
=============================================================================
