---------------------------- MODULE RatedTicket ----------------------------
(***************************************************************************)
(* RatedTicketReinsertionPolicy::judge (reinsertion/rated_ticket.rs:69-83) *)
(* called by several threads at once.  judge() probes the inner            *)
(* RatedTicket, reads the op_bytes_reinsert counter, loads `last`, and,    *)
(* when the counter moved, stores it in `last` and charges the difference  *)
(* to the ticket with reduce().  The loads and the store are Relaxed       *)
(* atomics: nothing makes the three steps one.                             *)
(*                                                                         *)
(* The RatedTicket itself (foyer-common, not among the sources) is         *)
(* abstracted to what judge() does to it: probe() answers either way and  *)
(* `reduced` adds up the bytes passed to reduce().  The metrics counter is *)
(* bumped by the reclaimer's reinsertion, which the sources leave as a     *)
(* TODO; here the environment bumps it.                                    *)
(***************************************************************************)
EXTENDS Naturals

CONSTANTS
    Threads,       \* the threads calling judge()
    Increments,    \* the amounts one reinsertion adds to op_bytes_reinsert
    MaxBytes       \* a bound on op_bytes_reinsert

VARIABLES
    counter,   \* metrics.op_bytes_reinsert
    last,      \* self.last
    reduced,   \* the bytes charged to self.inner by reduce()
    th         \* per thread: the judge() call in progress and its locals

vars == <<counter, last, reduced, th>>

Idle == [pc |-> "idle", res |-> FALSE, current |-> 0, last |-> 0]

(* RatedTicketReinsertionPolicy::new: last = 0. *)
Init ==
    /\ counter = 0 /\ last = 0 /\ reduced = 0
    /\ th = [t \in Threads |-> Idle]

(* usize::saturating_sub *)
SaturatingSub(a, b) == IF a > b THEN a - b ELSE 0

(* Delta(x): the bytes a call with locals x charges. *)
Delta(x) == SaturatingSub(x.current, x.last)

-----------------------------------------------------------------------------
(* A reinsertion adds its bytes to op_bytes_reinsert. *)
Reinsert ==
    /\ \E d \in Increments : counter + d <= MaxBytes /\ counter' = counter + d
    /\ UNCHANGED <<last, reduced, th>>

(* res = inner.probe(); current = op_bytes_reinsert.get(). *)
Probe(t) ==
    /\ th[t].pc = "idle"
    /\ \E res \in BOOLEAN :
        th' = [th EXCEPT ![t] = [pc |-> "read", res |-> res, current |-> counter, last |-> 0]]
    /\ UNCHANGED <<counter, last, reduced>>

(* last = self.last.load(); when delta = 0 judge() returns res. *)
LoadLast(t) ==
    /\ th[t].pc = "read"
    /\ LET x == [th[t] EXCEPT !.last = last] IN
        th' = [th EXCEPT ![t] = IF Delta(x) > 0 THEN [x EXCEPT !.pc = "store"] ELSE Idle]
    /\ UNCHANGED <<counter, last, reduced>>

(* self.last.store(current) *)
StoreLast(t) ==
    /\ th[t].pc = "store"
    /\ last' = th[t].current
    /\ th' = [th EXCEPT ![t].pc = "reduce"]
    /\ UNCHANGED <<counter, reduced>>

(* Fault variant: only a granted probe is charged, the store happens anyway. *)
ReduceIfGranted(t) ==
    /\ th[t].pc = "reduce"
    /\ reduced' = IF th[t].res THEN reduced + Delta(th[t]) ELSE reduced
    /\ th' = [th EXCEPT ![t] = Idle]
    /\ UNCHANGED <<counter, last>>

(* self.inner.reduce(delta); judge() returns res. *)
Reduce(t) ==
    /\ th[t].pc = "reduce"
    /\ reduced' = reduced + Delta(th[t])
    /\ th' = [th EXCEPT ![t] = Idle]
    /\ UNCHANGED <<counter, last>>

Next ==
    \/ Reinsert
    \/ \E t \in Threads : Probe(t) \/ LoadLast(t) \/ StoreLast(t) \/ Reduce(t)

Spec == Init /\ [][Next]_vars

-----------------------------------------------------------------------------
(* Properties.                                                             *)

Quiescent == \A t \in Threads : th[t].pc = "idle"

(* Every reinserted byte judge() has taken into account is charged: when  *)
(* no judge() is running, the ticket has been reduced by at least `last`,  *)
(* however the calls interleaved and whichever probes were granted.        *)
ReinsertedBytesCharged == Quiescent => reduced >= last

(* spec.md section 5: policies are internally thread safe.  The ticket is  *)
(* never charged for more bytes than were reinserted: two judge() calls    *)
(* that read the same `last` before either stores must not both charge the *)
(* same delta, and a late store must not move `last` back.                 *)
ChargedAtMostOnce == reduced <= counter

=============================================================================
