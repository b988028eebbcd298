------------------------------- MODULE Writer -------------------------------
(***************************************************************************)
(* The admission obligation of GenericStoreWriter (generic.rs:597-744) and *)
(* of the insert helpers of StorageExt and ForceStorageExt (lib.rs).       *)
(*                                                                         *)
(* A writer is created by writer(key, weight), may be judged, forced or    *)
(* given a judge mask, and ends either in finish() (apply_writer,          *)
(* generic.rs:535-594) or by being dropped (generic.rs:717-744).  Once it  *)
(* has been judged, every admission policy must receive exactly one of     *)
(* on_insert and on_drop.  The judgement of each policy is a free choice   *)
(* (a policy may consult rate counters).  Judges (judge.rs, not among the  *)
(* sources) is written from spec.md 4.4-4.5: judge() is true when every    *)
(* policy in the mask judged true; force() clears the mask.                *)
(*                                                                         *)
(* Each writer slot is used by one caller.  Writers share nothing but the  *)
(* policies, which are thread safe, so a helper of lib.rs that runs on one *)
(* writer is one step.  The key, the value and the sequence do not affect  *)
(* the notifications and are left out; exists() is a free choice.         *)
(*                                                                         *)
(* Callers reach the writer through the Store enum of store.rs, which      *)
(* dispatches to a GenericStore (its LRU, LFU and FIFO variants differ     *)
(* only in the eviction policy) or is Store::None, whose writer judges     *)
(* false, ignores set_force, finishes with Ok(false) and has no policies.  *)
(***************************************************************************)
EXTENDS Naturals, Sequences

CONSTANTS
    Writers,    \* writer slots, one writer each
    Policies    \* config.admissions

VARIABLES
    backend, \* the variant of the Store enum the writers come from
    wr,      \* per slot: the GenericStoreWriter, or its final state
    notes    \* per slot and policy: the on_insert / on_drop calls received

vars == <<backend, wr, notes>>

(* Store (store.rs:144-153): a generic store, or None. *)
Backends == {"generic", "none"}

Judgements == [Policies -> BOOLEAN]

Unused == [phase |-> "unused", is_judged |-> FALSE, judges |-> [p \in Policies |-> FALSE],
           mask |-> Policies, is_inserted |-> FALSE, result |-> "none"]

TypeOKWriter ==
    /\ backend \in Backends
    /\ wr \in [Writers -> [phase : {"unused", "open", "done", "skipped"},
                           is_judged : BOOLEAN, judges : Judgements,
                           mask : SUBSET Policies, is_inserted : BOOLEAN,
                           result : {"none", "true", "false"}]]
    /\ notes \in [Writers -> [Policies -> Seq({"on_insert", "on_drop"})]]

(* Store::open (store.rs:229-245): the store is opened from a StoreConfig *)
(* of either kind.                                                         *)
Init ==
    /\ backend \in Backends
    /\ wr = [w \in Writers |-> Unused]
    /\ notes = [w \in Writers |-> [p \in Policies |-> <<>>]]

-----------------------------------------------------------------------------
(* The writer's own operations, as functions of the writer record.         *)

(* GenericStoreWriter::new: not judged, full mask, not inserted. *)
NewWriter == [Unused EXCEPT !.phase = "open"]

(* Judges::judge *)
JudgesJudge(x) == \A p \in x.mask : x.judges[p]

(* judge(): judge_inner runs only on the first call. *)
Judge(x, j) == IF x.is_judged THEN x ELSE [x EXCEPT !.judges = j, !.is_judged = TRUE]

(* force() *)
Force(x) == [x EXCEPT !.mask = {}]

(* Fault variant: apply_writer marks the writer inserted before judging. *)
ApplyWriterEarlyInsert(x, j) ==
    LET y == [Judge(x, j) EXCEPT !.is_inserted = TRUE] IN
    IF JudgesJudge(y) THEN [y EXCEPT !.result = "true"] ELSE [y EXCEPT !.result = "false"]

(* apply_writer: judge(); rejected returns false; admitted sets            *)
(* is_inserted, calls on_insert on every policy and returns true.          *)
ApplyWriter(x, j) ==
    LET y == Judge(x, j) IN
    IF JudgesJudge(y) THEN [y EXCEPT !.is_inserted = TRUE, !.result = "true"]
                      ELSE [y EXCEPT !.result = "false"]

(* The dispatch of StoreWriter (store.rs:176-216).  judge(): a None       *)
(* writer answers false and records nothing; set_force(): nothing for     *)
(* None; finish(): Ok(false) for None, apply_writer otherwise.             *)
StoreJudge(x, j) == IF backend = "none" THEN x ELSE Judge(x, j)
Admits(x) == backend = "generic" /\ JudgesJudge(x)
StoreForce(x) == IF backend = "none" THEN x ELSE Force(x)
StoreFinish(x, j) == IF backend = "none" THEN [x EXCEPT !.result = "false"] ELSE ApplyWriter(x, j)

(* Store::exists (store.rs:265-272): Ok(false) for None. *)
MayExist == backend = "generic"

(* The notifications a policy receives in apply_writer and in Drop:       *)
(* on_insert for an inserted writer, on_drop for a judged, uninserted one. *)
InsertNotes(x) == IF x.is_inserted THEN <<"on_insert">> ELSE <<>>
DropNotes(x) == IF ~ x.is_inserted /\ x.is_judged THEN <<"on_drop">> ELSE <<>>

(* The writer x' ends: its notifications are appended. *)
End(w, x) ==
    /\ wr' = [wr EXCEPT ![w] = [x EXCEPT !.phase = "done"]]
    /\ notes' = [notes EXCEPT ![w] = [p \in Policies |-> @[p] \o DropNotes(x)]]

(* finish(value) == apply_writer, whose writer is dropped on return. *)
Finish(w, x, j) ==
    LET y == StoreFinish(x, j) IN
    /\ wr' = [wr EXCEPT ![w] = [y EXCEPT !.phase = "done"]]
    /\ notes' = [notes EXCEPT ![w] = [p \in Policies |-> @[p] \o InsertNotes(y) \o DropNotes(y)]]

-----------------------------------------------------------------------------
(* A caller holding a writer of its own: any order of the public calls.    *)

Open(w) ==
    /\ wr[w].phase = "unused"
    /\ wr' = [wr EXCEPT ![w] = NewWriter]
    /\ UNCHANGED notes

JudgeCall(w) ==
    /\ wr[w].phase = "open"
    /\ \E j \in Judgements : wr' = [wr EXCEPT ![w] = StoreJudge(@, j)]
    /\ UNCHANGED notes

ForceCall(w) ==
    /\ wr[w].phase = "open"
    /\ wr' = [wr EXCEPT ![w] = StoreForce(@)]
    /\ UNCHANGED notes

(* GenericStoreWriter only: the StoreWriter enum has no set_judge_mask. *)
SetJudgeMask(w) ==
    /\ backend = "generic"
    /\ wr[w].phase = "open"
    /\ \E m \in SUBSET Policies : wr' = [wr EXCEPT ![w].mask = m]
    /\ UNCHANGED notes

FinishCall(w) ==
    /\ wr[w].phase = "open"
    /\ \E j \in Judgements : Finish(w, wr[w], j)

DropCall(w) ==
    /\ wr[w].phase = "open"
    /\ End(w, wr[w])

-----------------------------------------------------------------------------
(* The helpers of lib.rs, each run on a fresh writer.                      *)

(* insert: writer(key, weight).finish(value). *)
Insert(w) ==
    /\ wr[w].phase = "unused"
    /\ \E j \in Judgements : Finish(w, NewWriter, j)

(* insert_if_not_exists, insert_if_not_exists_with(_future): when exists() *)
(* answers true no writer is made; otherwise the insert helper runs.       *)
IfNotExists(w, insert) ==
    \/ /\ MayExist
       /\ wr' = [wr EXCEPT ![w].phase = "skipped", ![w].result = "false"]
       /\ UNCHANGED notes
    \/ insert

(* insert_with and insert_with_future: judge(); rejected returns false     *)
(* (the writer is dropped); then f runs, and an error of f returns false   *)
(* (the writer is dropped); otherwise finish.                              *)
JudgeFetchFinish(w, x) ==
    \E j \in Judgements :
        LET y == StoreJudge(x, j) IN
        IF ~ Admits(y)
        THEN End(w, [y EXCEPT !.result = "false"])
        ELSE \/ End(w, [y EXCEPT !.result = "false"])   \* f failed
             \/ Finish(w, y, j)                           \* f returned a value

InsertWith(w) ==
    /\ wr[w].phase = "unused"
    /\ JudgeFetchFinish(w, NewWriter)

(* insert_force: set_force(), then finish. *)
InsertForce(w) ==
    /\ wr[w].phase = "unused"
    /\ \E j \in Judgements : Finish(w, StoreForce(NewWriter), j)

(* insert_force_with and insert_force_with_future: set_force(), then as    *)
(* insert_with.                                                            *)
InsertForceWith(w) ==
    /\ wr[w].phase = "unused"
    /\ JudgeFetchFinish(w, StoreForce(NewWriter))

Next ==
    /\ UNCHANGED backend
    /\ \E w \in Writers :
        \/ Open(w) \/ JudgeCall(w) \/ ForceCall(w) \/ SetJudgeMask(w)
        \/ FinishCall(w) \/ DropCall(w)
        \/ Insert(w) \/ InsertWith(w) \/ InsertForce(w) \/ InsertForceWith(w)
        \/ /\ wr[w].phase = "unused"
           /\ IfNotExists(w, Insert(w) \/ InsertWith(w))

Spec == Init /\ [][Next]_vars

-----------------------------------------------------------------------------
(* Properties.                                                             *)

(* spec.md 3 and 4.4: after judge() every admission policy receives        *)
(* exactly one of on_insert and on_drop, whatever path the writer takes    *)
(* (rejected in apply_writer, failing fetch in insert_with, forced, or     *)
(* dropped by its owner), and on_insert exactly when finish returned true; *)
(* a writer never judged notifies nobody; nothing is notified while a      *)
(* writer is still open.                                                   *)
NotifyExactlyOnce ==
    \A w \in Writers, p \in Policies :
        CASE wr[w].phase = "done" /\ wr[w].is_judged ->
                notes[w][p] = IF wr[w].result = "true" THEN <<"on_insert">> ELSE <<"on_drop">>
          [] OTHER -> notes[w][p] = <<>>

=============================================================================
