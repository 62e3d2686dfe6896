------------------------------- MODULE Retention -------------------------------
(* Which entries of a workspace's checkpoint history fixed retention lets     *)
(* go (environment/checkpoints.go): the newest entries, the newest of each of *)
(* the last days and the base stay, within a byte budget that drops whole     *)
(* archives, and a kept restore keeps the entry it restored.                  *)
EXTENDS Integers, Sequences, FiniteSets, FiniteSetsExt

CONSTANTS
  RetainRecent,   (* RetainRecentCheckpoints                                  *)
  RetainDaily,    (* RetainDailyCheckpoints                                   *)
  RetainBytes,    (* RetainCheckpointBytes                                    *)
  RetainCopies,   (* RetainCheckpointCopies                                   *)
  SizeOf          (* the size of each archive, by its reference               *)

ASSUME RetentionAssumption ==
  /\ RetainRecent \in Nat \ {0} /\ RetainDaily \in Nat
  /\ RetainBytes \in Nat /\ RetainCopies \in Nat \ {0}

-----------------------------------------------------------------------------
(* A history is a set of rows, each with its seq, ref, kind, from (the seq a  *)
(* restore restored, 0 otherwise) and day. The highest seq is the current one.*)
Current(history) == CHOOSE e \in history : \A f \in history : f.seq <= e.seq

Recent(history) ==
  {e \in history : Cardinality({f \in history : f.seq > e.seq}) < RetainRecent}

Base(history) == {e \in history : e.kind = "base"}

NewestOfDay(history, today) ==
  {e \in history : /\ e.day \in (today - RetainDaily + 1)..today
                   /\ \A f \in history : f.day = e.day => f.seq <= e.seq}

Budget(history) == Max({RetainBytes, RetainCopies * SizeOf[Current(history).ref]})

Archives(entries) == {e.ref : e \in entries}

LastUsed(keep, ref) == Max({e.seq : e \in {f \in keep : f.ref = ref}})

(* The archives that neither the current entry nor the base uses.             *)
Unprotected(history, keep) ==
  Archives(keep) \ ({Current(history).ref} \union Archives(Base(history)))

Bytes(refs) == MapThenSumSet(LAMBDA a : SizeOf[a], refs)

(* applyByteBudget drops the unprotected archives, least recently used first, *)
(* while those still kept exceed the budget, with every entry that uses them. *)
Dropped(history, keep) ==
  LET Older(ref) == {a \in Unprotected(history, keep) : LastUsed(keep, a) < LastUsed(keep, ref)}
  IN  {ref \in Unprotected(history, keep) : Bytes(Archives(keep) \ Older(ref)) > Budget(history)}

applyByteBudget(history, keep) == {e \in keep : e.ref \notin Dropped(history, keep)}

(* Mutant: the sources are looked up once, before the budget applies.         *)
SourcesForgotten(history, keep) == keep

(* The entries kept and the sources of restores, those kept only as sources   *)
(* included: the walk from the newest entry back ends with the smallest such  *)
(* set, because a source is older than its restore.                           *)
SourcesIn(history, keep) == \A e \in keep, f \in history : f.seq = e.from => f \in keep

WithSources(history, keep) ==
  {e \in history : \A more \in SUBSET history :
                     keep \subseteq more /\ SourcesIn(history, more) => e \in more}

KeptCheckpoints(history, today) ==
  WithSources(history,
    applyByteBudget(history, Recent(history) \union Base(history) \union NewestOfDay(history, today)))

ExpiredCheckpoints(history, today) ==
  {e.seq : e \in history \ KeptCheckpoints(history, today)}
=============================================================================
