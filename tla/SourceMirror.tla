---------------------------- MODULE SourceMirror ----------------------------
(***************************************************************************)
(* What the observations hypertable promises to its readers, whatever the  *)
(* workers, the broker and the retries do: the table is a mirror of the    *)
(* upstream feed.  Every row holds a value the source really published,    *)
(* rows arrive in atomic batches, a row may be refreshed by another        *)
(* published value, and no writer takes a row away.                        *)
(*                                                                         *)
(* The table is what lies within the retention of the hypertable: that the *)
(* retention policy drops old chunks is modelled in Aggregates.            *)
(* The value of a row is abstracted to the revision number under which the *)
(* source published it; 0 says "nothing published" or "nothing stored".    *)
(***************************************************************************)
EXTENDS Integers

CONSTANTS
    Key,            \* (station, observed_at, code) triples the feed can carry
    MaxRevision     \* bound: how often the source publishes or corrects a row

VARIABLES feed, table

mirrorVars == <<feed, table>>

Nothing == [k \in Key |-> 0]

MirrorTypeOK == /\ feed  \in [Key -> 0..MaxRevision]
                /\ table \in [Key -> 0..MaxRevision]

MirrorInit == feed = Nothing /\ table = Nothing

(***************************************************************************)
(* The source publishes a row, or corrects one.                            *)
(***************************************************************************)
Revise(k) == /\ feed[k] < MaxRevision
             /\ feed' = [feed EXCEPT ![k] = @ + 1]
             /\ table' = table

(***************************************************************************)
(* A batch commits.  batch[k] = 0 says that row k is not in the batch.     *)
(***************************************************************************)
Commit(batch) == /\ \A k \in Key : batch[k] <= feed[k]
                 /\ table' = [k \in Key |-> IF batch[k] = 0 THEN table[k]
                                                            ELSE batch[k]]
                 /\ feed' = feed

MirrorNext == \/ \E k \in Key : Revise(k)
              \/ \E batch \in [Key -> 0..MaxRevision] : Commit(batch)

MirrorSpec == MirrorInit /\ [][MirrorNext]_mirrorVars

=============================================================================
