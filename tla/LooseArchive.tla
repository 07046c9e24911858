---------------------------- MODULE LooseArchive ----------------------------
(***************************************************************************)
(* The archive as a caller of the PostgreSQL adapter sees it: calls take   *)
(* effect one at a time, writes as in ConversationArchive, but retention   *)
(* picks its rows by what was stored when it began: nothing orders it      *)
(* against the conflicts other calls record meanwhile.                     *)
(***************************************************************************)
EXTENDS ConversationArchive

\* Rows that were due when retention looked at them, conflicting since or not.
ExpireDue(k, cutoff, limit) ==
  /\ requests[k] = None
  /\ \E batch \in SUBSET (Ids \ expired) :
       /\ Cardinality(batch) <= limit
       /\ \A i \in batch : /\ events[i] # None /\ events[i].kind # "conflict"
                          /\ events[i].expires <= cutoff
       /\ expired' = expired \cup batch
  /\ requests' = [requests EXCEPT ![k] = RetentionRow(cutoff, limit)]
  /\ audit' = audit \cup {<<"apply_retention", None>>}
  /\ UNCHANGED <<events, conflicts>>

LooseArchiveNext ==
  \/ \E p \in Payloads : \E k \in KeysFor[p.id] :
       Store(p, k) \/ RecordConflict(p, k) \/ Replay(p, k)
  \/ \E k \in Keys, c \in Cutoffs, l \in Limits :
       ExpireDue(k, c, l) \/ ReplayRetention(k, c, l)

LooseArchiveSpec == ArchiveInit /\ [][LooseArchiveNext]_tables

=============================================================================
