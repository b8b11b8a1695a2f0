----------------------------- MODULE Deletion -----------------------------
(***************************************************************************)
(* Deleting a run while sessions may still work on it (worker.rs           *)
(* delete_run over store/host.rs deletion and delete_proven): the row is   *)
(* read, the host proves what the run owes with no transaction open, and a *)
(* second transaction deletes.  A deleted run stays deleted: an identifier *)
(* is not submitted again.                                                 *)
(***************************************************************************)
EXTENDS Drive

VARIABLE del  \* the deletion in progress

dvars == <<vars, del>>

(* seq, the length of the history when it was read, is not read by the code. *)
NoDeletion == [pc |-> "none", fence |-> 0, left |-> {}, seq |-> 0]

(* Mutant: only the recorded obligations are proven. *)
DeletionOwesRecorded == obligations

(* An expired lease was not released: its session must be proven ended too. *)
DeletionOwes ==
  obligations \cup (IF holder = None THEN {}
                   ELSE {[id |-> 0, fence |-> fence, attempt |-> 0]})

DeleteRead ==
  /\ del.pc = "none"
  /\ state \notin {"absent", "deleted"}
  /\ LeaseFree
  /\ del' = [pc |-> "read", fence |-> fence, seq |-> Len(events),
             left |-> DeletionOwes]
  /\ UNCHANGED vars

(* One executor that is not proven ended refuses the deletion. *)
DeleteProve ==
  /\ del.pc = "read"
  /\ \/ /\ Provable(del.left) = del.left
        /\ del' = [del EXCEPT !.pc = "proved"]
     \/ del' = NoDeletion
  /\ UNCHANGED vars

DeleteCommit ==
  /\ del.pc = "proved"
  /\ del' = NoDeletion
  /\ IF DeleteAllowed(del.fence, Ids(del.left)) THEN DeleteRow
     ELSE UNCHANGED ledgerVars
  /\ UNCHANGED <<now, ses, acting>>

DeletionInit == Init /\ del = NoDeletion

DeletionNext ==
  \/ Next /\ UNCHANGED del
  \/ DeleteRead
  \/ DeleteProve
  \/ DeleteCommit

DeletionSpec == DeletionInit /\ [][DeletionNext]_dvars

-----------------------------------------------------------------------------
(* Properties *)

Deleting == state # "deleted" /\ state' = "deleted"

(* A run that no session wrote to between the proofs and the deletion has  *)
(* no executor left when it is deleted (worker.rs delete_run).             *)
DeletedQuiet ==
  [][Deleting /\ Len(events) = del.seq => acting = {}]_dvars

(* No lease is live when the run is deleted, and the one a session may     *)
(* still hold is the one the host proved ended.                            *)
DeletedUnheld ==
  [][Deleting => LeaseFree /\ (holder # None => \E o \in del.left :
                                 o.fence = fence /\ o.attempt = 0)]_dvars

=============================================================================
