---------------------------- MODULE MCApplyBatch ----------------------------
(* ApplyBatch on a small table. *)
EXTENDS ApplyBatch

\* The filter of jobs_from_checkpoint, said with the library's SelectSeq.
Reference(c, L) ==
  LET Runnable(j) == j \in L /\ status[j] \in {"PENDING", "IN_PROGRESS"}
  IN  SelectSeq(SubSeq(c.ids, c.next + 1, Len(c.ids)), Runnable)

\* What a resume iterates over is exactly the saved list from its cursor on,
\* without the jobs that are decided or gone, in the saved order.
ResumeListIsFilteredSuffix ==
  \A L \in {Ids, AshbyIds} :
    JobsFromCheckpoint(checkpoint, L) = Reference(checkpoint, L)
=============================================================================
