---------------------------- MODULE SequenceFolds ----------------------------
(***************************************************************************)
(* SelectSeq for a set and FlattenSeq, as folds: what a fold computes can  *)
(* be proved.                                                              *)
(***************************************************************************)
EXTENDS Sequences, SequencesExt

(* The elements of seq that are in good, in their order.                   *)
Filtered(seq, good) ==
  LET Add(kept, x) == IF x \in good THEN Append(kept, x) ELSE kept
  IN  FoldLeft(Add, <<>>, seq)

(* All the elements of the sequences of seqs.                              *)
Concat(seqs) ==
  LET Add(acc, seq) == acc \o seq
  IN  FoldLeft(Add, <<>>, seqs)

===============================================================================
