----------------------------- MODULE BoundedFifo ----------------------------
(***************************************************************************)
(* What the producer/consumer programs of the thread library promise: a    *)
(* channel of at most Size items that gives back every item once, in the   *)
(* order in which it was put.                                              *)
(***************************************************************************)
EXTENDS Naturals, Sequences

CONSTANTS Item, Size

VARIABLES
  content,    \* the items in the channel, oldest first
  taken       \* the items taken out so far

fifoVars == <<content, taken>>

FifoInit == content = <<>> /\ taken = <<>>

Put(v) ==
  /\ Len(content) < Size
  /\ content' = Append(content, v)
  /\ UNCHANGED taken

Get ==
  /\ content # <<>>
  /\ content' = Tail(content)
  /\ taken' = Append(taken, Head(content))

FifoSpec == FifoInit /\ [][Get \/ \E v \in Item : Put(v)]_fifoVars

=============================================================================
