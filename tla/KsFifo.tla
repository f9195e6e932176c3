------------------------------- MODULE KsFifo -------------------------------
(***************************************************************************)
(* What a queue of libks promises to its callers, with no threads, locks   *)
(* or conditions: items come out in the order they went in, each of them   *)
(* at most once, at most `maxlen' of them are inside at a time (0 means no *)
(* limit) and nothing moves once the queue is terminated.                  *)
(***************************************************************************)
EXTENDS Naturals, Sequences

CONSTANT Items              \* the pointers callers push

VARIABLES accepted,         \* every item taken in, oldest first
          delivered,        \* every item given out, oldest first
          open,             \* FALSE once the queue has been terminated
          maxlen            \* how many items fit; 0 is "as many as you like"

fifoVars == <<accepted, delivered, open, maxlen>>

Inside == Len(accepted) - Len(delivered)

FifoInit ==
    /\ accepted = <<>>
    /\ delivered = <<>>
    /\ open = TRUE
    /\ maxlen \in Nat

Put(x) ==
    /\ open
    /\ maxlen # 0 => Inside < maxlen
    /\ accepted' = Append(accepted, x)
    /\ UNCHANGED <<delivered, open, maxlen>>

Take ==
    /\ open
    /\ Len(delivered) < Len(accepted)
    /\ delivered' = Append(delivered, accepted[Len(delivered) + 1])
    /\ UNCHANGED <<accepted, open, maxlen>>

Close ==
    /\ open
    /\ open' = FALSE
    /\ UNCHANGED <<accepted, delivered, maxlen>>

FifoNext == Take \/ Close \/ \E x \in Items : Put(x)

FifoSpec == FifoInit /\ [][FifoNext]_fifoVars
=============================================================================
