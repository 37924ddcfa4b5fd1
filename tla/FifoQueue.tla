------------------------------ MODULE FifoQueue ------------------------------
(***************************************************************************)
(* What a libucmq queue promises its callers: a bounded first-in first-out *)
(* queue.  sent is every message a put has added, got every message a get  *)
(* has returned; the messages waiting are those of sent beyond Len(got).   *)
(***************************************************************************)
EXTENDS Naturals, Sequences

CONSTANTS Msgs,        \* the messages that can be put
          Capacity     \* the most that may wait, 0 for no limit

VARIABLES sent, got

Waiting == Len(sent) - Len(got)

Init == sent = <<>> /\ got = <<>>

Put(m) == /\ Capacity # 0 => Waiting < Capacity
          /\ sent' = Append(sent, m)
          /\ UNCHANGED got

Get == /\ Waiting > 0
       /\ got' = Append(got, sent[Len(got) + 1])
       /\ UNCHANGED sent

Next == Get \/ \E m \in Msgs : Put(m)

\* A consumer that keeps getting is served.
Spec == Init /\ [][Next]_<<sent, got>> /\ WF_<<sent, got>>(Get)

=============================================================================
