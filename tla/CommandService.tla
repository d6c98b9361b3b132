--------------------------- MODULE CommandService ---------------------------
(***************************************************************************)
(* What the command ring promises the guest, with no ring, no indices and  *)
(* no drain: submissions are executed once each, in the order submitted,   *)
(* and the fence word never passes a submission that has not been          *)
(* executed (wire.rs, RingIndices; infinigpu-ring, is_fence_signaled).     *)
(***************************************************************************)
EXTENDS Integers, Sequences

CONSTANTS
  Addrs,       (* what a submission may refer to                             *)
  MaxSubmits   (* bound on the submissions of a behaviour                    *)

VARIABLES
  submitted,   (* every submission, in order; its n-th has seqno n           *)
  executed,    (* every submission executed, in the order executed           *)
  fence        (* the highest seqno reported complete                        *)

vars == <<submitted, executed, fence>>

Init == submitted = << >> /\ executed = << >> /\ fence = 0

Submit(a) ==
  /\ Len(submitted) < MaxSubmits
  /\ submitted' = Append(submitted, [seqno |-> Len(submitted) + 1, addr |-> a])
  /\ UNCHANGED <<executed, fence>>

Complete ==
  /\ Len(executed) < Len(submitted)
  /\ executed' = Append(executed, submitted[Len(executed) + 1])
  /\ UNCHANGED <<submitted, fence>>

\* The fence may jump over several completions, and never overtakes them.
Signal ==
  /\ fence < Len(executed)
  /\ fence' \in fence + 1 .. Len(executed)
  /\ UNCHANGED <<submitted, executed>>

Next == (\E a \in Addrs : Submit(a)) \/ Complete \/ Signal

Spec == Init /\ [][Next]_vars

\* Whatever is submitted is executed, and whatever is executed is signalled.
Fairness == WF_vars(Complete) /\ WF_vars(Signal)

FairSpec == Spec /\ Fairness
=============================================================================
