---------------------------- MODULE MCInterface ----------------------------
(***************************************************************************)
(* Model-checking instances of Interface, and of the coordinator's ingress *)
(* side alone: part says which of the two a behaviour is about.  In the    *)
(* inbox a download does not change after the file was replaced.           *)
(***************************************************************************)
EXTENDS Interface, TLC

CONSTANT Parts
VARIABLE part

MCInit == IInit /\ part \in Parts

MCNext ==
    /\ part' = part
    /\ \/ /\ part = "inbox" /\ INext
          /\ (file'.id = 1 \/ \A e \in Events : text'[e] = Plain)
       \/ /\ part = "coordinator" /\ Next
          /\ UNCHANGED <<memory, durable, text, taken, dropped, skipped, faults>>

MCSpec == MCInit /\ [][MCNext]_<<ivars, part>>

ISymmetry == Permutations(Mids) \cup Permutations(IngressIds)
=============================================================================
