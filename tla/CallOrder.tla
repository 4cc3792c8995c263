------------------------------ MODULE CallOrder ------------------------------
(* What the call journal promises (core/work_updates.py): the mutations of one
   call card reach Glass in the order in which they were accepted, each one is
   settled before the next is tried, a settled one is never sent again, and none
   leaves the journal unless Glass accepted it or it was given up. *)
EXTENDS Naturals, Sequences

CONSTANTS Cards,   \* the call cards
          Items    \* what can be accepted

VARIABLES acc,     \* mutations accepted for a card, in order
          pos,     \* how many of them are settled
          at,      \* the mutation Glass applied last
          gone     \* <<card, position>> of those given up
ovars == <<acc, pos, at, gone>>

Accepted(k) == \E x \in Items : acc' = [acc EXCEPT ![k] = Append(@, x)]
Settle(k) == pos[k] < Len(acc[k]) /\ pos' = [pos EXCEPT ![k] = @ + 1]
GivenUp(k) == Settle(k) /\ gone' = gone \cup {<<k, pos[k] + 1>>}

Accept(k) == Accepted(k) /\ UNCHANGED <<pos, at, gone>>
Apply(k) == /\ pos[k] < Len(acc[k])
            /\ at' = [at EXCEPT ![k] = pos[k] + 1]
            /\ UNCHANGED <<acc, pos, gone>>
Deliver(k) == /\ at[k] = pos[k] + 1 /\ Settle(k)
              /\ UNCHANGED <<acc, at, gone>>
GiveUp(k) == GivenUp(k) /\ UNCHANGED <<acc, at>>
(* A full journal makes room for the new mutation. *)
Displace(k, l) == Accepted(k) /\ GivenUp(l) /\ UNCHANGED at

OInit == /\ acc = [k \in Cards |-> <<>>] /\ pos = [k \in Cards |-> 0]
         /\ at = [k \in Cards |-> 0] /\ gone = {}
ONext == \E k \in Cards : \/ Accept(k) \/ Apply(k) \/ Deliver(k) \/ GiveUp(k)
                          \/ \E l \in Cards : Displace(k, l)
OSpec == OInit /\ [][ONext]_ovars
=============================================================================
