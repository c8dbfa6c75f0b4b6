----------------------------- MODULE LeasePool -----------------------------
(***************************************************************************)
(* What the durable authority promises the machines that recognize speech: *)
(* a pool of at most Capacity leases.  A lease is granted to a holder that *)
(* never held one, lasts at most LeaseLength beyond the present, may be    *)
(* renewed while it lasts, ends when its holder gives it back, and lapses  *)
(* by itself.  There are no jobs, requests or queues here.                 *)
(***************************************************************************)
EXTENDS Integers, FiniteSets

CONSTANTS Capacity, Holders, LeaseLength

VARIABLES
  clock,
  held,   \* the leases in force
  used    \* the holders that have had a lease

Lease == [holder: Holders, until: Nat]

Init == clock = 0 /\ held = {} /\ used = {}

Until == (clock + 1)..(clock + LeaseLength)

Acquire(h, until) ==
  /\ h \notin used
  /\ Cardinality(held) < Capacity
  /\ held' = held \cup {[holder |-> h, until |-> until]}
  /\ used' = used \cup {h}
  /\ UNCHANGED clock

Renew(l, until) ==
  /\ held' = (held \ {l}) \cup {[holder |-> l.holder, until |-> until]}
  /\ UNCHANGED <<clock, used>>

GiveBack(l) ==
  /\ held' = held \ {l}
  /\ UNCHANGED <<clock, used>>

Tick ==
  /\ clock' = clock + 1
  /\ held' = {l \in held : l.until > clock'}
  /\ UNCHANGED used

Next ==
  \/ \E h \in Holders, until \in Until : Acquire(h, until)
  \/ \E l \in held : GiveBack(l) \/ \E until \in Until : Renew(l, until)
  \/ Tick

Spec == Init /\ [][Next]_<<clock, held, used>>
=============================================================================
