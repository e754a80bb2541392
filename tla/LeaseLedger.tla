----------------------------- MODULE LeaseLedger -----------------------------
(***************************************************************************)
(* What the proxy promises of the leases it sees acknowledged, with no     *)
(* goroutine, mutex, loop or fixed-width integer in sight.                 *)
(*                                                                         *)
(* An ACK is recorded once, and its lease replaces the client's.  All      *)
(* leases age at the same moment.  A batch is the whole table as it was at *)
(* one moment, expired leases included; it is never empty, and Sonar is    *)
(* told of it before the next one is drawn.  An ACK may be never recorded  *)
(* and a batch never told, when the process stops.                         *)
(***************************************************************************)
EXTENDS Naturals

CONSTANTS
  Ack,      \* ACK datagrams
  MacOf,    \* MacOf[a] is the client that ACK a is for
  GrantOf,  \* GrantOf[a] is the lease time in ACK a
  Period    \* what a lease ages by

VARIABLES
  coming,   \* ACKs not recorded
  held,     \* the leases, one per client
  drawn,    \* the batch on its way
  told      \* the last batch

vars == <<coming, held, drawn, told>>

Init == coming = Ack /\ held = {} /\ drawn = {} /\ told = {}

Granted(a) == [ack |-> a, left |-> GrantOf[a], expired |-> FALSE]

Record(a) ==
  /\ a \in coming
  /\ coming' = coming \ {a}
  /\ held' = {v \in held : MacOf[v.ack] # MacOf[a]} \cup {Granted(a)}
  /\ UNCHANGED <<drawn, told>>

(* A lease that has less than a period left has expired, for good. *)
Aged(v) ==
  IF v.left < Period THEN [v EXCEPT !.left = 0, !.expired = TRUE]
  ELSE [v EXCEPT !.left = v.left - Period]

Age ==
  /\ held' = {Aged(v) : v \in held}
  /\ UNCHANGED <<coming, drawn, told>>

Says(v) == [ack |-> v.ack, expired |-> v.expired]

Draw ==
  /\ held # {}
  /\ drawn = {}
  /\ drawn' = {Says(v) : v \in held}
  /\ UNCHANGED <<coming, held, told>>

Tell ==
  /\ drawn # {}
  /\ told' = drawn
  /\ drawn' = {}
  /\ UNCHANGED <<coming, held>>

Next == (\E a \in Ack : Record(a)) \/ Age \/ Draw \/ Tell

Spec == Init /\ [][Next]_vars
=============================================================================
