------------------------------- MODULE Option82 -------------------------------
(***************************************************************************)
(* The relay agent information option: how the format that                 *)
(* proxy_handler.go:11-52 quotes lays it out, and what addLease cuts out   *)
(* of it.  addLease looks at one octet only, the length of what it takes   *)
(* for the circuit id, and at no sub-option code.                          *)
(***************************************************************************)
EXTENDS Integers, Sequences

Byte == 0 .. 255
SubOption == [code : Byte, value : Seq(Byte)]

CircuitID == 1
RemoteID == 2

(* At most three sub-options: the two that are defined and one more.        *)
MaxSubOptions == 3

(* The octets of the option: SubOpt/Length/Value, one after the other. *)
Tuple(subs, i) ==
  IF i \in DOMAIN subs
    THEN <<subs[i].code, Len(subs[i].value)>> \o subs[i].value
    ELSE <<>>

Octets(subs) == Tuple(subs, 1) \o (Tuple(subs, 2) \o Tuple(subs, 3))

(* "The length N gives the total number of octets", and is an octet itself. *)
IsAgentOption(subs) ==
  /\ subs \in Seq(SubOption)
  /\ Len(subs) <= MaxSubOptions
  /\ Len(Octets(subs)) <= 255

------------------------------------------------------------------------------
(* if opt82len > 2 *)
Cut(o) == Len(o) > 2

(* 2+s1, a sum of bytes: from 254 on it wraps. *)
CircuitEnd(o) == (2 + o[2]) % 256

(* o[2:2+s1] ends before it begins, or o[len(a.cid)+4:opt82len] does. *)
Panics(o) == Cut(o) /\ (CircuitEnd(o) < 2 \/ CircuitEnd(o) + 2 > Len(o))

(* A bug: the header of the second sub-option is taken for its value.       *)
RidWithHeader(o) == IF Cut(o) THEN SubSeq(o, CircuitEnd(o) + 1, Len(o)) ELSE <<>>

(* a.cid and a.rid, where nothing panics. *)
Cid(o) == IF Cut(o) THEN SubSeq(o, 3, CircuitEnd(o)) ELSE <<>>
Rid(o) == IF Cut(o) THEN SubSeq(o, CircuitEnd(o) + 3, Len(o)) ELSE <<>>

------------------------------------------------------------------------------
(* A sub-option with nothing behind it: addLease looks for the next one.    *)
Lone(subs) == Len(subs) = 1 /\ subs[1].value # <<>>

(* What is behind the header of the second sub-option, whatever its code.   *)
BehindSecondHeader(subs) ==
  IF Len(subs) < 2 THEN <<>> ELSE subs[2].value \o Tuple(subs, 3)
=============================================================================
