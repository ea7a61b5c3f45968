-------------------------- MODULE MCClientCommands --------------------------
(***************************************************************************)
(* Small instances of ClientCommands.  r and s restart the service, b      *)
(* reboots the machine, i only reads.  The deliveries are two of r, one of *)
(* each of s, b and i, and one command without an id.                      *)
(***************************************************************************)
EXTENDS ClientCommands

CONSTANTS r, s, b, i, none, d1, d2, d3, d4, d5, d6

MCIdOf == [d \in Deliveries |-> CASE d \in {d1, d2} -> r
                                  [] d = d3 -> b
                                  [] d = d4 -> i
                                  [] d = d5 -> none
                                  [] d = d6 -> s]
MCNameOf == [id \in Ids |-> CASE id \in {r, s} -> Restart [] id = b -> Reboot
                              [] OTHER -> CHOOSE n \in ReadOnly : TRUE]

\* The server sends one destructive command at a time, or any.
DestructiveApart ==
  {p \in Deliveries \X Deliveries : p[1] # p[2] /\ {p[1], p[2]} \subseteq {d1, d2, d3}}
NothingSerial == {}

\* Every behaviour may use all deliveries, or it takes one of several sets of them, so
\* that commands which have no business with each other are not multiplied.
AnyMix == {Deliveries}
TwoRestartsOrReboot == {{d1, d3}, {d1, d6}}
RedeliveryOrReadOnly == {{d1, d2, d3}, {d3, d4}, {d5}}
=============================================================================
