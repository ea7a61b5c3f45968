------------------------------ MODULE PowerLock ------------------------------
(***************************************************************************)
(* What the destructive gate promises: a lock between the setups and the   *)
(* commands that take the machine or the service down.  Setups share it; a *)
(* restart or a reboot holds it alone, from the moment it is committed to  *)
(* the moment it takes effect, is given up, or has lapsed with nothing     *)
(* counting down any more.                                                 *)
(***************************************************************************)
EXTENDS Naturals

CONSTANT
  Commands     \* the restarts and reboots that can be asked for

VARIABLES
  setups,      \* how many setups hold the lock
  committed,   \* the command that holds it, a set of at most one
  counting     \* the commands on their way to take effect

vars == <<setups, committed, counting>>

Init ==
  /\ setups = 0
  /\ committed = {}
  /\ counting = {}

Begin ==
  /\ committed = {} /\ counting = {}
  /\ setups' = setups + 1
  /\ UNCHANGED <<committed, counting>>

End ==
  /\ setups > 0
  /\ setups' = setups - 1
  /\ UNCHANGED <<committed, counting>>

\* A setup that replaces the service stops it: no claim survives.
Stop ==
  /\ setups > 0
  /\ setups' = 0
  /\ UNCHANGED <<committed, counting>>

Commit(c) ==
  /\ setups = 0 /\ committed = {} /\ counting = {}
  /\ committed' = {c}
  /\ UNCHANGED <<setups, counting>>

Schedule(c) ==
  /\ committed = {c} /\ counting = {}
  /\ counting' = {c}
  /\ UNCHANGED <<setups, committed>>

\* A command that failed or lapsed lets go; never one that is counting down.
GiveUp ==
  /\ committed # {} /\ counting = {}
  /\ committed' = {}
  /\ UNCHANGED <<setups, counting>>

\* Called off from outside: the lock is kept until it lapses.
CallOff ==
  /\ counting # {}
  /\ counting' = {}
  /\ UNCHANGED <<setups, committed>>

\* The machine or the service goes down by the command that holds the lock.
TakeEffect ==
  /\ setups = 0 /\ counting # {} /\ counting = committed
  /\ committed' = {} /\ counting' = {}
  /\ UNCHANGED setups

Next ==
  \/ Begin \/ End \/ Stop
  \/ \E c \in Commands : Commit(c) \/ Schedule(c)
  \/ GiveUp \/ CallOff \/ TakeEffect

Spec == Init /\ [][Next]_vars
=============================================================================
