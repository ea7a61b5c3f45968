--------------------------- MODULE MCServiceLoop ---------------------------
(***************************************************************************)
(* Small instances of ServiceLoop.  Each behaviour draws one of the        *)
(* budgets, so that parts of the service which do not touch each other     *)
(* are not multiplied with one another.                                    *)
(***************************************************************************)
EXTENDS ServiceLoop

Budget(p, f, m, s, w, k, e) ==
  [publish |-> p, fail |-> f, move |-> m, session |-> s, wts |-> w, panic |-> k, stop |-> e]
MCBudgets ==
  {Budget(2, 1, 0, 0, 0, 0, 0), Budget(0, 1, 1, 0, 0, 0, 0), Budget(0, 0, 0, 2, 1, 0, 0), Budget(1, 0, 0, 0, 0, 1, 1)}
=============================================================================
