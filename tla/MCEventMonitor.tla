--------------------------- MODULE MCEventMonitor ---------------------------
(***************************************************************************)
(* Short chains with the events whose order, age or Delegate matters.      *)
(***************************************************************************)
EXTENDS EventMonitor

MCChains ==
    {<<{}, {"wallet"}, {"meta"}, {"wallet", "delete"}, {}>>,
     <<{}, {"delete"}, {"purchase"}, {"request"}, {"plain"}>>,
     <<{}, {"create"}, {"wallet", "call"}, {}, {"wallet"}>>}
=============================================================================
