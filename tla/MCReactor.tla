------------------------------ MODULE MCReactor ------------------------------
(* Instances of Reactor made of a gate, a listener for the same event and  *)
(* one more, an interval trigger and a daily one.                          *)
EXTENDS Reactor

MCGateAndClock == <<"gate", "clock">>
MCAll == <<"gate", "listener", "clock", "daily">>
MCPattern == [t \in Triggers |->
    CASE t = "gate" -> {"call"} [] t = "listener" -> {"call", "done"} [] OTHER -> {}]
=============================================================================
