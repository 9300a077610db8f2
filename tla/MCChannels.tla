----------------------------- MODULE MCChannels -----------------------------
(* Bounds: two channels, in an order in which the first can hold up or     *)
(* fail the stop of the second; two messages per server; two processes,    *)
(* one of which may crash.                                                 *)
EXTENDS Channels, TLC

MCKindSets ==
  {<<"lark_hook", "telegram">>, <<"discord", "lark_ws">>, <<"signal", "hook">>,
   <<"hook", "echo">>}
=============================================================================
