------------------------------ MODULE MCWebIpc ------------------------------
(***************************************************************************)
(* Instances of WebIpc for TLC.                                            *)
(***************************************************************************)
EXTENDS WebIpc

MixedBatches  == {<<"conf", "uci">>, <<"reset">>}
LiveBatches   == {<<"conf">>, <<"conf", "uci">>, <<"reset">>}
SingleBatches == {<<"conf">>}
=============================================================================
