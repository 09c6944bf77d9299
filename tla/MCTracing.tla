------------------------------ MODULE MCTracing ------------------------------
(* Tracing for TLC: events with the indexed arguments first, last and mixed,  *)
(* and versions around 0.8.4.                                                 *)
EXTENDS Tracing

MCLayouts == {<<FALSE>>, <<TRUE, TRUE, FALSE>>, <<TRUE, TRUE>>, <<FALSE, TRUE, TRUE>>}
MCVersions == {<<0, 7, 6>>, <<0, 8, 3>>, <<0, 8, 4>>, <<0, 9, 0>>, <<1, 0, 0>>}
==============================================================================
