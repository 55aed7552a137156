---------------------------- MODULE MCTransport ----------------------------
(***************************************************************************)
(* Instances of Transport for TLC: timers of one or two ticks, one re-run, *)
(* one chunk of output.                                                    *)
(***************************************************************************)
EXTENDS Transport
=============================================================================
