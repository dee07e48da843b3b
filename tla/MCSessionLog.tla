----------------------------- MODULE MCSessionLog -----------------------------
(* One session's log on small instances.                                   *)
EXTENDS SessionLog

(* A session of its own, or one forked after a finished turn.              *)
MCSeeds == {<<>>, <<"start", "end">>}
MCSetups == {<<>>, <<"note">>}
=============================================================================
