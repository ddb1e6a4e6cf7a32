--------------------------- MODULE MCReplyDelivery ---------------------------
(* Three messages.  Three delayed replies exceed both delayed queues, two  *)
(* AI replies exceed the AI queue; the first reply has two segments.       *)
EXTENDS ReplyDelivery
MCMsg == 1..3
MCWays == {<<"delay", "delay", "delay">>, <<"ai", "ai", "inline">>}
MCAsked == {[m \in MCMsg |-> [way |-> w[m], segs |-> IF m = 1 THEN NSegs ELSE 1]] : w \in MCWays}
=============================================================================
