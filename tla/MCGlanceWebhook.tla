--------------------------- MODULE MCGlanceWebhook ---------------------------
(* Instances of GlanceWebhook for TLC.                                     *)
EXTENDS GlanceWebhook

backends(s) == [key |-> "enabled_backends", stores |-> s]
debug == [key |-> "debug", stores |-> <<>>]

\* Every configuration that is not empty names its backends.
Declared == {<<>>, <<backends(<<"file">>)>>, <<debug, backends(<<"file", "rbd">>)>>}

\* One of them does not.
Undeclared == {<<>>, <<backends(<<"rbd">>)>>, <<debug>>}

\* With a Glance name of 6 the longest key of a single API has 38 characters.
Lengths == [default |-> 7, fits |-> 38, long |-> 39]
TwoLengths == [default |-> 7, fits |-> 30]
OneLength  == [n \in {"default"} |-> 7]

=============================================================================
