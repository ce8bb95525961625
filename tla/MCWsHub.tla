------------------------------- MODULE MCWsHub -------------------------------
\* Two connections; messages go to the first.
EXTENDS WsHub, TLC

CONSTANTS c1, c2
MCMaxSends == c1 :> 3 @@ c2 :> 0
=============================================================================
