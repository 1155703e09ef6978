------------------------ MODULE MCWebSocketProvider ------------------------
(* TLC instance of WebSocketProvider: symmetry over ids and callers.       *)
EXTENDS WebSocketProvider, TLC

Symmetry == Permutations(Conns) \union Permutations(Callers)

=============================================================================
