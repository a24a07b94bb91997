------------------------- MODULE MCInjectedServerStore -------------------------
(***************************************************************************)
(* Instances of InjectedServerStore for TLC.                               *)
(***************************************************************************)
EXTENDS InjectedServerStore, TLC

CONSTANTS h1, h2, a1, a2

(* The handlers are alike, and so are the addresses if none of them is     *)
(* that of a native server.                                                *)
Alike == {p @@ q : p \in Permutations({h1, h2}), q \in Permutations({a1, a2})}
=============================================================================
