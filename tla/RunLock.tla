------------------------------ MODULE RunLock -------------------------------
(***************************************************************************)
(* What the run lease promises (RunLeaseStore in core/src/ports.ts): at    *)
(* any time at most one holder, and ownership passes from one holder to    *)
(* the next only through a moment without any: by release or by expiry,    *)
(* never by a takeover.                                                    *)
(***************************************************************************)
CONSTANTS Holders, Nobody

VARIABLE owner

Init == owner \in Holders \cup {Nobody}

Acquire(w) == owner = Nobody /\ owner' = w

\* Released, or run out.
Leave == owner # Nobody /\ owner' = Nobody

Next == (\E w \in Holders : Acquire(w)) \/ Leave

Spec == Init /\ [][Next]_owner
=============================================================================
