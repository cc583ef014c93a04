------------------------------- MODULE MCFeed -------------------------------
(* One follower of one run's events; the gateway answers nothing else. *)
EXTENDS HttpGateway

MCRequests == {GwBareRequest}

MCInit == gwCase = [kind |-> "run", host |-> GwPlainHost] /\ GwInit /\ FeedInit

MCNext == FeedNext /\ UNCHANGED gwVars

MCSpec == MCInit /\ [][MCNext]_<<feedVars, gwVars>>
=============================================================================
