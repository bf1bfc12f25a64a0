------------------------------- MODULE MCServer --------------------------------
(* The requests are alike, and so are the ids: r1 is the first to arrive, and *)
(* what it asks for, at most once, is not called i2.  This leaves out states  *)
(* that differ from others in names alone.                                    *)
EXTENDS ServerSessions

CONSTANTS r1, r2, i2

InOrder ==
    /\ pc[r2] # "new" => pc[r1] # "new"
    /\ asked[r1] # i2

MCSpec ==
    /\ Init /\ [][Next /\ InOrder']_vars
    /\ \A r \in Requests : WF_vars(Settles(r)) /\ WF_vars(Timeout(r))
================================================================================
