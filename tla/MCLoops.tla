------------------------------ MODULE MCLoops ------------------------------
(***************************************************************************)
(* Small instances of the modules whose loops have to get somewhere: the   *)
(* reconciliation of the skill library, the shipper of log events and the  *)
(* clients that reconnect.  They share no state, so one run explores each  *)
(* by itself: part says which one moves.                                   *)
(***************************************************************************)
EXTENDS SkillLibrary, LogShipper, Reconnect, TLC

CONSTANTS a, b, m
VARIABLE part
allvars == <<vars, lvars, loopvars, part>>

\* Of newlines in front the first is lost: 2 begins with one, 3 with two.
McKept == <<1, 1, 2>>
\* One client tries for ever, one gives up, and the third is not accepted.
McRetries == a :> 0 @@ b :> 4 @@ m :> 2

McInit == Init /\ SInit /\ LoopInit /\ part \in {"skills", "logs", "clients"}
McNext ==
    \/ part = "skills" /\ Next /\ UNCHANGED <<lvars, loopvars, part>>
    \/ part = "logs" /\ SNext /\ UNCHANGED <<vars, loopvars, part>>
    \/ part = "clients" /\ LoopNext /\ UNCHANGED <<vars, lvars, part>>
\* Fairness, SFairness and LoopFairness, each for the part that moves: nothing
\* of the log's or of a request's can be taken before it is begun.
McFairness ==
    /\ \A p \in Procs : /\ WF_vars(Step(p))
                        /\ WF_vars(part = "skills" /\ ListFiles(p, "list"))
    /\ SFairness
    /\ \A c \in Clients : WF_loopvars(part = "clients" /\ LoopStep(c))
McSpec == McInit /\ [][McNext]_allvars /\ McFairness
=============================================================================
