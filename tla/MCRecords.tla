----------------------------- MODULE MCRecords -----------------------------
(***************************************************************************)
(* Small instances of the modules about the hub's own records: chats that  *)
(* delegate to each other, profiles with their prompt files, and the skill *)
(* library.  They share no state, so one run explores each by itself: part *)
(* says which one moves.  Posts with keys have a part of their own, where  *)
(* records and chats stay as they are and there are more requests.         *)
(***************************************************************************)
EXTENDS ChatMail, ProfileLibrary, SkillLibrary, TLC

VARIABLE part
allvars == <<mvars, pvars, vars, part>>

\* Of newlines in front the first is lost: 2 begins with one, 3 with two.
McKept == <<1, 1, 2>>
McSlug == <<1, 2>>
McMailReqs == 2

McInit == MInit /\ PInit /\ Init /\ part \in {"mail", "posts", "profiles", "skills"}
McNext == \/ part = "mail" /\ UNCHANGED <<age, pvars, vars, part>> /\ MNext /\ reqs' <= McMailReqs
          \/ part = "posts" /\ UNCHANGED <<recs, chats, edges, pvars, vars, part>> /\ MNext
          \/ part = "profiles" /\ PNext /\ UNCHANGED <<mvars, vars, part>>
          \/ part = "skills" /\ Next /\ UNCHANGED <<mvars, pvars, part>>
McSpec == McInit /\ [][McNext]_allvars

\* Requests are interchangeable, the profile library's too.
Symmetry == Permutations(Humans)
=============================================================================
