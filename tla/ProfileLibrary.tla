--------------------------- MODULE ProfileLibrary ---------------------------
(***************************************************************************)
(* Profiles: prompts/<slug>.md files are the record, the profiles table is *)
(* their index, and agents follow a profile live.  A mutation commits the  *)
(* row and then rewrites files (all of them after an update);              *)
(* reconcilePrompts, started by every turn and listing, makes the rows and *)
(* the default follow the files.  A file is replaced by removing the old   *)
(* one and then writing the new one, and its slug is computed from the     *)
(* name: two names can share a slug and some names have none.              *)
(* A text stands for everything a profile says (prompt, model, budget...). *)
(***************************************************************************)
EXTENDS Naturals, FiniteSets, FiniteSetsExt

CONSTANTS PNames,      \* profile names, numbers: files are visited in order
          SeedName,    \* the name of the profile that is created when there is none
          PTexts,      \* what a profile may say
          PKept,       \* PTexts -> PTexts: what is read back of a text that was written
          Slug,        \* PNames -> file stem; 0 when slugify leaves nothing or "base"
          PProcs,      \* requests and turns in flight
          MaxPIds,     \* bound: rows ever created
          MaxPEdits,   \* bound: mutations by request or tool
          MaxHandEdits, \* bound: changes made with a text editor
          MaxRestarts  \* bound: restarts of the hub

\* The seeded profile has a name with a file.
ASSUME ProfileAssumption ==
  /\ PNames \subseteq Nat /\ Slug \in [PNames -> Nat]
  /\ SeedName \in PNames /\ Slug[SeedName] # 0

VARIABLES prRows,      \* index: id -> [name, text, def]
          prFiles,     \* prompts/: slug -> [id, name, text, def]
          follower,    \* one agent: the profile it follows and its stored values
          prPc,        \* where each request is, with its local variables
          prIds, prEdits, handEdits, restarts,
          prAlone,     \* reconciles during which nobody else changed anything
          prSettled    \* whether the last reconcile ran alone and nothing changed since:
                       \* "no", "wholly", or "unflagged" when it took the flag from the
                       \* file by which it had moved the default
pvars == <<prRows, prFiles, follower, prPc, prIds, prEdits, handEdits, restarts, prAlone, prSettled>>

None == 0
Rest == [at |-> "idle"]
With(f, k, v) == [x \in DOMAIN f \cup {k} |-> IF x = k THEN v ELSE f[x]]
Without(f, S) == [x \in DOMAIN f \ S |-> f[x]]
Nothing == [x \in {} |-> x]
Doc(id, row) == [id |-> id, name |-> row.name, text |-> row.text, def |-> row.def]

\* A hub that has started once: seedProfiles created the default profile.
Seed == [name |-> SeedName, text |-> Min(PTexts), def |-> TRUE]
PInit == /\ prRows = With(Nothing, 1, Seed)
         /\ prFiles = With(Nothing, Slug[Seed.name], Doc(1, Seed))
         /\ follower = [profile |-> 1, text |-> Min(PTexts)]
         /\ prPc = [p \in PProcs |-> Rest]
         /\ prIds = 1 /\ prEdits = 0 /\ handEdits = 0 /\ restarts = 0
         /\ prAlone = {} /\ prSettled = "no"

----------------------------------------------------------------------------
Taken(n, id) == \E r \in DOMAIN prRows \ {id} : prRows[r].name = n

Save(p, rows, files) ==
  /\ prRows' = rows /\ prFiles' = files
  /\ IF rows # prRows \/ files # prFiles
       THEN prAlone' = prAlone \cap {p} /\ prSettled' = "no"
       ELSE UNCHANGED <<prAlone, prSettled>>

Jump(p, rec) == prPc' = [prPc EXCEPT ![p] = rec]
NoWrite == UNCHANGED <<prRows, prFiles, prAlone, prSettled>>
Still == UNCHANGED <<prEdits, handEdits, restarts>>

\* Clearing the old default and setting the new one is one transaction.
WithDefault(rows, id) ==
  [r \in DOMAIN rows |-> [name |-> rows[r].name, text |-> rows[r].text, def |-> (r = id)]]

\* store.CreateProfile under a new id; a new default unseats the old one.
Inserted(n, t, def) ==
  LET rows == With(prRows, prIds + 1, [name |-> n, text |-> t, def |-> def])
  IN  IF def THEN WithDefault(rows, prIds + 1) ELSE rows

\* store.DeleteProfile also clears the references of chats and agents.
Deleted(p, id) ==
  /\ Save(p, Without(prRows, {id}), prFiles)
  /\ follower' = IF follower.profile = id THEN [follower EXCEPT !.profile = None] ELSE follower

----------------------------------------------------------------------------
(* Library.WritePrompt, as the tail of every operation that writes a file:  *)
(* `jobs` are the documents still to be written, `then` what follows.       *)

\* readPromptDoc: the body comes back without the newlines at its end and
\* without the first of those in front, one more every time it is written.
ReadPrompt(f) == [id |-> f.id, name |-> f.name, text |-> PKept[f.text], def |-> f.def]

Write(docs, then) == IF docs = {} THEN then ELSE [at |-> "write", jobs |-> docs, then |-> then]

\* The old file of the same id is removed; without one the slug must be free.
TakeOld(p) ==
  LET c == prPc[p]
      d == CHOOSE j \in c.jobs : \A i \in c.jobs : j.id <= i.id
      s == Slug[d.name]
      old == {f \in DOMAIN prFiles : prFiles[f].id = d.id}
      clash == old = {} /\ s \in DOMAIN prFiles
  IN
  /\ c.at = "write" /\ Still /\ UNCHANGED <<follower, prIds>>
  /\ IF s = None \/ clash THEN NoWrite /\ Jump(p, Write(c.jobs \ {d}, c.then))
     ELSE /\ \/ old = {} /\ NoWrite
             \/ \E f \in old : Save(p, prRows, Without(prFiles, {f}))
          /\ Jump(p, [at |-> "rename", jobs |-> c.jobs, then |-> c.then, doc |-> d])

\* Then the file is written under the slug of the name, whoever held it.
WriteNew(p) ==
  LET c == prPc[p] IN
  /\ c.at = "rename" /\ Still /\ UNCHANGED <<follower, prIds>>
  /\ Save(p, prRows, With(prFiles, Slug[c.doc.name], c.doc))
  /\ Jump(p, Write(c.jobs \ {c.doc}, c.then))

----------------------------------------------------------------------------
(* Mutations. *)

Edit == /\ prEdits < MaxPEdits /\ prEdits' = prEdits + 1 /\ UNCHANGED <<handEdits, restarts>>

\* Manager.CreateProfile counts, then inserts: the first profile is default.
CreateProfile(p) ==
  /\ prPc[p] = Rest /\ Edit
  /\ Jump(p, [at |-> "create", def |-> prRows = Nothing])
  /\ NoWrite /\ UNCHANGED <<follower, prIds>>

InsertProfile(p, n, t) ==
  LET c == prPc[p] IN
  /\ c.at = "create" /\ Still /\ UNCHANGED follower
  /\ IF Taken(n, None) THEN Jump(p, Rest) /\ NoWrite /\ UNCHANGED prIds
     ELSE LET d == Doc(prIds + 1, [name |-> n, text |-> t, def |-> c.def]) IN
          /\ prIds < MaxPIds /\ prIds' = prIds + 1
          /\ Save(p, Inserted(n, t, c.def), prFiles)
          /\ Jump(p, Write({d}, Rest))

\* UpdateProfile and DeleteProfile read the profile (and the count) first.
ReadProfile(p, op, id) ==
  /\ prPc[p] = Rest /\ Edit /\ id \in DOMAIN prRows
  /\ op = "delete" => Cardinality(DOMAIN prRows) > 1 /\ ~prRows[id].def
  /\ Jump(p, [at |-> op, id |-> id, def |-> prRows[id].def])
  /\ NoWrite /\ UNCHANGED <<follower, prIds>>

\* What an update leaves of a row: the default flag.
Renewed(id, n, t) == [name |-> n, text |-> t, def |-> prRows[id].def]

\* store.UpdateProfile, then SetDefaultProfile when the update asks for it.
UpdateProfile(p, n, t, makeDefault) ==
  LET c == prPc[p] IN
  /\ c.at = "update" /\ Still /\ UNCHANGED <<follower, prIds>>
  /\ IF c.id \notin DOMAIN prRows \/ Taken(n, c.id) THEN Jump(p, Rest) /\ NoWrite
     ELSE LET row == Renewed(c.id, n, t) IN
          /\ Save(p, With(prRows, c.id, row), prFiles)
          /\ Jump(p, [at |-> IF makeDefault /\ ~c.def THEN "default" ELSE "mirror",
                      doc |-> Doc(c.id, row)])

SetDefault(p) ==
  LET c == prPc[p] IN
  /\ c.at = "default" /\ Still /\ UNCHANGED <<follower, prIds>>
  /\ IF c.doc.id \notin DOMAIN prRows THEN Jump(p, Rest) /\ NoWrite
     ELSE /\ Save(p, WithDefault(prRows, c.doc.id), prFiles)
          /\ Jump(p, [at |-> "mirror",
                      doc |-> Doc(c.doc.id, WithDefault(prRows, c.doc.id)[c.doc.id])])

\* mirrorAllPrompts lists the rows again and rewrites every file.
MirrorAll(p) ==
  /\ prPc[p].at = "mirror" /\ Still /\ NoWrite /\ UNCHANGED <<follower, prIds>>
  /\ Jump(p, Write({Doc(r, prRows[r]) : r \in DOMAIN prRows},
                    [at |-> "follow", doc |-> prPc[p].doc]))

\* syncProfileAgents: the agents that follow the profile get its new values.
Follow(p) ==
  LET d == prPc[p].doc IN
  /\ prPc[p].at = "follow" /\ Jump(p, Rest)
  /\ follower' = IF follower.profile = d.id THEN [follower EXCEPT !.text = d.text] ELSE follower
  /\ Still /\ NoWrite /\ UNCHANGED prIds

DeleteProfile(p) ==
  LET c == prPc[p] IN
  /\ c.at = "delete" /\ Still /\ UNCHANGED prIds
  /\ IF c.id \in DOMAIN prRows
       THEN Deleted(p, c.id) /\ Jump(p, [c EXCEPT !.at = "unlink"])
       ELSE Jump(p, Rest) /\ NoWrite /\ UNCHANGED follower

\* removePromptFile finds the file by the id it carries.
UnlinkPrompt(p) ==
  LET c == prPc[p] IN
  /\ c.at = "unlink" /\ Still /\ UNCHANGED <<follower, prIds>>
  /\ Save(p, prRows, Without(prFiles, {f \in DOMAIN prFiles : prFiles[f].id = c.id}))
  /\ Jump(p, Rest)

----------------------------------------------------------------------------
(* A turn: resolveAgent copies the profile onto the agent, planTurn reconciles. *)

ResolveAgent(p) ==
  /\ prPc[p] = Rest /\ follower.profile \in DOMAIN prRows
  /\ follower' = [follower EXCEPT !.text = prRows[follower.profile].text]
  /\ follower' # follower
  /\ NoWrite /\ Still /\ UNCHANGED <<prPc, prIds>>

\* A renaming was cut short: a file has the name of a row that is not its own,
\* while its own row or the other's file exists.
PCrossed == \E f \in DOMAIN prFiles, r \in DOMAIN prRows :
              /\ prRows[r].name = prFiles[f].name /\ r # prFiles[f].id
              /\ \/ prFiles[f].id \in DOMAIN prRows
                 \/ \E g \in DOMAIN prFiles : prFiles[g].id = r

ListPrompts(p) ==
  /\ prPc[p] = Rest /\ Jump(p, [at |-> "rows", docs |-> [f \in DOMAIN prFiles |-> ReadPrompt(prFiles[f])]])
  /\ prAlone' = IF PCrossed THEN prAlone ELSE prAlone \cup {p}
  /\ Still /\ UNCHANGED <<prRows, prFiles, prSettled, follower, prIds>>

\* The loop over the files: rows as they were listed, ids seen, rows updated.
Visiting(docs, rows, todo, seen, resync) ==
  [at |-> "docs", docs |-> docs, rows |-> rows, todo |-> todo, seen |-> seen, resync |-> resync]

ListProfiles(p) ==
  LET c == prPc[p] IN
  /\ c.at = "rows"
  /\ Jump(p, Visiting(c.docs, prRows, DOMAIN c.docs, {}, Nothing))
  /\ NoWrite /\ Still /\ UNCHANGED <<follower, prIds>>

\* Files flagged default come first, then by name.
FirstOf(docs, S) == CHOOSE f \in S : \A g \in S \ {f} :
                      \/ docs[f].def /\ ~docs[g].def
                      \/ docs[f].def = docs[g].def /\ docs[f].name <= docs[g].name

ProfileOf(c, d) == IF d.id \in DOMAIN c.rows THEN d.id
                   ELSE LET same == {r \in DOMAIN c.rows : c.rows[r].name = d.name}
                        IN  IF same = {} THEN None ELSE CHOOSE r \in same : TRUE

\* What of a row a file would change; an empty approval or budget has a default.
Differs(row, d) == row.name # d.name \/ row.text # d.text

\* What UpdateProfile makes of row r: only what the file changes of the listed
\* row is in the patch.  The default flag does not follow here.
Patch(row, listed, file) == IF listed = file THEN row ELSE file
Synced(c, r, d) == Renewed(r, Patch(prRows[r].name, c.rows[r].name, d.name),
                              Patch(prRows[r].text, c.rows[r].text, d.text))

\* One file: adopted, or its row follows it; then its id is stamped.
ReconcilePrompt(p) ==
  LET c == prPc[p]
      f == FirstOf(c.docs, c.todo)
      d == c.docs[f]
      r == ProfileOf(c, d)
      next(seen, resync) == Visiting(c.docs, c.rows, c.todo \ {f}, seen, resync)
      seen(id) == c.seen \cup {id}
      stamp(id, then) == IF d.id = id THEN then ELSE Write({Doc(id, d)}, then)
      row == Synced(c, r, d)
      differs == Differs(c.rows[r], d)
      refused == r \in DOMAIN prRows => Taken(row.name, r)
  IN
  /\ c.at = "docs" /\ c.todo # {} /\ Still /\ UNCHANGED follower
  /\ \/ /\ r = None /\ Taken(d.name, None)
        /\ Jump(p, next(c.seen, c.resync)) /\ NoWrite /\ UNCHANGED prIds
     \/ /\ r = None /\ ~Taken(d.name, None)
        /\ prIds < MaxPIds /\ prIds' = prIds + 1
        /\ Save(p, Inserted(d.name, d.text, d.def), prFiles)
        /\ Jump(p, stamp(prIds + 1, next(seen(prIds + 1), c.resync)))
     \/ /\ r # None /\ differs /\ refused
        /\ Jump(p, next(seen(r), c.resync)) /\ NoWrite /\ UNCHANGED prIds
     \/ /\ r # None /\ differs /\ ~refused
        /\ Save(p, With(prRows, r, row), prFiles) /\ UNCHANGED prIds
        /\ Jump(p, stamp(r, next(seen(r), With(c.resync, r, row))))
     \/ /\ r # None /\ ~differs
        /\ Jump(p, stamp(r, next(seen(r), c.resync))) /\ NoWrite /\ UNCHANGED prIds

\* Rows no listed file stands for are deleted.
Unseen(c) == (DOMAIN c.rows \ c.seen) \cap DOMAIN prRows

PruneProfiles(p) ==
  LET c == prPc[p] IN
  /\ c.at = "docs" /\ c.todo = {} /\ Still /\ UNCHANGED <<prIds, prPc>>
  /\ \E r \in Unseen(c) : Deleted(p, r)

\* What the reconcile still writes: the files of the rows that followed an
\* edit, but not the default's.
SyncJobs(c) == {Doc(r, c.resync[r]) : r \in {x \in DOMAIN c.resync :
                  ~c.resync[x].def /\ \E f \in DOMAIN prFiles : prFiles[f].id = x}}

\* The loops are over: agents and files follow what was updated.
Syncing(resync, unflagged) == [at |-> "sync", resync |-> resync, unflagged |-> unflagged]

\* Mutant: the default of the table wins over the file that is flagged.
KeepDefault(p) ==
  LET c == prPc[p] IN
  /\ c.at = "docs" /\ c.todo = {} /\ Unseen(c) = {} /\ Still /\ UNCHANGED <<follower, prIds>>
  /\ Jump(p, Syncing(c.resync, FALSE)) /\ NoWrite

\* The first listed file flagged default is the default, by the id it had in
\* the listing: SetDefaultProfile of a file that had none finds no row.
MoveDefault(p) ==
  LET c == prPc[p]
      flagged == {f \in DOMAIN c.docs : c.docs[f].def}
      want == c.docs[FirstOf(c.docs, flagged)].id
      moved == flagged # {} /\ want \in DOMAIN prRows
  IN
  /\ c.at = "docs" /\ c.todo = {} /\ Unseen(c) = {} /\ Still /\ UNCHANGED <<follower, prIds>>
  /\ Jump(p, Syncing(c.resync, moved /\ want \in DOMAIN c.resync /\ ~c.resync[want].def))
  /\ IF moved THEN Save(p, WithDefault(prRows, want), prFiles) ELSE NoWrite

\* Agents follow what was synced.
Resync(p) ==
  LET c == prPc[p] IN
  /\ c.at = "sync" /\ Still /\ NoWrite /\ UNCHANGED prIds
  /\ follower' = IF follower.profile \in DOMAIN c.resync
                   THEN [follower EXCEPT !.text = c.resync[follower.profile].text] ELSE follower
  /\ Jump(p, Write(SyncJobs(c), [at |-> "end", unflagged |-> c.unflagged]))

End(p) ==
  /\ prPc[p].at = "end" /\ Jump(p, Rest)
  /\ prSettled' = IF p \notin prAlone THEN "no"
                  ELSE IF prPc[p].unflagged THEN "unflagged" ELSE "wholly"
  /\ prAlone' = prAlone \ {p}
  /\ Still /\ UNCHANGED <<prRows, prFiles, follower, prIds>>

----------------------------------------------------------------------------
\* A person edits a prompt file, moves the default flag, or adds or removes one.
HandEditPrompt(n, t, def) ==
  LET s == Slug[n]
      old == IF s \in DOMAIN prFiles THEN prFiles[s].id ELSE None IN
  /\ s # None /\ handEdits < MaxHandEdits /\ handEdits' = handEdits + 1
  /\ s \in DOMAIN prFiles => prFiles[s].name = n
  /\ prFiles' = With(prFiles, s, [id |-> old, name |-> n, text |-> t, def |-> def])
  /\ prAlone' = {} /\ prSettled' = "no"
  /\ UNCHANGED <<prRows, follower, prPc, prIds, prEdits, restarts>>

HandDeletePrompt(s) ==
  /\ s \in DOMAIN prFiles /\ handEdits < MaxHandEdits /\ handEdits' = handEdits + 1
  /\ prFiles' = Without(prFiles, {s})
  /\ prAlone' = {} /\ prSettled' = "no"
  /\ UNCHANGED <<prRows, follower, prPc, prIds, prEdits, restarts>>

\* The process dies between any two steps.  Manager.Start seeds the default
\* profile when there is none, before anything else runs.
Restart ==
  LET slug == Slug[Seed.name] IN
  /\ restarts < MaxRestarts /\ restarts' = restarts + 1
  /\ prPc' = [p \in PProcs |-> Rest] /\ prAlone' = {} /\ prSettled' = "no"
  /\ IF prRows # Nothing THEN UNCHANGED <<prRows, prFiles, prIds>>
     ELSE /\ prIds < MaxPIds /\ prIds' = prIds + 1
          /\ prRows' = With(Nothing, prIds + 1, Seed)
          /\ prFiles' = IF slug \in DOMAIN prFiles THEN prFiles
                        ELSE With(prFiles, slug, Doc(prIds + 1, Seed))
  /\ UNCHANGED <<follower, prEdits, handEdits>>

PStep(p) ==
  \/ TakeOld(p) \/ WriteNew(p) \/ Follow(p) \/ SetDefault(p) \/ MirrorAll(p)
  \/ DeleteProfile(p) \/ UnlinkPrompt(p) \/ ListProfiles(p) \/ ReconcilePrompt(p)
  \/ PruneProfiles(p) \/ MoveDefault(p) \/ Resync(p) \/ End(p)
  \/ \E n \in PNames, t \in PTexts : \/ InsertProfile(p, n, t)
                                     \/ \E b \in BOOLEAN : UpdateProfile(p, n, t, b)

PNext ==
  \/ \E p \in PProcs :
       \/ PStep(p) \/ CreateProfile(p) \/ ResolveAgent(p) \/ ListPrompts(p)
       \/ \E op \in {"update", "delete"}, id \in 1..MaxPIds : ReadProfile(p, op, id)
  \/ \E n \in PNames, t \in PTexts, b \in BOOLEAN : HandEditPrompt(n, t, b)
  \/ \E n \in PNames : HandDeletePrompt(Slug[n])
  \/ Restart

PSpec == PInit /\ [][PNext]_pvars

----------------------------------------------------------------------------
FlagFollowed ==
  LET flagged == {f \in DOMAIN prFiles : prFiles[f].def} IN
  flagged # {} => LET id == prFiles[FirstOf(prFiles, flagged)].id IN
                  id \in DOMAIN prRows => prRows[id].def

\* A reconcile nobody disturbs leaves the index equal to the files: every file
\* has a row that says the same, or what the file said before it was written
\* again, every row a file, and the file flagged default, if it carries an id,
\* is the default; unless the reconcile itself took the flag from the file by
\* which it moved the default (reconcilePrompts).
ProfilesAgree ==
  prSettled # "no" /\ (\A f, g \in DOMAIN prFiles : f # g =>
                          prFiles[f].id # prFiles[g].id \/ prFiles[f].id = None) =>
    /\ \A f \in DOMAIN prFiles : \E r \in DOMAIN prRows :
         /\ prRows[r].name = prFiles[f].name
         /\ ReadPrompt(prFiles[f]).text \in {prRows[r].text, PKept[prRows[r].text]}
    /\ \A r \in DOMAIN prRows : \E f \in DOMAIN prFiles : prRows[r].name = prFiles[f].name
    /\ prSettled = "wholly" => FlagFollowed

\* The same without the exception: the comment "the first file flagging
\* default=true wins over the row index's notion" of reconcilePrompts.  Violated
\* by an edit that also changes what the profile says.
DefaultFollows ==
  prSettled # "no" /\ (\A f, g \in DOMAIN prFiles : f # g =>
                          prFiles[f].id # prFiles[g].id \/ prFiles[f].id = None) => FlagFollowed

\* While nothing is in flight, and as long as nobody touched the files by hand
\* and the process did not die, there is a default profile (spec.md A17:
\* "exactly one profile is the default").  Violated: the README says how.
DefaultExists == (\A p \in PProcs : prPc[p] = Rest) /\ handEdits = 0 /\ restarts = 0 =>
                   \E r \in DOMAIN prRows : prRows[r].def
=============================================================================
