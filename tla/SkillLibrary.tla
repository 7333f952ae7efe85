---------------------------- MODULE SkillLibrary ----------------------------
(***************************************************************************)
(* The skill library: SKILL.md files are the record and the rows of the    *)
(* skills table their index.  A mutation through the API or a model's tool *)
(* commits a row and then writes the file back; reconcileSkills, started   *)
(* by every turn and every listing, reads the files, then the rows, and    *)
(* makes the rows follow the files.  Nothing serialises the two: every     *)
(* transaction and every file operation below is a step of its own.        *)
(* A name stands for a skill name and its directory, a text for body,      *)
(* description and auto flag together; extras of the frontmatter are left  *)
(* out, and a hand edit never changes the name or the id in a file.        *)
(***************************************************************************)
EXTENDS Naturals, FiniteSets, FiniteSetsExt

CONSTANTS Names,      \* skill names, numbers: files are visited in order
          Texts,      \* what a skill may say
          Bodies,     \* those of Texts that people and models write
          Kept,       \* Texts -> Texts: what is read back of a text that was written
          Hosts,      \* labels of client hosts
          Procs,      \* requests and turns in flight
          MaxIds,     \* bound: rows ever created
          MaxEdits,   \* bound: mutations, by API, tool, client or editor
          MaxCrashes  \* bound: restarts of the hub

ASSUME SkillAssumption == Names \subseteq Nat /\ Bodies \subseteq Texts /\ Kept \in [Texts -> Texts]

VARIABLES skRows,     \* index: id -> [name, text]
          skFiles,    \* directories holding a readable SKILL.md -> [id, text], as written
          hostDir,    \* skills/hosts/<label>: the scanned names
          hostNew,    \* skills/hosts/<label>.new while a scan is stored
          skPc,       \* where each request is, with its local variables
          skIds,      \* ids handed out so far
          skEdits, skCrashes,
          alone,      \* reconciles during which nobody else changed anything, begun
                      \* with no name crossed
          settled     \* the last change was made by a reconcile of its own
vars == <<skRows, skFiles, hostDir, hostNew, skPc, skIds, skEdits, skCrashes, alone, settled>>

NoId == 0
Idle == [at |-> "idle"]
IdSet == 1..MaxIds
Put(f, k, v) == [x \in DOMAIN f \cup {k} |-> IF x = k THEN v ELSE f[x]]
Drop(f, S)   == [x \in DOMAIN f \ S |-> f[x]]
Empty == [x \in {} |-> x]

Init == /\ skRows = Empty /\ skFiles = Empty
        /\ hostDir = [h \in Hosts |-> {}] /\ hostNew = [h \in Hosts |-> {}]
        /\ skPc = [p \in Procs |-> Idle]
        /\ skIds = 0 /\ skEdits = 0 /\ skCrashes = 0
        /\ alone = {} /\ settled = FALSE

----------------------------------------------------------------------------
(* The table and the files, one operator per transaction or file call. *)

\* renderSkillDoc and readSkillDoc: the frontmatter keeps the id, the body
\* comes back without the newlines at its end and without the first of those
\* in front, so a body that begins with more loses another every time.
SkillFile(id, t) == [id |-> id, text |-> t]
ReadDoc(f) == [id |-> f.id, text |-> Kept[f.text]]

NameTaken(n, id) == \E r \in DOMAIN skRows \ {id} : skRows[r].name = n

\* Rows and files as they are after a step of p; a step that changes either
\* disturbs every other reconcile under way.
Commit(p, rows, files) ==
  /\ skRows' = rows /\ skFiles' = files
  /\ IF rows # skRows \/ files # skFiles
       THEN alone' = alone \cap {p} /\ settled' = FALSE
       ELSE UNCHANGED <<alone, settled>>

Goto(p, rec) == skPc' = [skPc EXCEPT ![p] = rec]

\* store.CreateSkill: the row is inserted under a new id, with which p goes on,
\* or the name is taken.
InsertRow(p, n, t, onDone, onTaken) ==
  IF NameTaken(n, NoId)
    THEN /\ Goto(p, onTaken) /\ UNCHANGED <<skRows, skFiles, skIds, alone, settled>>
    ELSE /\ skIds < MaxIds /\ skIds' = skIds + 1
         /\ Commit(p, Put(skRows, skIds + 1, [name |-> n, text |-> t]), skFiles)
         /\ Goto(p, [onDone EXCEPT !.id = skIds + 1])

\* store.UpdateSkill refuses a row that is gone and a name that is taken.
Updatable(id, n) == id \in DOMAIN skRows /\ ~NameTaken(n, id)

Static == UNCHANGED <<hostDir, hostNew, skEdits, skCrashes>>

----------------------------------------------------------------------------
(* Mutations through the API and the model's tools. *)

\* What mirrorSkillFile writes for row id, and where the old copy was.
MirrorOf(id, n, t, from, then) ==
  [at |-> "mirror", id |-> id, name |-> n, text |-> t, from |-> from, then |-> then]

StartEdit == skEdits < MaxEdits /\ skEdits' = skEdits + 1

\* Manager.CreateSkill commits the row; the file is written by Mirror.
CreateSkill(p, n, t) ==
  /\ skPc[p] = Idle /\ StartEdit
  /\ InsertRow(p, n, t, MirrorOf(NoId, n, t, n, "none"), Idle)
  /\ UNCHANGED <<hostDir, hostNew, skCrashes>>

\* Manager.ImportHostSkill: a scanned skill becomes a managed one.
ImportHostSkill(p, h, n) ==
  /\ skPc[p] = Idle /\ StartEdit /\ n \in hostDir[h]
  /\ \E t \in Bodies : InsertRow(p, n, t, MirrorOf(NoId, n, t, n, "none"), Idle)
  /\ UNCHANGED <<hostDir, hostNew, skCrashes>>

\* UpdateSkill, PutRawSkill and DeleteSkill first read the row they change.
\* What an update says is fixed when it is first used.
Begin(p, op, id) ==
  /\ skPc[p] = Idle /\ StartEdit /\ id \in DOMAIN skRows
  /\ Goto(p, [at |-> op, id |-> id, from |-> skRows[id].name])
  /\ UNCHANGED <<skRows, skFiles, hostDir, hostNew, skIds, skCrashes, alone, settled>>

\* Manager.UpdateSkill: the row now, then its file, which moves with a rename.
UpdateSkill(p, n, t) ==
  LET c == skPc[p] IN
  /\ c.at \in {"update", "raw"} /\ Static /\ UNCHANGED skIds
  /\ IF Updatable(c.id, n)
       THEN /\ Commit(p, Put(skRows, c.id, [name |-> n, text |-> t]), skFiles)
            /\ Goto(p, MirrorOf(c.id, n, t, c.from, c.at))
       ELSE Goto(p, Idle) /\ UNCHANGED <<skRows, skFiles, alone, settled>>

DeleteSkill(p) ==
  LET c == skPc[p] IN
  /\ c.at = "delete" /\ Static /\ UNCHANGED skIds
  /\ Commit(p, Drop(skRows, {c.id}), skFiles)
  /\ Goto(p, IF c.id \in DOMAIN skRows THEN [at |-> "unlink", name |-> c.from] ELSE Idle)

\* Library.WriteSkill: the file is replaced atomically; the directory of the
\* old name goes in a step of its own.
Mirror(p) ==
  LET c == skPc[p] IN
  /\ c.at = "mirror" /\ Static /\ UNCHANGED skIds
  /\ Commit(p, skRows, Put(skFiles, c.name, SkillFile(c.id, c.text)))
  /\ Goto(p, CASE c.from # c.name -> [c EXCEPT !.at = "sweep"]
               [] c.then = "raw" -> [c EXCEPT !.then = "none"]
               [] OTHER -> Idle)

\* PutRawSkill writes the file a second time, once UpdateSkill has returned.
Sweep(p) ==
  LET c == skPc[p] IN
  /\ c.at = "sweep" /\ Static /\ UNCHANGED skIds
  /\ Commit(p, skRows, Drop(skFiles, {c.from}))
  /\ Goto(p, IF c.then = "raw" THEN [c EXCEPT !.at = "mirror", !.then = "none"] ELSE Idle)

\* removeSkillFile, after the row is gone.
Unlink(p) ==
  /\ skPc[p].at = "unlink" /\ Static /\ UNCHANGED skIds
  /\ Commit(p, skRows, Drop(skFiles, {skPc[p].name}))
  /\ Goto(p, Idle)

----------------------------------------------------------------------------
(* reconcileSkills, alone or as the first half of a tool that names a skill. *)

\* A renaming was cut short: another row holds the name of a file's own row.
Crossed == \E n \in DOMAIN skFiles, r \in DOMAIN skRows :
             /\ skRows[r].name = n /\ r # skFiles[n].id
             /\ skFiles[n].id \in DOMAIN skRows

\* Mutant: a listing is skipped when there are as many rows as files.
ListIfCountDiffers(p, want) ==
  /\ skPc[p] = Idle /\ Cardinality(DOMAIN skRows) # Cardinality(DOMAIN skFiles)
  /\ IF want = "list" THEN UNCHANGED skEdits ELSE StartEdit
  /\ Goto(p, [at |-> "rows", want |-> want,
              docs |-> [n \in DOMAIN skFiles |-> ReadDoc(skFiles[n])]])
  /\ alone' = IF Crossed THEN alone ELSE alone \cup {p}
  /\ UNCHANGED <<skRows, skFiles, hostDir, hostNew, skIds, skCrashes, settled>>

\* Library.ListSkills reads the files; `want` is what the caller does after.
ListFiles(p, want) ==
  /\ skPc[p] = Idle
  /\ IF want = "list" THEN UNCHANGED skEdits ELSE StartEdit
  /\ Goto(p, [at |-> "rows", want |-> want,
              docs |-> [n \in DOMAIN skFiles |-> ReadDoc(skFiles[n])]])
  /\ alone' = IF Crossed THEN alone ELSE alone \cup {p}
  /\ UNCHANGED <<skRows, skFiles, hostDir, hostNew, skIds, skCrashes, settled>>

ListRows(p) ==
  LET c == skPc[p] IN
  /\ c.at = "rows" /\ Static
  /\ Goto(p, [at |-> "docs", docs |-> c.docs, rows |-> skRows, todo |-> DOMAIN c.docs,
              seen |-> {}, want |-> c.want])
  /\ UNCHANGED <<skRows, skFiles, skIds, alone, settled>>

\* Mutant: a file is matched to its row by id only.
RowOfIdOnly(c, n) == IF c.docs[n].id \in DOMAIN c.rows THEN c.docs[n].id ELSE NoId

\* The row a file belongs to: by its id, else by its name.
RowOf(c, n) ==
  IF c.docs[n].id \in DOMAIN c.rows THEN c.docs[n].id
  ELSE LET same == {r \in DOMAIN c.rows : c.rows[r].name = n}
       IN  IF same = {} THEN NoId ELSE CHOOSE r \in same : TRUE

\* What UpdateSkill makes of row r for a file of name n: the name is part of
\* the patch only when it is not that of the listed row.
Patched(c, r, n) == [name |-> IF c.rows[r].name = n THEN skRows[r].name ELSE n,
                     text |-> c.docs[n].text]

\* One file of the listing: adopted, synced to its row, or left as it is.
Reconcile(p) ==
  LET c == skPc[p]
      n == Min(c.todo)
      d == c.docs[n]
      r == RowOf(c, n)
      next == [c EXCEPT !.todo = @ \ {n}]
      stamp(id) == [at |-> "stamp", docs |-> c.docs, rows |-> c.rows, todo |-> c.todo \ {n},
                    seen |-> c.seen, want |-> c.want, file |-> n, id |-> id]
      seen == [next EXCEPT !.seen = @ \cup {r}]
      differs == c.rows[r] # [name |-> n, text |-> d.text]
      stale == d.id # r \/ c.rows[r].name # n
  IN
  /\ c.at = "docs" /\ c.todo # {} /\ Static
  /\ \/ r = NoId /\ InsertRow(p, n, d.text, stamp(NoId), next)
     \/ /\ r # NoId /\ differs /\ ~Updatable(r, Patched(c, r, n).name)
        /\ Goto(p, seen) /\ UNCHANGED <<skRows, skFiles, skIds, alone, settled>>
     \/ /\ r # NoId /\ (differs => Updatable(r, Patched(c, r, n).name))
        /\ Commit(p, IF differs THEN Put(skRows, r, Patched(c, r, n)) ELSE skRows, skFiles)
        /\ Goto(p, IF stale THEN stamp(r) ELSE seen)
        /\ UNCHANGED skIds

\* WriteSkill with the id of the row: text and place are those of the listing.
Stamp(p) ==
  LET c == skPc[p] IN
  /\ c.at = "stamp" /\ Static /\ UNCHANGED skIds
  /\ Commit(p, skRows, Put(skFiles, c.file, SkillFile(c.id, c.docs[c.file].text)))
  /\ Goto(p, [at |-> "docs", docs |-> c.docs, rows |-> c.rows, todo |-> c.todo,
              seen |-> c.seen \cup {c.id}, want |-> c.want])

\* Rows no file of the listing stands for are deleted, then the listing ends.
Prune(p) ==
  LET c == skPc[p]
      gone == (DOMAIN c.rows \ c.seen) \cap DOMAIN skRows
  IN
  /\ c.at = "docs" /\ c.todo = {} /\ Static /\ UNCHANGED skIds
  /\ IF gone # {}
       THEN \E r \in gone : Commit(p, Drop(skRows, {r}), skFiles) /\ UNCHANGED skPc
       ELSE /\ Goto(p, [at |-> "after", want |-> c.want])
            /\ settled' = (p \in alone) /\ UNCHANGED <<skRows, skFiles, alone>>

\* The listing is returned.  switchboard.skill.set and .delete look a name up
\* in it and go on with its id; set creates what it does not find.
After(p, n) ==
  LET want == skPc[p].want
      hit == {r \in DOMAIN skRows : want # "list" /\ skRows[r].name = n}
  IN
  /\ skPc[p].at = "after" /\ Static
  /\ alone' = alone \ {p} /\ UNCHANGED <<skRows, skFiles, settled, skIds>>
  /\ Goto(p, CASE hit # {} -> [at |-> want, id |-> CHOOSE r \in hit : TRUE, from |-> n]
               [] hit = {} /\ want = "update" -> [at |-> "create", name |-> n]
               [] OTHER -> Idle)

CreateAfter(p, t) ==
  LET n == skPc[p].name IN
  /\ skPc[p].at = "create" /\ Static
  /\ InsertRow(p, n, t, MirrorOf(NoId, n, t, n, "none"), Idle)

----------------------------------------------------------------------------
(* Client scans, a text editor, and the end of the process. *)

\* Library.PutHostSkills: the new set is written aside, then swapped in.
StageHost(p, h, S) ==
  /\ skPc[p] = Idle /\ StartEdit
  /\ hostNew' = [hostNew EXCEPT ![h] = S]
  /\ Goto(p, [at |-> "swap", host |-> h])
  /\ UNCHANGED <<skRows, skFiles, hostDir, skIds, skCrashes, alone, settled>>

SwapHost(p) ==
  LET h == skPc[p].host IN
  /\ skPc[p].at = "swap"
  /\ \/ hostDir[h] # {} /\ hostDir' = [hostDir EXCEPT ![h] = {}] /\ UNCHANGED <<skPc, hostNew>>
     \/ /\ hostDir[h] = {} /\ Goto(p, Idle)
        /\ hostDir' = [hostDir EXCEPT ![h] = hostNew[h]]
        /\ hostNew' = [hostNew EXCEPT ![h] = {}]
  /\ UNCHANGED <<skRows, skFiles, skIds, skEdits, skCrashes, alone, settled>>

\* A person edits, adds or removes a SKILL.md with a text editor.
HandEdit(n, t) ==
  /\ StartEdit
  /\ skFiles' = Put(skFiles, n, SkillFile(IF n \in DOMAIN skFiles THEN skFiles[n].id ELSE NoId, t))
  /\ alone' = {} /\ settled' = FALSE
  /\ UNCHANGED <<skRows, hostDir, hostNew, skPc, skIds, skCrashes>>

HandDelete(n) ==
  /\ StartEdit /\ n \in DOMAIN skFiles
  /\ skFiles' = Drop(skFiles, {n})
  /\ alone' = {} /\ settled' = FALSE
  /\ UNCHANGED <<skRows, hostDir, hostNew, skPc, skIds, skCrashes>>

\* The process dies between any two steps and is started again.
Die ==
  /\ skCrashes < MaxCrashes /\ skCrashes' = skCrashes + 1
  /\ skPc' = [p \in Procs |-> Idle] /\ alone' = {}
  /\ UNCHANGED <<skRows, skFiles, hostDir, hostNew, skIds, skEdits, settled>>

Step(p) ==
  \/ DeleteSkill(p) \/ Mirror(p) \/ Sweep(p) \/ Unlink(p) \/ SwapHost(p)
  \/ ListRows(p) \/ Reconcile(p) \/ Stamp(p) \/ Prune(p)
  \/ \E n \in Names : After(p, n) \/ \E t \in Bodies : UpdateSkill(p, n, t)
  \/ \E t \in Bodies : CreateAfter(p, t)

Next ==
  \/ \E p \in Procs :
       \/ Step(p)
       \/ \E n \in Names, t \in Bodies : CreateSkill(p, n, t)
       \/ \E op \in {"update", "raw", "delete"}, id \in IdSet : Begin(p, op, id)
       \/ \E want \in {"list", "update", "delete"} : ListFiles(p, want)
       \/ \E h \in Hosts : \/ \E S \in SUBSET Names : StageHost(p, h, S)
                           \/ \E n \in Names : ImportHostSkill(p, h, n)
  \/ \E n \in Names : HandDelete(n) \/ \E t \in Bodies : HandEdit(n, t)
  \/ Die

\* Requests run to their end, and the library keeps being read: every turn
\* and every listing starts a reconcile.
Fairness == \A p \in Procs : WF_vars(Step(p)) /\ WF_vars(ListFiles(p, "list"))

Spec == Init /\ [][Next]_vars /\ Fairness

----------------------------------------------------------------------------
\* Two directories carry the id of one row.
Duplicated == \E a, b \in DOMAIN skFiles :
                a # b /\ skFiles[a].id = skFiles[b].id /\ skFiles[a].id # NoId

\* The index says what the files say, file by file and row by row.
EachHasItsRow ==
  /\ \A n \in DOMAIN skFiles : skFiles[n].id \in DOMAIN skRows /\ skRows[skFiles[n].id].name = n
  /\ \A r \in DOMAIN skRows : skRows[r].name \in DOMAIN skFiles
IndexIsFiles ==
  /\ EachHasItsRow
  /\ \A n \in DOMAIN skFiles : skRows[skFiles[n].id].text = ReadDoc(skFiles[n]).text

\* A reconcile nobody disturbs leaves the index equal to the files, whatever
\* crashed requests and hand edits left behind: every file is indexed under
\* the id it carries with what it says, or with what it said before the id was
\* written into it, and every other row is gone (reconcileSkills).
AloneAgrees ==
  settled /\ ~Duplicated =>
    /\ EachHasItsRow
    /\ \A n \in DOMAIN skFiles : LET said == skRows[skFiles[n].id].text IN
         ReadDoc(skFiles[n]).text \in {said, Kept[said]}

\* Once edits stop, concurrent reconciles do not keep undoing one another: the
\* index agrees with the files for good, unless a rename left two directories
\* with one id (reconcileSkills, started by every turn), or, in the model, a
\* reconcile needs one id more than there are.
OutOfIds == /\ skIds = MaxIds
            /\ \E p \in Procs : /\ skPc[p].at = "docs"
                               /\ \E n \in skPc[p].todo : RowOf(skPc[p], n) = NoId
Settles == <>[](IndexIsFiles \/ Duplicated \/ Crossed \/ OutOfIds)

\* When no request is in flight a skill has one directory: what the comment
\* "the two never drift while the hub runs" promises of a rename.  Violated: the README says how.
OneDirectory == (\A p \in Procs : skPc[p] = Idle) /\ skCrashes = 0 => ~Duplicated
=============================================================================
