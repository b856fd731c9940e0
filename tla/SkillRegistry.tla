---------------------------- MODULE SkillRegistry ----------------------------
(***************************************************************************)
(* The life of a skill: upload_skill takes a package through its checks    *)
(* and stores it, operators approve or reject it, and runs of the agent    *)
(* load its instructions and run its scripts.                              *)
(*                                                                         *)
(* Every commit and every fresh read is a step.  Uploads are coroutines;   *)
(* approve and reject are plain functions that the server runs in threads, *)
(* so they come between any two commits.  A session keeps the attributes   *)
(* it has read for as long as somebody holds the object                    *)
(* (expire_on_commit=False).                                               *)
(***************************************************************************)
EXTENDS Naturals, FiniteSets

CONSTANTS
  Names,      \* skill names; a name identifies its row
  Scripts,    \* paths of Python scripts under scripts/
  Packages,   \* the packages that may be uploaded
  Uploads,    \* requests to upload
  Reviewers,  \* requests to approve or reject
  Runs,       \* runs of the agent
  None        \* no name, no upload

\* What the checks find in a package: valid for parse_package, malicious for
\* the static scan, topical when its taxonomy score is at least 0.25.
Package == [name : Names, valid : BOOLEAN, malicious : BOOLEAN,
            topical : BOOLEAN, scripts : SUBSET Scripts]

ASSUME PackagesAssumption == Packages \subseteq Package
ASSUME NoneAssumption == None \notin Names \cup Uploads

VARIABLES
  pack,       \* the package of each upload
  upc,        \* where each upload is, or how it was answered
  judged,     \* did the LLM judge give it 0.5 or more?
  manifest,   \* status of each entry of its script_manifest
  verdict,    \* the status the upload is about to settle
  row,        \* the upload whose package a skills row holds
  status,     \* skills.status
  flag,       \* skills.is_malicious
  rpc,        \* where each review is, or how it was answered
  target,     \* the skill it is about
  seen,       \* the status its session holds
  at,         \* where each run is
  held,       \* its selected skill
  cached,     \* does its session still hold the selected skill's object?
  offered,    \* the skills in the tool catalog of the turn
  asked,      \* the skill the model asks for
  used,       \* the skills whose instructions were given to a model
  ran         \* the scripts that were started

uploadVars == <<pack, upc, judged, manifest, verdict>>
rowVars    == <<row, status, flag>>
reviewVars == <<rpc, target, seen>>
runVars    == <<at, held, cached, offered, asked>>
vars == <<uploadVars, rowVars, reviewVars, runVars, used, ran>>

UploadAnswer == {"pending", "rejected", "conflict", "invalid"}
UploadBusy   == {"judge", "smoke", "store", "settle"}
Entry        == {"absent", "pending_sandbox", "passed", "failed"}
SkillStatus  == {"uploaded", "testing", "ready", "rejected"}
ReviewBusy   == {"approving", "rejecting"}
ReviewAnswer == {"approved", "rejected", "refused"}

TypeOK ==
  /\ pack \in [Uploads -> Packages]
  /\ upc \in [Uploads -> {"idle", "gone"} \cup UploadBusy \cup UploadAnswer]
  /\ judged \in [Uploads -> BOOLEAN]
  /\ manifest \in [Uploads -> [Scripts -> Entry]]
  /\ \A u \in Uploads, s \in Scripts :
       manifest[u][s] # "absent" => s \in pack[u].scripts
  /\ verdict \in [Uploads -> {"none", "testing", "rejected"}]
  /\ row \in [Names -> Uploads \cup {None}]
  /\ status \in [Names -> SkillStatus \cup {"absent"}]
  /\ flag \in [Names -> BOOLEAN]
  /\ rpc \in [Reviewers -> {"idle", "gone"} \cup ReviewBusy \cup ReviewAnswer]
  /\ target \in [Reviewers -> Names \cup {None}]
  /\ seen \in [Reviewers -> SkillStatus \cup {"absent"}]
  /\ at \in [Runs -> {"idle", "turn", "model", "load", "script", "ended"}]
  /\ held \in [Runs -> Names \cup {None}]
  /\ cached \in [Runs -> BOOLEAN]
  /\ offered \in [Runs -> SUBSET Names]
  /\ asked \in [Runs -> Names \cup {None}]
  /\ used \subseteq Names
  /\ ran \subseteq Names \X Scripts

-----------------------------------------------------------------------------
(***************************************************************************)
(* Upload.                                                                 *)
(***************************************************************************)
NameOf(u) == pack[u].name

\* Parse, look the name up, scan.  What fails the scan is stored as rejected.
Receive(u) ==
  /\ upc[u] = "idle"
  /\ \/ /\ ~pack[u].valid
        /\ upc' = [upc EXCEPT ![u] = "invalid"]
        /\ UNCHANGED verdict
     \/ /\ pack[u].valid /\ row[NameOf(u)] # None
        /\ upc' = [upc EXCEPT ![u] = "conflict"]
        /\ UNCHANGED verdict
     \/ /\ pack[u].valid /\ row[NameOf(u)] = None /\ pack[u].malicious
        /\ upc' = [upc EXCEPT ![u] = "store"]
        /\ verdict' = [verdict EXCEPT ![u] = "rejected"]
     \/ /\ pack[u].valid /\ row[NameOf(u)] = None /\ ~pack[u].malicious
        /\ upc' = [upc EXCEPT ![u] = "judge"]
        /\ UNCHANGED verdict
  /\ UNCHANGED <<pack, judged, manifest, rowVars, reviewVars, runVars, used, ran>>

\* Mutant: entries are taken from the analyzer's proposal, whatever it names.
Proposed_AnyPath(u) == [s \in Scripts |-> "pending_sandbox"]

\* The entries of the first manifest: the package's own scripts.
Proposed(u) ==
  [s \in Scripts |-> IF s \in pack[u].scripts THEN "pending_sandbox" ELSE "absent"]

\* The judge's answer; a judge that fails counts as a score of 0.
Judge(u) ==
  /\ upc[u] = "judge"
  /\ \E good \in BOOLEAN :
       /\ judged' = [judged EXCEPT ![u] = good]
       /\ IF pack[u].topical \/ good
            THEN /\ upc' = [upc EXCEPT ![u] = "smoke"]
                 /\ manifest' = [manifest EXCEPT ![u] = Proposed(u)]
                 /\ UNCHANGED verdict
            ELSE /\ upc' = [upc EXCEPT ![u] = "store"]
                 /\ verdict' = [verdict EXCEPT ![u] = "rejected"]
                 /\ UNCHANGED manifest
  /\ UNCHANGED <<pack, rowVars, reviewVars, runVars, used, ran>>

\* The manifests a smoke test may leave.  Exit code, output contract and an
\* exception of the executor decide per script; without a sandbox all pass.
Tested(u) ==
  {m \in [Scripts -> Entry] : \A s \in Scripts :
     m[s] \in IF s \in pack[u].scripts THEN {"passed", "failed"} ELSE {"absent"}}

\* Mutant: a script that passes wipes out the failure of another one.
Smoke_LastWins(u) ==
  /\ upc[u] = "smoke"
  /\ \E m \in Tested(u) :
       /\ manifest' = [manifest EXCEPT ![u] = m]
       /\ verdict' = [verdict EXCEPT ![u] =
            IF pack[u].scripts = {} \/ \E s \in Scripts : m[s] = "passed"
              THEN "testing" ELSE "rejected"]
  /\ upc' = [upc EXCEPT ![u] = "store"]
  /\ UNCHANGED <<pack, judged, rowVars, reviewVars, runVars, used, ran>>

\* The verdict of the smoke test.
Smoke(u) ==
  /\ upc[u] = "smoke"
  /\ \E m \in Tested(u) :
       /\ manifest' = [manifest EXCEPT ![u] = m]
       /\ verdict' = [verdict EXCEPT ![u] =
            IF \E s \in Scripts : m[s] = "failed" THEN "rejected" ELSE "testing"]
  /\ upc' = [upc EXCEPT ![u] = "store"]
  /\ UNCHANGED <<pack, judged, rowVars, reviewVars, runVars, used, ran>>

\* Mutant: the insert updates the row that has the name.
Store_Upsert(u) ==
  /\ upc[u] = "store"
  /\ upc' = [upc EXCEPT ![u] = "settle"]
  /\ row' = [row EXCEPT ![NameOf(u)] = u]
  /\ status' = [status EXCEPT ![NameOf(u)] = "uploaded"]
  /\ flag' = [flag EXCEPT ![NameOf(u)] = FALSE]
  /\ UNCHANGED <<pack, judged, manifest, verdict, reviewVars, runVars, used, ran>>

\* create_uploaded_skill commits an "uploaded" row; the unique name decides.
Store(u) ==
  /\ upc[u] = "store"
  /\ IF row[NameOf(u)] # None
       THEN /\ upc' = [upc EXCEPT ![u] = "conflict"]
            /\ UNCHANGED rowVars
       ELSE /\ upc' = [upc EXCEPT ![u] = "settle"]
            /\ row' = [row EXCEPT ![NameOf(u)] = u]
            /\ status' = [status EXCEPT ![NameOf(u)] = "uploaded"]
            /\ flag' = [flag EXCEPT ![NameOf(u)] = FALSE]
  /\ UNCHANGED <<pack, judged, manifest, verdict, reviewVars, runVars, used, ran>>

\* update_sandbox_result: the second commit, whatever the row says by then.
Settle(u) ==
  /\ upc[u] = "settle"
  /\ status' = [status EXCEPT ![NameOf(u)] = verdict[u]]
  /\ flag' = [flag EXCEPT ![NameOf(u)] = pack[u].malicious]
  /\ upc' = [upc EXCEPT ![u] = IF verdict[u] = "testing" THEN "pending" ELSE "rejected"]
  /\ UNCHANGED <<pack, judged, manifest, verdict, row, reviewVars, runVars, used, ran>>

Upload(u) == Receive(u) \/ Judge(u) \/ Smoke(u) \/ Store(u) \/ Settle(u)

-----------------------------------------------------------------------------
(***************************************************************************)
(* Review.                                                                 *)
(***************************************************************************)
\* Entries of a stored manifest that did not pass.
Unapproved(n) == {s \in Scripts : manifest[row[n]][s] \in {"pending_sandbox", "failed"}}

\* Mutant: only the scripts are looked at.
Approvable_AnyStatus(n) == Unapproved(n) = {}

\* Mutant: a skill may be approved before its checks are recorded.
Approvable_NotRejected(n) == status[n] \in {"uploaded", "testing"} /\ Unapproved(n) = {}

\* Ready for approval: automatic checks recorded, no script that did not pass.
Approvable(n) == status[n] = "testing" /\ Unapproved(n) = {}

\* The reads of approve_skill_for_agent and reject_skill_after_review.
OpenReview(r, n) ==
  /\ rpc[r] = "idle" /\ row[n] # None
  /\ \E answer \in {"rejecting", IF Approvable(n) THEN "approving" ELSE "refused"} :
       rpc' = [rpc EXCEPT ![r] = answer]
  /\ target' = [target EXCEPT ![r] = n]
  /\ seen' = [seen EXCEPT ![r] = status[n]]
  /\ UNCHANGED <<uploadVars, rowVars, runVars, used, ran>>

\* Their commit.  An attribute that is set to the value the session holds is
\* not written.
CommitReview(r) ==
  /\ rpc[r] \in ReviewBusy
  /\ LET answer == IF rpc[r] = "approving" THEN "ready" ELSE "rejected"
     IN  status' = [status EXCEPT ![target[r]] = IF seen[r] = answer THEN @ ELSE answer]
  /\ rpc' = [rpc EXCEPT ![r] = IF @ = "approving" THEN "approved" ELSE "rejected"]
  /\ UNCHANGED <<uploadVars, row, flag, target, seen, runVars, used, ran>>

Review(r) == CommitReview(r) \/ \E n \in Names : OpenReview(r, n)

-----------------------------------------------------------------------------
(***************************************************************************)
(* Use by a run.                                                           *)
(***************************************************************************)
ReadySkills == {n \in Names : status[n] = "ready"}

\* run_agent_lifecycle with a selected skill (or none); the generator keeps the
\* object it has read until it ends.
StartRun(x) ==
  /\ at[x] = "idle"
  /\ \E n \in Names \cup {None} :
       /\ at' = [at EXCEPT ![x] = IF n \in ReadySkills \cup {None} THEN "turn" ELSE "ended"]
       /\ held' = [held EXCEPT ![x] = n]
       /\ cached' = [cached EXCEPT ![x] = n \in ReadySkills]
  /\ UNCHANGED <<uploadVars, rowVars, reviewVars, offered, asked, used, ran>>

\* The catalog of a turn: the ready skills, or the selected one.
OpenTurn(x) ==
  /\ at[x] = "turn"
  /\ LET skills == IF held[x] = None THEN ReadySkills ELSE ReadySkills \cap {held[x]}
     IN  /\ offered' = [offered EXCEPT ![x] = skills]
         /\ at' = [at EXCEPT ![x] =
              IF held[x] # None /\ skills = {} THEN "ended" ELSE "model"]
  /\ UNCHANGED <<uploadVars, rowVars, reviewVars, held, cached, asked, used, ran>>

\* The model's answer, planned with the catalog that the turn began with.
AnswerTurn(x) ==
  /\ at[x] = "model"
  /\ \/ /\ at' = [at EXCEPT ![x] = "ended"]
        /\ UNCHANGED asked
     \/ \E n \in offered[x], tool \in {"load", "script"} :
          /\ at' = [at EXCEPT ![x] = tool]
          /\ asked' = [asked EXCEPT ![x] = n]
  /\ UNCHANGED <<uploadVars, rowVars, reviewVars, held, cached, offered, used, ran>>

\* get_skill_by_name returns the object the session holds, as it was read.
StatusRead(x) ==
  IF cached[x] /\ held[x] = asked[x] THEN "ready" ELSE status[asked[x]]

\* load_skill, read_skill_file: an automatic tool, in the run's own session.
LoadSkill(x) ==
  /\ at[x] = "load"
  /\ used' = IF StatusRead(x) = "ready" THEN used \cup {asked[x]} ELSE used
  /\ at' = [at EXCEPT ![x] = "turn"]
  /\ UNCHANGED <<uploadVars, rowVars, reviewVars, held, cached, offered, asked, ran>>

\* run_skill_script: an operator answers; another request runs an approved call,
\* and the rest of the run, in a session of its own.
RunScript(x) ==
  /\ at[x] = "script"
  /\ \/ UNCHANGED ran
     \/ \E s \in Scripts :
          /\ status[asked[x]] = "ready" /\ manifest[row[asked[x]]][s] = "passed"
          /\ ran' = ran \cup {<<asked[x], s>>}
  /\ at' = [at EXCEPT ![x] = "turn"]
  /\ cached' = [cached EXCEPT ![x] = FALSE]
  /\ UNCHANGED <<uploadVars, rowVars, reviewVars, held, offered, asked, used>>

Run(x) == StartRun(x) \/ OpenTurn(x) \/ AnswerTurn(x) \/ LoadSkill(x) \/ RunScript(x)

-----------------------------------------------------------------------------
\* The server stops: what was committed stays, what was under way is gone.
Crash ==
  /\ upc' = [u \in Uploads |-> IF upc[u] \in UploadBusy THEN "gone" ELSE upc[u]]
  /\ rpc' = [r \in Reviewers |-> IF rpc[r] \in ReviewBusy THEN "gone" ELSE rpc[r]]
  /\ at' = [x \in Runs |-> IF at[x] = "idle" THEN "idle" ELSE "ended"]
  /\ UNCHANGED <<pack, judged, manifest, verdict, rowVars, target, seen,
                 held, cached, offered, asked, used, ran>>

Init ==
  /\ pack \in [Uploads -> Packages]
  /\ upc = [u \in Uploads |-> "idle"]
  /\ judged = [u \in Uploads |-> FALSE]
  /\ manifest = [u \in Uploads |-> [s \in Scripts |-> "absent"]]
  /\ verdict = [u \in Uploads |-> "none"]
  /\ row = [n \in Names |-> None]
  /\ status = [n \in Names |-> "absent"]
  /\ flag = [n \in Names |-> FALSE]
  /\ rpc = [r \in Reviewers |-> "idle"]
  /\ target = [r \in Reviewers |-> None]
  /\ seen = [r \in Reviewers |-> "absent"]
  /\ at = [x \in Runs |-> "idle"]
  /\ held = [x \in Runs |-> None]
  /\ cached = [x \in Runs |-> FALSE]
  /\ offered = [x \in Runs |-> {}]
  /\ asked = [x \in Runs |-> None]
  /\ used = {}
  /\ ran = {}

Next ==
  \/ \E u \in Uploads : Upload(u)
  \/ \E r \in Reviewers : Review(r)
  \/ \E x \in Runs : Run(x)
  \/ Crash

Spec == Init /\ [][Next]_vars

-----------------------------------------------------------------------------
(***************************************************************************)
(* Properties.                                                             *)
(***************************************************************************)
\* The package passed every automatic check.
Sound(u) ==
  /\ u \in Uploads
  /\ pack[u].valid /\ ~pack[u].malicious
  /\ pack[u].topical \/ judged[u]
  /\ \A s \in pack[u].scripts : manifest[u][s] = "passed"

\* It did, and an operator then approved it.
Vetted(n) ==
  /\ Sound(row[n])
  /\ \E r \in Reviewers : rpc[r] = "approved" /\ target[r] = n

\* Whatever uploads, reviews, runs and crashes do at the same time, a model only
\* sees the instructions of skills, and a sandbox only starts scripts, that
\* passed all checks and that an operator approved (_run_load_skill,
\* _run_skill_script, approve_skill_for_agent).
OnlyVettedSkillsUsed ==
  /\ \A n \in used : Vetted(n)
  /\ \A n \in Names, s \in Scripts : <<n, s>> \in ran =>
       Vetted(n) /\ s \in pack[row[n]].scripts

\* An operator is never shown a skill as ready for review, and no skill is
\* ready, unless it passed every check, each of its scripts included (the order
\* of the commits in upload_skill and SkillSandboxValidator.validate).
ReviewableIsSound ==
  \A n \in Names : status[n] \in {"testing", "ready"} => Sound(row[n]) /\ ~flag[n]

\* What an upload was told holds for good: a pending package is stored and its
\* checks are recorded, a rejected one is stored and never becomes ready, a
\* conflict means another package has the name, an invalid one is not stored.
AnswerMatchesStore ==
  \A u \in Uploads :
    /\ upc[u] = "pending" =>
         row[NameOf(u)] = u /\ status[NameOf(u)] \in {"testing", "ready", "rejected"}
    /\ upc[u] = "rejected" =>
         /\ row[NameOf(u)] = u /\ status[NameOf(u)] = "rejected"
         /\ flag[NameOf(u)] = pack[u].malicious
    /\ upc[u] = "conflict" => row[NameOf(u)] \notin {None, u}
    /\ upc[u] = "invalid" => row[NameOf(u)] # u

\* No upload replaces a stored package, and the manifest that was reviewed stays
\* the one that runs (_persist_package_or_conflict).
StoredIsNotReplaced ==
  [][\A n \in Names : row[n] # None =>
       row'[n] = row[n] /\ manifest'[row[n]] = manifest[row[n]]]_vars

\* A model gets the instructions of a skill only while the skill is approved:
\* "Skill ... does not exist or is not approved yet" (_run_load_skill).
LoadedIsReady == [][\A n \in used' \ used : status[n] = "ready"]_vars
=============================================================================
