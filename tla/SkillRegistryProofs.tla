------------------------- MODULE SkillRegistryProofs -------------------------
(***************************************************************************)
(* Proofs about SkillRegistry for any names, scripts, packages and numbers *)
(* of requests and runs.                                                   *)
(***************************************************************************)
EXTENDS SkillRegistry, TLAPS

\* An upload about to store or settle has a verdict, and a package is only put
\* forward for review when it is sound.
UploadFact(u) ==
  /\ upc[u] \in {"store", "settle", "pending", "rejected"} => verdict[u] # "none"
  /\ upc[u] \in {"idle", "judge", "smoke"} => verdict[u] = "none"
  /\ upc[u] = "smoke" => pack[u].topical \/ judged[u]
  /\ upc[u] \in UploadBusy => pack[u].valid
  /\ upc[u] \in {"judge", "smoke"} => ~pack[u].malicious
  /\ verdict[u] = "testing" => Sound(u)
  /\ upc[u] \in {"settle", "pending", "rejected"} => row[NameOf(u)] = u
  /\ upc[u] = "pending" => verdict[u] = "testing"
  /\ upc[u] = "rejected" => verdict[u] = "rejected"

UploadInv == \A u \in Uploads : UploadFact(u)

\* A row holds a package of its name whose upload has stored it; a rejected
\* upload never gets past "uploaded" and "rejected".
RowFact(n) ==
  /\ row[n] = None <=> status[n] = "absent"
  /\ row[n] # None =>
       /\ NameOf(row[n]) = n
       /\ upc[row[n]] \in {"settle", "pending", "rejected", "gone"}
       /\ verdict[row[n]] # "none"
  /\ status[n] \in {"testing", "ready"} => verdict[row[n]] = "testing" /\ ~flag[n]
  /\ status[n] \in {"testing", "ready"} => upc[row[n]] \in {"pending", "gone"}
  /\ status[n] = "ready" => Vetted(n)

RowInv == \A n \in Names : RowFact(n)

\* What the answers given to uploads mean.
AnswerFact(u) ==
  /\ upc[u] = "settle" => status[NameOf(u)] \in {"uploaded", "rejected"}
  /\ upc[u] = "pending" => status[NameOf(u)] \in {"testing", "ready", "rejected"}
  /\ upc[u] = "rejected" =>
       status[NameOf(u)] = "rejected" /\ flag[NameOf(u)] = pack[u].malicious
  /\ upc[u] = "conflict" => row[NameOf(u)] \notin {None, u}
  /\ upc[u] = "invalid" => row[NameOf(u)] # u

AnswerInv == \A u \in Uploads : AnswerFact(u)

\* A review is about a stored skill; an approval under way has seen it in
\* "testing", which only the settled upload of a sound package writes.
ReviewFact(r) ==
  /\ rpc[r] \in ReviewBusy => target[r] \in Names /\ row[target[r]] # None
  /\ rpc[r] = "approving" =>
       /\ seen[r] = "testing"
       /\ verdict[row[target[r]]] = "testing"
       /\ upc[row[target[r]]] \in {"pending", "gone"}
       /\ ~flag[target[r]]

ReviewInv == \A r \in Reviewers : ReviewFact(r)

VettedNames == {n \in Names : Vetted(n)}

\* What a run may use has been vetted.
UseInv ==
  /\ \A x \in Runs :
       /\ cached[x] /\ held[x] # None => held[x] \in VettedNames
       /\ offered[x] \subseteq VettedNames
       /\ at[x] \in {"load", "script"} => asked[x] \in VettedNames
  /\ OnlyVettedSkillsUsed

IInv == TypeOK /\ UploadInv /\ RowInv /\ AnswerInv /\ ReviewInv /\ UseInv

-----------------------------------------------------------------------------
(***************************************************************************)
(* Types.                                                                  *)
(***************************************************************************)
LEMMA InitInv == Init => IInv
<1> SUFFICES ASSUME Init PROVE IInv  OBVIOUS
<1> USE NoneAssumption
<1>1. TypeOK
  BY PackagesAssumption DEF Init, TypeOK, Package, Entry
<1>2. UploadInv
  BY DEF Init, UploadInv, UploadFact, UploadBusy
<1>3. RowInv
  BY DEF Init, RowInv, RowFact
<1>4. AnswerInv
  BY DEF Init, AnswerInv, AnswerFact
<1>5. ReviewInv
  BY DEF Init, ReviewInv, ReviewFact, ReviewBusy
<1>6. UseInv
  BY DEF Init, UseInv, OnlyVettedSkillsUsed
<1> QED  BY <1>1, <1>2, <1>3, <1>4, <1>5, <1>6 DEF IInv

LEMMA PackType ==
  ASSUME TypeOK, NEW u \in Uploads
  PROVE  /\ NameOf(u) \in Names
         /\ pack[u].malicious \in BOOLEAN
         /\ pack[u].scripts \subseteq Scripts
<1>1. pack[u] \in Package
  BY PackagesAssumption DEF TypeOK
<1> QED  BY <1>1 DEF Package, NameOf

\* The steps of an upload, a review and a run keep every variable in its type.
LEMMA UploadType ==
  ASSUME TypeOK, UploadInv, NEW u \in Uploads, Upload(u)
  PROVE  TypeOK'
<1>1. CASE Receive(u)
  BY <1>1 DEF Receive, TypeOK, UploadBusy, UploadAnswer, rowVars, reviewVars, runVars
<1>2. CASE Judge(u)
  <2>1. PICK good \in BOOLEAN :
          /\ judged' = [judged EXCEPT ![u] = good]
          /\ upc' \in {[upc EXCEPT ![u] = "smoke"], [upc EXCEPT ![u] = "store"]}
          /\ manifest' \in {[manifest EXCEPT ![u] = Proposed(u)], manifest}
          /\ verdict' \in {[verdict EXCEPT ![u] = "rejected"], verdict}
    BY <1>2 DEF Judge
  <2>2. judged' \in [Uploads -> BOOLEAN]
    BY <2>1, Zenon DEF TypeOK
  <2>3. Proposed(u) \in [Scripts -> Entry]
    BY DEF Proposed, Entry
  <2>4. manifest' \in [Uploads -> [Scripts -> Entry]]
    BY <2>1, <2>3 DEF TypeOK
  <2>5. \A v \in Uploads, s \in Scripts : manifest'[v][s] # "absent" => s \in pack[v].scripts
    <3> TAKE v \in Uploads, s \in Scripts
    <3>1. Proposed(u)[s] # "absent" => s \in pack[u].scripts
      BY DEF Proposed
    <3>0. manifest[v][s] # "absent" => s \in pack[v].scripts
      BY DEF TypeOK
    <3>2. CASE manifest' = manifest
      BY <3>0, <3>2
    <3>3. CASE manifest' = [manifest EXCEPT ![u] = Proposed(u)]
      BY <3>0, <3>1, <3>3 DEF TypeOK
    <3> QED  BY <2>1, <3>2, <3>3
  <2>6. /\ upc' \in [Uploads -> {"idle", "gone"} \cup UploadBusy \cup UploadAnswer]
        /\ verdict' \in [Uploads -> {"none", "testing", "rejected"}]
    BY <2>1 DEF TypeOK, UploadBusy
  <2>7. UNCHANGED <<pack, rowVars, reviewVars, runVars, used, ran>>
    BY <1>2 DEF Judge
  <2> QED
    BY <2>2, <2>4, <2>5, <2>6, <2>7 DEF TypeOK, rowVars, reviewVars, runVars
<1>3. CASE Smoke(u)
  <2>1. manifest' \in [Uploads -> [Scripts -> Entry]]
    BY <1>3 DEF Smoke, TypeOK, Tested
  <2>2. \A v \in Uploads, s \in Scripts : manifest'[v][s] # "absent" => s \in pack[v].scripts
    <3> TAKE v \in Uploads, s \in Scripts
    <3>1. PICK m \in Tested(u) : manifest' = [manifest EXCEPT ![u] = m]
      BY <1>3 DEF Smoke
    <3>2. m[s] # "absent" => s \in pack[u].scripts
      BY DEF Tested
    <3> QED  BY <3>1, <3>2 DEF TypeOK
  <2> QED
    BY <1>3, <2>1, <2>2
    DEF Smoke, TypeOK, UploadBusy, UploadAnswer, rowVars, reviewVars, runVars
<1>4. CASE Store(u)
  <2>1. row' \in [Names -> Uploads \cup {None}]
    BY <1>4, PackType DEF Store, TypeOK, rowVars
  <2>2. status' \in [Names -> SkillStatus \cup {"absent"}]
    BY <1>4, PackType DEF Store, TypeOK, rowVars, SkillStatus
  <2>3. flag' \in [Names -> BOOLEAN]
    BY <1>4, PackType DEF Store, TypeOK, rowVars
  <2>4. upc' \in [Uploads -> {"idle", "gone"} \cup UploadBusy \cup UploadAnswer]
    BY <1>4 DEF Store, TypeOK, UploadBusy, UploadAnswer
  <2> QED
    BY <1>4, <2>1, <2>2, <2>3, <2>4 DEF Store, TypeOK, reviewVars, runVars
<1>5. CASE Settle(u)
  <2>1. status' \in [Names -> SkillStatus \cup {"absent"}]
    <3>1. upc[u] = "settle" /\ verdict[u] \in {"none", "testing", "rejected"}
      BY <1>5 DEF Settle, TypeOK
    <3>2. verdict[u] # "none"
      BY <1>5, <3>1 DEF UploadInv, UploadFact
    <3> QED  BY <1>5, <3>1, <3>2, PackType DEF Settle, TypeOK, SkillStatus
  <2>2. flag' \in [Names -> BOOLEAN]
    BY <1>5, PackType, Zenon DEF Settle, TypeOK
  <2>3. upc' \in [Uploads -> {"idle", "gone"} \cup UploadBusy \cup UploadAnswer]
    BY <1>5 DEF Settle, TypeOK, UploadBusy, UploadAnswer
  <2> QED
    BY <1>5, <2>1, <2>2, <2>3 DEF Settle, TypeOK, reviewVars, runVars
<1> QED  BY <1>1, <1>2, <1>3, <1>4, <1>5 DEF Upload

LEMMA ReviewType ==
  ASSUME TypeOK, NEW r \in Reviewers, Review(r)
  PROVE  TypeOK'
<1>1. CASE CommitReview(r)
  BY <1>1 DEF CommitReview, TypeOK, ReviewBusy, ReviewAnswer, SkillStatus, uploadVars, runVars
<1>2. ASSUME NEW n \in Names, OpenReview(r, n) PROVE TypeOK'
  BY <1>2 DEF OpenReview, TypeOK, ReviewBusy, ReviewAnswer, uploadVars, rowVars, runVars
<1> QED  BY <1>1, <1>2 DEF Review

LEMMA RunType ==
  ASSUME TypeOK, UseInv, NEW x \in Runs, Run(x)
  PROVE  TypeOK'
<1> USE DEF TypeOK, uploadVars, rowVars, reviewVars
<1>1. CASE StartRun(x)
  BY <1>1 DEF StartRun
<1>2. CASE OpenTurn(x)
  BY <1>2 DEF OpenTurn, ReadySkills
<1>3. CASE AnswerTurn(x)
  BY <1>3 DEF AnswerTurn
<1>4. CASE LoadSkill(x)
  <2>1. asked[x] \in Names
    BY <1>4 DEF LoadSkill, UseInv, VettedNames
  <2>2. used' \subseteq Names
    BY <1>4, <2>1 DEF LoadSkill
  <2> QED  BY <1>4, <2>2 DEF LoadSkill
<1>5. CASE RunScript(x)
  <2>1. asked[x] \in Names
    BY <1>5 DEF RunScript, UseInv, VettedNames
  <2>2. ran' \subseteq Names \X Scripts
    BY <1>5, <2>1 DEF RunScript
  <2> QED  BY <1>5, <2>2 DEF RunScript
<1> QED  BY <1>1, <1>2, <1>3, <1>4, <1>5 DEF Run

LEMMA CrashType ==
  ASSUME TypeOK, Crash
  PROVE  TypeOK'
BY DEF Crash, TypeOK, UploadBusy, UploadAnswer, ReviewBusy, ReviewAnswer, rowVars

-----------------------------------------------------------------------------
(***************************************************************************)
(* What no step takes back.                                                *)
(***************************************************************************)
Frame ==
  /\ pack' = pack
  /\ \A v \in Uploads :
       /\ upc[v] \notin {"judge", "smoke"} =>
            judged'[v] = judged[v] /\ manifest'[v] = manifest[v]
       /\ verdict[v] # "none" => verdict'[v] = verdict[v]
  /\ \A n \in Names : row[n] # None => row'[n] = row[n]
  /\ \A r \in Reviewers : rpc[r] = "approved" =>
       rpc'[r] = "approved" /\ target'[r] = target[r]

LEMMA UploadFrame ==
  ASSUME TypeOK, UploadInv, NEW u \in Uploads, Upload(u)
  PROVE  Frame
<1> USE DEF Frame, TypeOK
<1>1. CASE Receive(u)
  <2>1. verdict[u] = "none" /\ verdict' \in {verdict, [verdict EXCEPT ![u] = "rejected"]}
    BY <1>1 DEF Receive, UploadInv, UploadFact
  <2> QED  BY <1>1, <2>1 DEF Receive, rowVars, reviewVars
<1>2. CASE Judge(u)
  <2>1. verdict[u] = "none" /\ upc[u] = "judge"
    BY <1>2 DEF Judge, UploadInv, UploadFact
  <2>2. /\ \A v \in Uploads \ {u} : judged'[v] = judged[v] /\ manifest'[v] = manifest[v]
        /\ \A v \in Uploads \ {u} : verdict'[v] = verdict[v]
    <3>1. PICK good \in BOOLEAN :
            /\ judged' = [judged EXCEPT ![u] = good]
            /\ manifest' \in {[manifest EXCEPT ![u] = Proposed(u)], manifest}
            /\ verdict' \in {[verdict EXCEPT ![u] = "rejected"], verdict}
      BY <1>2 DEF Judge
    <3> QED  BY <3>1
  <2>3. UNCHANGED <<pack, rowVars, reviewVars>>
    BY <1>2 DEF Judge
  <2> QED  BY <2>1, <2>2, <2>3 DEF rowVars, reviewVars
<1>3. CASE Smoke(u)
  <2>1. verdict[u] = "none" /\ upc[u] = "smoke"
    BY <1>3 DEF Smoke, UploadInv, UploadFact
  <2>2. PICK m \in Tested(u), w \in {"rejected", "testing"} :
          manifest' = [manifest EXCEPT ![u] = m] /\ verdict' = [verdict EXCEPT ![u] = w]
    BY <1>3 DEF Smoke
  <2>3. UNCHANGED <<pack, judged, rowVars, reviewVars>>
    BY <1>3 DEF Smoke
  <2> QED  BY <2>1, <2>2, <2>3 DEF rowVars, reviewVars
<1>4. CASE Store(u)
  <2>1. /\ UNCHANGED <<pack, judged, manifest, verdict, reviewVars>>
        /\ row' \in {row, [row EXCEPT ![NameOf(u)] = u]}
        /\ row' # row => row[NameOf(u)] = None
    BY <1>4, Zenon DEF Store, rowVars
  <2> QED  BY <2>1, PackType DEF reviewVars
<1>5. CASE Settle(u)
  BY <1>5 DEF Settle, reviewVars
<1> QED  BY <1>1, <1>2, <1>3, <1>4, <1>5 DEF Upload

LEMMA ReviewFrame ==
  ASSUME TypeOK, NEW r \in Reviewers, Review(r)
  PROVE  Frame
<1>1. CASE CommitReview(r)
  BY <1>1 DEF CommitReview, Frame, TypeOK, ReviewBusy, uploadVars
<1>2. ASSUME NEW n \in Names, OpenReview(r, n) PROVE Frame
  BY <1>2 DEF OpenReview, Frame, TypeOK, uploadVars, rowVars
<1> QED  BY <1>1, <1>2 DEF Review

LEMMA RunFrame ==
  ASSUME NEW x \in Runs, Run(x)
  PROVE  Frame /\ UNCHANGED <<uploadVars, rowVars, reviewVars>>
<1>1. UNCHANGED <<uploadVars, rowVars, reviewVars>>
  BY DEF Run, StartRun, OpenTurn, AnswerTurn, LoadSkill, RunScript
<1> QED  BY <1>1 DEF Frame, uploadVars, rowVars, reviewVars

LEMMA CrashFrame ==
  ASSUME TypeOK, Crash
  PROVE  Frame
BY DEF Crash, Frame, TypeOK, ReviewBusy, rowVars

\* A stored package, its checks and its approval stay as they are.
LEMMA StoredStays ==
  ASSUME TypeOK, RowInv, Frame, NEW n \in Names, row[n] # None
  PROVE  /\ row'[n] = row[n] /\ row[n] \in Uploads
         /\ manifest'[row[n]] = manifest[row[n]]
         /\ judged'[row[n]] = judged[row[n]]
<1>1. row[n] \in Uploads
  BY DEF TypeOK
<1>2. upc[row[n]] \in {"settle", "pending", "rejected", "gone"}
  BY DEF RowInv, RowFact
<1>3. upc[row[n]] \notin {"judge", "smoke"}
  BY <1>2
<1> QED  BY <1>1, <1>3 DEF Frame

LEMMA VettedStays ==
  ASSUME TypeOK, RowInv, Frame, NEW n \in Names, Vetted(n)
  PROVE  Vetted(n)' /\ row'[n] = row[n]
<1>1. row[n] # None
  BY NoneAssumption DEF Vetted, Sound
<1>2. /\ row'[n] = row[n] /\ row[n] \in Uploads /\ pack' = pack
      /\ manifest'[row[n]] = manifest[row[n]] /\ judged'[row[n]] = judged[row[n]]
  BY <1>1, StoredStays DEF Frame
<1>3. Sound(row[n])'
  BY <1>2 DEF Vetted, Sound
<1>4. \E r \in Reviewers : rpc'[r] = "approved" /\ target'[r] = n
  BY DEF Vetted, Frame
<1> QED  BY <1>2, <1>3, <1>4 DEF Vetted

\* So does what is known of a package that was put forward.
LEMMA SoundStays ==
  ASSUME TypeOK, UploadInv, Frame, NEW v \in Uploads, verdict[v] = "testing"
  PROVE  Sound(v)' /\ verdict'[v] = "testing"
<1>1. Sound(v) /\ upc[v] \notin {"judge", "smoke"}
  BY DEF UploadInv, UploadFact
<1> QED  BY <1>1 DEF Frame, Sound

-----------------------------------------------------------------------------
(***************************************************************************)
(* UploadInv, step by step.                                                *)
(***************************************************************************)
\* A step that leaves an upload's place and verdict alone, or drops it, keeps
\* what UploadInv says of it.
LEMMA UploadFactStays ==
  ASSUME TypeOK, UploadInv, Frame, NEW v \in Uploads,
         upc'[v] = upc[v] \/ upc'[v] = "gone",
         verdict'[v] = verdict[v], judged'[v] = judged[v]
  PROVE  UploadFact(v)'
<1>1. UploadFact(v)
  BY DEF UploadInv
<1>2. verdict[v] = "testing" => Sound(v)'
  BY SoundStays
<1>3. row[NameOf(v)] = v => row'[NameOf(v)] = v
  BY PackType, NoneAssumption DEF Frame
<1>4. pack' = pack
  BY DEF Frame
<1> QED  BY <1>1, <1>2, <1>3, <1>4 DEF UploadFact, NameOf, UploadBusy

LEMMA UploadKeepsUploadInv ==
  ASSUME TypeOK, UploadInv, Frame, NEW u \in Uploads, Upload(u)
  PROVE  UploadInv'
<1> SUFFICES ASSUME NEW v \in Uploads PROVE UploadFact(v)'
  BY DEF UploadInv
<1>0. UploadFact(u) /\ pack' = pack
  BY DEF UploadInv, Frame
<1>1. CASE Receive(u)
  <2>1. /\ judged' = judged
        /\ \/ upc' \in {[upc EXCEPT ![u] = "invalid"], [upc EXCEPT ![u] = "conflict"]}
              /\ verdict' = verdict
           \/ /\ upc' = [upc EXCEPT ![u] = "store"] /\ pack[u].valid
              /\ verdict' = [verdict EXCEPT ![u] = "rejected"]
           \/ /\ upc' = [upc EXCEPT ![u] = "judge"] /\ pack[u].valid /\ ~pack[u].malicious
              /\ verdict' = verdict
        /\ upc[u] = "idle"
    BY <1>1, Zenon DEF Receive
  <2>2. CASE v # u
    BY <2>1, <2>2, UploadFactStays DEF TypeOK
  <2>3. CASE v = u
    BY <1>0, <2>1, <2>3 DEF UploadFact, UploadBusy, TypeOK
  <2> QED  BY <2>2, <2>3
<1>2. CASE Judge(u)
  <2>1. PICK good \in BOOLEAN :
          /\ judged' = [judged EXCEPT ![u] = good]
          /\ \/ upc' = [upc EXCEPT ![u] = "smoke"] /\ verdict' = verdict /\ (pack[u].topical \/ good)
             \/ upc' = [upc EXCEPT ![u] = "store"] /\ verdict' = [verdict EXCEPT ![u] = "rejected"]
    BY <1>2 DEF Judge
  <2>2. upc[u] = "judge"
    BY <1>2 DEF Judge
  <2>3. CASE v # u
    BY <2>1, <2>3, UploadFactStays DEF TypeOK
  <2>4. CASE v = u
    <3>1. judged'[u] = good
      BY <2>1 DEF TypeOK
    <3>2. \/ upc'[u] = "smoke" /\ verdict'[u] = "none" /\ (pack[u].topical \/ judged'[u])
          \/ upc'[u] = "store" /\ verdict'[u] = "rejected"
      BY <1>0, <2>1, <2>2, <3>1 DEF UploadFact, TypeOK
    <3> QED  BY <1>0, <2>2, <2>4, <3>2 DEF UploadFact, UploadBusy
  <2> QED  BY <2>3, <2>4
<1>3. CASE Smoke(u)
  <2>1. PICK m \in Tested(u) :
          /\ manifest' = [manifest EXCEPT ![u] = m]
          /\ verdict' = [verdict EXCEPT ![u] =
               IF \E s \in Scripts : m[s] = "failed" THEN "rejected" ELSE "testing"]
    BY <1>3 DEF Smoke
  <2>2. upc[u] = "smoke" /\ upc' = [upc EXCEPT ![u] = "store"] /\ judged' = judged
    BY <1>3 DEF Smoke
  <2>3. CASE v # u
    BY <2>1, <2>2, <2>3, UploadFactStays DEF TypeOK
  <2>4. CASE v = u
    <3>1. upc'[u] = "store" /\ verdict'[u] \in {"rejected", "testing"} /\ manifest'[u] = m
      BY <2>1, <2>2 DEF TypeOK
    <3>2. verdict'[u] = "testing" => \A s \in pack[u].scripts : m[s] = "passed"
      <4>1. verdict'[u] = "testing" => \A s \in Scripts : m[s] # "failed"
        BY <2>1 DEF TypeOK
      <4>2. \A s \in pack[u].scripts : s \in Scripts /\ m[s] \in {"passed", "failed"}
        BY PackType DEF Tested
      <4> QED  BY <4>1, <4>2
    <3>3. pack[u].valid /\ ~pack[u].malicious /\ (pack[u].topical \/ judged[u])
      BY <1>0, <2>2 DEF UploadFact, UploadBusy
    <3>4. verdict'[u] = "testing" => Sound(u)'
      BY <1>0, <2>2, <3>1, <3>2, <3>3 DEF Sound
    <3> QED  BY <1>0, <2>4, <3>1, <3>3, <3>4 DEF UploadFact, UploadBusy
  <2> QED  BY <2>3, <2>4
<1>4. CASE Store(u)
  <2>1. /\ upc[u] = "store" /\ verdict' = verdict /\ judged' = judged
        /\ \/ upc' = [upc EXCEPT ![u] = "conflict"]
           \/ upc' = [upc EXCEPT ![u] = "settle"] /\ row' = [row EXCEPT ![NameOf(u)] = u]
    BY <1>4, Zenon DEF Store
  <2>2. CASE v # u
    BY <2>1, <2>2, UploadFactStays DEF TypeOK
  <2>3. CASE v = u
    <3>1. \/ upc'[u] = "conflict"
          \/ upc'[u] = "settle" /\ row'[NameOf(u)] = u
      BY <2>1, PackType DEF TypeOK
    <3>2. verdict[u] = "testing" => Sound(u)'
      BY SoundStays
    <3>3. NameOf(u)' = NameOf(u)
      BY <1>0 DEF NameOf
    <3> QED  BY <1>0, <2>1, <2>3, <3>1, <3>2, <3>3 DEF UploadFact, UploadBusy
  <2> QED  BY <2>2, <2>3
<1>5. CASE Settle(u)
  <2>1. /\ upc[u] = "settle" /\ verdict' = verdict /\ judged' = judged /\ row' = row
        /\ upc' = [upc EXCEPT ![u] = IF verdict[u] = "testing" THEN "pending" ELSE "rejected"]
    BY <1>5 DEF Settle
  <2>2. CASE v # u
    BY <2>1, <2>2, UploadFactStays DEF TypeOK
  <2>3. CASE v = u
    <3>1. verdict[u] \in {"testing", "rejected"}
      BY <1>0, <2>1 DEF UploadFact, TypeOK
    <3>2. upc'[u] = IF verdict[u] = "testing" THEN "pending" ELSE "rejected"
      BY <2>1 DEF TypeOK
    <3>3. verdict[u] = "testing" => Sound(u)'
      BY SoundStays
    <3>4. NameOf(u)' = NameOf(u)
      BY <1>0 DEF NameOf
    <3> QED  BY <1>0, <2>1, <2>3, <3>1, <3>2, <3>3, <3>4 DEF UploadFact, UploadBusy
  <2> QED  BY <2>2, <2>3
<1> QED  BY <1>1, <1>2, <1>3, <1>4, <1>5 DEF Upload

-----------------------------------------------------------------------------
(***************************************************************************)
(* The other parts, under the steps of an upload.                          *)
(***************************************************************************)
\* What is common to the steps of an upload before it stores its package.
Early(u) ==
  /\ upc[u] \in {"idle", "judge", "smoke"}
  /\ \A v \in Uploads \ {u} : upc'[v] = upc[v]
  /\ upc'[u] \in {"invalid", "conflict", "judge", "smoke", "store"}
  /\ upc'[u] = "conflict" => row[NameOf(u)] # None
  /\ UNCHANGED <<rowVars, reviewVars, runVars, used, ran>>

LEMMA EarlySteps ==
  ASSUME TypeOK, NEW u \in Uploads, Receive(u) \/ Judge(u) \/ Smoke(u)
  PROVE  Early(u)
<1>1. CASE Receive(u)
  BY <1>1 DEF Receive, Early, TypeOK
<1>2. CASE Judge(u)
  <2>1. upc' \in {[upc EXCEPT ![u] = "smoke"], [upc EXCEPT ![u] = "store"]}
    BY <1>2 DEF Judge
  <2>2. upc[u] = "judge" /\ UNCHANGED <<rowVars, reviewVars, runVars, used, ran>>
    BY <1>2 DEF Judge
  <2> QED  BY <2>1, <2>2 DEF Early, TypeOK
<1>3. CASE Smoke(u)
  BY <1>3 DEF Smoke, Early, TypeOK
<1> QED  BY <1>1, <1>2, <1>3

\* A row that a step does not write keeps its fact, and so does a review.
LEMMA RowFactStays ==
  ASSUME TypeOK, RowInv, Frame, NEW n \in Names,
         row'[n] = row[n], status'[n] = status[n], flag'[n] = flag[n],
         row[n] # None => upc'[row[n]] = upc[row[n]] \/ upc'[row[n]] = "gone"
  PROVE  RowFact(n)'
<1>1. RowFact(n)
  BY DEF RowInv
<1>2. row[n] # None => row[n] \in Uploads /\ verdict'[row[n]] = verdict[row[n]]
  BY <1>1 DEF RowFact, Frame, TypeOK
<1>3. row[n] # None => NameOf(row[n])' = NameOf(row[n])
  BY DEF Frame, NameOf
<1>4. status[n] = "ready" => Vetted(n)'
  BY <1>1, VettedStays DEF RowFact
<1> QED  BY <1>1, <1>2, <1>3, <1>4 DEF RowFact

LEMMA ReviewFactStays ==
  ASSUME TypeOK, RowInv, ReviewInv, Frame, NEW r \in Reviewers,
         rpc'[r] = rpc[r] \/ rpc'[r] = "gone", target'[r] = target[r], seen'[r] = seen[r],
         \A n \in Names : row[n] # None /\ upc[row[n]] \in {"pending", "gone"} =>
           flag'[n] = flag[n] /\ upc'[row[n]] = upc[row[n]]
  PROVE  ReviewFact(r)'
<1>1. ReviewFact(r)
  BY DEF ReviewInv
<1>2. CASE rpc[r] \notin ReviewBusy
  BY <1>2 DEF ReviewFact, ReviewBusy
<1>3. CASE rpc[r] \in ReviewBusy
  <2>1. /\ target[r] \in Names /\ row[target[r]] # None
        /\ row'[target[r]] = row[target[r]] /\ row[target[r]] \in Uploads
    BY <1>1, <1>3, StoredStays DEF ReviewFact
  <2>2. verdict[row[target[r]]] = "testing" => verdict'[row[target[r]]] = "testing"
    BY <2>1 DEF Frame
  <2> QED  BY <1>1, <1>3, <2>1, <2>2 DEF ReviewFact, ReviewBusy
<1> QED  BY <1>2, <1>3

\* A step that is not one of a run, or ends it, takes nothing vetted away.
LEMMA UseStays ==
  ASSUME TypeOK, RowInv, UseInv, Frame,
         UNCHANGED <<held, cached, offered, asked, used, ran>>,
         \A x \in Runs : at'[x] = at[x] \/ at'[x] \in {"idle", "ended"}
  PROVE  UseInv'
<1>1. VettedNames \subseteq VettedNames'
  BY VettedStays DEF VettedNames
<1>2. OnlyVettedSkillsUsed'
  <2>1. OnlyVettedSkillsUsed /\ used \subseteq Names /\ pack' = pack
    BY DEF UseInv, TypeOK, Frame
  <2>2. \A n \in Names : Vetted(n) => Vetted(n)' /\ row'[n] = row[n]
    BY VettedStays
  <2>3. ASSUME NEW n \in used' PROVE Vetted(n)'
    BY <2>1, <2>2 DEF OnlyVettedSkillsUsed
  <2>4. ASSUME NEW n \in Names, NEW s \in Scripts, <<n, s>> \in ran'
        PROVE  Vetted(n)' /\ s \in pack'[row'[n]].scripts
    <3>1. Vetted(n) /\ s \in pack[row[n]].scripts
      BY <2>1, <2>4 DEF OnlyVettedSkillsUsed
    <3> QED  BY <2>1, <2>2, <3>1
  <2> QED  BY <2>3, <2>4 DEF OnlyVettedSkillsUsed
<1>3. ASSUME NEW x \in Runs
      PROVE  /\ cached'[x] /\ held'[x] # None => held'[x] \in VettedNames'
             /\ offered'[x] \subseteq VettedNames'
             /\ at'[x] \in {"load", "script"} => asked'[x] \in VettedNames'
  BY <1>1 DEF UseInv
<1> QED  BY <1>2, <1>3 DEF UseInv

LEMMA EarlyKeepsRest ==
  ASSUME IInv, Frame, NEW u \in Uploads, Early(u)
  PROVE  RowInv' /\ AnswerInv' /\ ReviewInv' /\ UseInv'
<1> USE DEF IInv
<1>1. ASSUME NEW n \in Names, row[n] # None PROVE row[n] \in Uploads \ {u}
  <2>1. row[n] \in Uploads
    BY <1>1 DEF TypeOK
  <2>2. upc[row[n]] \in {"settle", "pending", "rejected", "gone"}
    BY <1>1 DEF RowInv, RowFact
  <2> QED  BY <2>1, <2>2 DEF Early
<1>2. RowInv'
  BY <1>1, RowFactStays DEF RowInv, Early, rowVars
<1>3. ASSUME NEW v \in Uploads PROVE AnswerFact(v)'
  <2>1. NameOf(v)' = NameOf(v) /\ NameOf(v) \in Names /\ pack' = pack
    BY PackType DEF Frame, NameOf
  <2>2. CASE v = u
    BY <1>1, <2>1, <2>2, NoneAssumption DEF AnswerFact, Early, rowVars
  <2>3. CASE v # u
    BY <2>1, <2>3 DEF AnswerInv, AnswerFact, Early, rowVars
  <2> QED  BY <2>2, <2>3
<1>4. ReviewInv'
  BY <1>1, ReviewFactStays DEF ReviewInv, Early, rowVars, reviewVars
<1>5. UseInv'
  BY UseStays DEF Early, runVars
<1> QED  BY <1>2, <1>3, <1>4, <1>5 DEF AnswerInv

LEMMA StoreKeepsRest ==
  ASSUME IInv, Frame, NEW u \in Uploads, Store(u)
  PROVE  RowInv' /\ AnswerInv' /\ ReviewInv' /\ UseInv'
<1> USE DEF IInv
<1>0. NameOf(u) \in Names /\ pack' = pack
  BY PackType DEF Frame
<1>1. /\ upc[u] = "store" /\ \A v \in Uploads \ {u} : upc'[v] = upc[v]
      /\ verdict' = verdict /\ UNCHANGED <<reviewVars, runVars, used, ran>>
      /\ \/ /\ row[NameOf(u)] # None /\ upc'[u] = "conflict" /\ UNCHANGED rowVars
         \/ /\ row[NameOf(u)] = None /\ upc'[u] = "settle"
            /\ row' = [row EXCEPT ![NameOf(u)] = u]
            /\ status' = [status EXCEPT ![NameOf(u)] = "uploaded"]
            /\ flag' = [flag EXCEPT ![NameOf(u)] = FALSE]
  BY DEF Store, TypeOK
<1>2. ASSUME NEW n \in Names, row[n] # None PROVE row[n] \in Uploads \ {u}
  <2>1. row[n] \in Uploads
    BY <1>2 DEF TypeOK
  <2>2. upc[row[n]] \in {"settle", "pending", "rejected", "gone"}
    BY <1>2 DEF RowInv, RowFact
  <2> QED  BY <1>1, <2>1, <2>2
<1>3. ASSUME NEW n \in Names PROVE RowFact(n)'
  <2>1. CASE row'[n] = row[n] /\ status'[n] = status[n] /\ flag'[n] = flag[n]
    BY <1>1, <1>2, <2>1, RowFactStays
  <2>2. CASE n = NameOf(u) /\ row[n] = None
    <3>1. row'[n] = u /\ status'[n] = "uploaded" /\ upc'[u] = "settle"
      BY <1>1, <2>2 DEF TypeOK
    <3>2. verdict'[u] # "none" /\ NameOf(u)' = n
      BY <1>0, <1>1, <2>2 DEF UploadInv, UploadFact, NameOf
    <3>3. u # None
      BY NoneAssumption
    <3> QED  BY <3>1, <3>2, <3>3 DEF RowFact
  <2> QED  BY <1>0, <1>1, <2>1, <2>2 DEF rowVars, TypeOK
<1>4. ASSUME NEW v \in Uploads PROVE AnswerFact(v)'
  <2>1. NameOf(v)' = NameOf(v) /\ NameOf(v) \in Names /\ v # None
    BY PackType, NoneAssumption DEF Frame, NameOf
  <2>2. CASE v = u
    BY <1>0, <1>1, <1>2, <2>1, <2>2 DEF AnswerFact, rowVars, TypeOK
  <2>3. CASE v # u
    <3>1. AnswerFact(v) /\ UploadFact(v) /\ upc'[v] = upc[v]
      BY <1>1, <2>3 DEF AnswerInv, UploadInv
    <3>2. CASE row[NameOf(v)] # None
      <4>1. row'[NameOf(v)] = row[NameOf(v)] /\ status'[NameOf(v)] = status[NameOf(v)]
            /\ flag'[NameOf(v)] = flag[NameOf(v)]
        BY <1>0, <1>1, <2>1, <3>2 DEF rowVars, TypeOK
      <4> QED  BY <1>0, <2>1, <3>1, <4>1 DEF AnswerFact
    <3>3. CASE row[NameOf(v)] = None
      <4>1. upc[v] \notin {"settle", "pending", "rejected", "conflict"}
        BY <2>1, <3>1, <3>3 DEF AnswerFact, UploadFact
      <4>2. row'[NameOf(v)] # v
        BY <1>0, <1>1, <2>1, <2>3, <3>3 DEF rowVars, TypeOK
      <4> QED  BY <2>1, <3>1, <4>1, <4>2 DEF AnswerFact
    <3> QED  BY <3>2, <3>3
  <2> QED  BY <2>2, <2>3
<1>5. ASSUME NEW r \in Reviewers PROVE ReviewFact(r)'
  <2>1. \A n \in Names : row[n] # None => flag'[n] = flag[n] /\ upc'[row[n]] = upc[row[n]]
    BY <1>0, <1>1, <1>2 DEF rowVars, TypeOK
  <2> QED  BY <1>1, <2>1, ReviewFactStays DEF reviewVars
<1>6. UseInv'
  BY <1>1, UseStays DEF runVars
<1> QED  BY <1>3, <1>4, <1>5, <1>6 DEF RowInv, AnswerInv, ReviewInv

LEMMA SettleKeepsRest ==
  ASSUME IInv, Frame, NEW u \in Uploads, Settle(u)
  PROVE  RowInv' /\ AnswerInv' /\ ReviewInv' /\ UseInv'
<1> USE DEF IInv
<1>0. NameOf(u) \in Names /\ pack' = pack /\ NameOf(u)' = NameOf(u) /\ u # None
  BY PackType, NoneAssumption DEF Frame, NameOf
<1>1. /\ upc[u] = "settle" /\ \A v \in Uploads \ {u} : upc'[v] = upc[v]
      /\ verdict' = verdict /\ row' = row /\ UNCHANGED <<reviewVars, runVars, used, ran>>
      /\ status' = [status EXCEPT ![NameOf(u)] = verdict[u]]
      /\ flag' = [flag EXCEPT ![NameOf(u)] = pack[u].malicious]
      /\ upc'[u] = IF verdict[u] = "testing" THEN "pending" ELSE "rejected"
  BY DEF Settle, TypeOK
<1>2. /\ row[NameOf(u)] = u /\ verdict[u] \in {"testing", "rejected"}
      /\ verdict[u] = "testing" => ~pack[u].malicious
  BY <1>1 DEF UploadInv, UploadFact, TypeOK, Sound
<1>3. status'[NameOf(u)] = verdict[u] /\ flag'[NameOf(u)] = pack[u].malicious
  BY <1>0, <1>1, Zenon DEF TypeOK
<1>4. \A n \in Names \ {NameOf(u)} :
        /\ status'[n] = status[n] /\ flag'[n] = flag[n]
        /\ row[n] # None => row[n] \in Uploads \ {u}
  BY <1>0, <1>1 DEF TypeOK, RowInv, RowFact
<1>5. ASSUME NEW n \in Names PROVE RowFact(n)'
  <2>1. CASE n # NameOf(u)
    BY <1>1, <1>4, <2>1, RowFactStays
  <2>2. CASE n = NameOf(u)
    BY <1>0, <1>1, <1>2, <1>3, <2>2 DEF RowFact
  <2> QED  BY <2>1, <2>2
<1>6. ASSUME NEW v \in Uploads PROVE AnswerFact(v)'
  <2>1. NameOf(v)' = NameOf(v) /\ NameOf(v) \in Names
    BY PackType DEF Frame, NameOf
  <2>2. CASE v = u
    BY <1>0, <1>1, <1>2, <1>3, <2>2 DEF AnswerFact
  <2>3. CASE v # u
    <3>1. AnswerFact(v) /\ UploadFact(v) /\ upc'[v] = upc[v]
      BY <1>1, <2>3 DEF AnswerInv, UploadInv
    <3>2. upc[v] \in {"settle", "pending", "rejected"} => NameOf(v) # NameOf(u)
      BY <1>2, <2>3, <3>1 DEF UploadFact
    <3> QED  BY <1>0, <1>1, <1>4, <2>1, <3>1, <3>2 DEF AnswerFact
  <2> QED  BY <2>2, <2>3
<1>7. ASSUME NEW r \in Reviewers PROVE ReviewFact(r)'
  <2>1. \A n \in Names : row[n] # None /\ upc[row[n]] \in {"pending", "gone"} =>
          flag'[n] = flag[n] /\ upc'[row[n]] = upc[row[n]]
    BY <1>0, <1>1, <1>2, <1>4
  <2> QED  BY <1>1, <2>1, ReviewFactStays DEF reviewVars
<1>8. UseInv'
  BY <1>1, UseStays DEF runVars
<1> QED  BY <1>5, <1>6, <1>7, <1>8 DEF RowInv, AnswerInv, ReviewInv

-----------------------------------------------------------------------------
(***************************************************************************)
(* All parts, under reviews, runs and crashes.                             *)
(***************************************************************************)
LEMMA CommitKeepsInv ==
  ASSUME IInv, Frame, NEW r \in Reviewers, CommitReview(r)
  PROVE  UploadInv' /\ RowInv' /\ AnswerInv' /\ ReviewInv' /\ UseInv'
<1> USE DEF IInv
<1> DEFINE n == target[r]
<1>0. /\ UNCHANGED <<pack, upc, judged, manifest, verdict, row, flag, target, seen>>
      /\ UNCHANGED <<runVars, used, ran>>
      /\ rpc[r] \in ReviewBusy
      /\ \A q \in Reviewers \ {r} : rpc'[q] = rpc[q]
      /\ rpc'[r] = IF rpc[r] = "approving" THEN "approved" ELSE "rejected"
  BY DEF CommitReview, uploadVars, TypeOK
<1>1. n \in Names /\ row[n] # None /\ row[n] \in Uploads
  BY <1>0 DEF ReviewInv, ReviewFact, TypeOK
<1>2. /\ \A m \in Names \ {n} : status'[m] = status[m]
      /\ rpc[r] = "approving" => status'[n] = "ready"
      /\ rpc[r] = "rejecting" => status'[n] = "rejected" \/ (status'[n] = status[n] /\ seen[r] = "rejected")
  <2>1. rpc[r] = "approving" => seen[r] = "testing"
    BY DEF ReviewInv, ReviewFact
  <2>2. CASE rpc[r] = "approving"
    <3>1. status' = [status EXCEPT ![n] = "ready"]
      BY <2>1, <2>2 DEF CommitReview
    <3> QED  BY <1>1, <2>2, <3>1 DEF TypeOK
  <2>3. CASE rpc[r] = "rejecting"
    <3>1. status' = [status EXCEPT ![n] = IF seen[r] = "rejected" THEN @ ELSE "rejected"]
      BY <2>3 DEF CommitReview
    <3> QED  BY <1>1, <2>3, <3>1 DEF TypeOK
  <2> QED  BY <1>0, <2>2, <2>3 DEF ReviewBusy
<1>3. rpc[r] = "approving" =>
        verdict[row[n]] = "testing" /\ upc[row[n]] \in {"pending", "gone"} /\ ~flag[n]
  BY DEF ReviewInv, ReviewFact
<1>4. UploadInv'
  BY <1>0, UploadFactStays DEF UploadInv
<1>5. ASSUME NEW m \in Names PROVE RowFact(m)'
  <2>1. CASE m # n
    BY <1>0, <1>2, <2>1, RowFactStays
  <2>2. CASE m = n /\ rpc[r] = "approving"
    <3>1. Sound(row[n])' /\ NameOf(row[n])' = NameOf(row[n]) /\ NameOf(row[n]) = n
      BY <1>0, <1>1, <1>3, <2>2, SoundStays DEF NameOf, RowInv, RowFact
    <3>2. Vetted(n)'
      <4>1. rpc'[r] = "approved" /\ target'[r] = n
        BY <1>0, <2>2
      <4> QED  BY <1>0, <3>1, <4>1 DEF Vetted
    <3> QED  BY <1>0, <1>1, <1>2, <1>3, <2>2, <3>1, <3>2 DEF RowFact
  <2>3. CASE m = n /\ rpc[r] = "rejecting"
    <3>1. CASE status'[n] = status[n]
      BY <1>0, <2>3, <3>1, RowFactStays
    <3>2. CASE status'[n] = "rejected"
      <4>1. RowFact(n) /\ NameOf(row[n])' = NameOf(row[n])
        BY <1>0, <1>1 DEF RowInv, NameOf
      <4> QED  BY <1>0, <1>1, <2>3, <3>2, <4>1 DEF RowFact
    <3> QED  BY <1>2, <2>3, <3>1, <3>2
  <2> QED  BY <1>0, <2>1, <2>2, <2>3 DEF ReviewBusy
<1>6. ASSUME NEW v \in Uploads PROVE AnswerFact(v)'
  <2>1. NameOf(v)' = NameOf(v) /\ NameOf(v) \in Names
    BY PackType DEF Frame, NameOf
  <2>2. AnswerFact(v) /\ UploadFact(v)
    BY DEF AnswerInv, UploadInv
  <2>3. CASE NameOf(v) # n
    BY <1>0, <1>2, <2>1, <2>2, <2>3 DEF AnswerFact
  <2>4. CASE NameOf(v) = n
    <3>1. rpc[r] = "approving" => upc[v] \notin {"settle", "rejected"}
      BY <1>3, <2>2, <2>4 DEF UploadFact
    <3> QED  BY <1>0, <1>2, <2>1, <2>2, <2>4, <3>1 DEF AnswerFact, ReviewBusy
  <2> QED  BY <2>3, <2>4
<1>7. ASSUME NEW q \in Reviewers PROVE ReviewFact(q)'
  <2>1. CASE q = r
    BY <1>0, <2>1 DEF ReviewFact, ReviewBusy
  <2>2. CASE q # r
    BY <1>0, <2>2, ReviewFactStays
  <2> QED  BY <2>1, <2>2
<1>8. UseInv'
  BY <1>0, UseStays DEF runVars
<1> QED  BY <1>4, <1>5, <1>6, <1>7, <1>8 DEF RowInv, AnswerInv, ReviewInv

LEMMA OpenKeepsInv ==
  ASSUME IInv, Frame, NEW r \in Reviewers, NEW n \in Names, OpenReview(r, n)
  PROVE  UploadInv' /\ RowInv' /\ AnswerInv' /\ ReviewInv' /\ UseInv'
<1> USE DEF IInv
<1>0. /\ UNCHANGED <<pack, upc, judged, manifest, verdict, row, status, flag>>
      /\ UNCHANGED <<runVars, used, ran>>
      /\ row[n] # None
      /\ \A q \in Reviewers \ {r} : rpc'[q] = rpc[q] /\ target'[q] = target[q] /\ seen'[q] = seen[q]
      /\ target'[r] = n /\ seen'[r] = status[n]
      /\ rpc'[r] \in {"rejecting", "refused"} \/ (rpc'[r] = "approving" /\ Approvable(n))
  BY DEF OpenReview, uploadVars, rowVars, TypeOK
<1>1. UploadInv'
  BY <1>0, UploadFactStays DEF UploadInv
<1>2. RowInv'
  BY <1>0, RowFactStays DEF RowInv
<1>3. AnswerInv'
  BY <1>0 DEF AnswerInv, AnswerFact, NameOf
<1>4. ASSUME NEW q \in Reviewers PROVE ReviewFact(q)'
  <2>1. CASE q # r
    BY <1>0, <2>1, ReviewFactStays
  <2>2. CASE q = r
    BY <1>0, <2>2 DEF ReviewFact, ReviewBusy, Approvable, RowInv, RowFact
  <2> QED  BY <2>1, <2>2
<1>5. UseInv'
  BY <1>0, UseStays DEF runVars
<1> QED  BY <1>1, <1>2, <1>3, <1>4, <1>5 DEF ReviewInv

LEMMA RunKeepsInv ==
  ASSUME IInv, Frame, NEW x \in Runs, Run(x)
  PROVE  UploadInv' /\ RowInv' /\ AnswerInv' /\ ReviewInv' /\ UseInv'
<1> USE DEF IInv
<1>0. UNCHANGED <<pack, upc, judged, manifest, verdict, row, status, flag, rpc, target, seen>>
  BY RunFrame DEF uploadVars, rowVars, reviewVars
<1>1. UploadInv'
  BY <1>0, UploadFactStays DEF UploadInv
<1>2. RowInv'
  BY <1>0, RowFactStays DEF RowInv
<1>3. AnswerInv'
  BY <1>0 DEF AnswerInv, AnswerFact, NameOf
<1>4. ReviewInv'
  BY <1>0 DEF ReviewInv, ReviewFact
<1>5. /\ VettedNames \subseteq VettedNames'
      /\ \A n \in Names : Vetted(n) => Vetted(n)' /\ row'[n] = row[n]
  BY VettedStays DEF VettedNames
<1>6. ReadySkills \subseteq VettedNames
  BY DEF ReadySkills, RowInv, RowFact, VettedNames
<1> DEFINE
  Fine(y) == /\ cached[y] /\ held[y] # None => held[y] \in VettedNames
             /\ offered[y] \subseteq VettedNames
             /\ at[y] \in {"load", "script"} => asked[y] \in VettedNames
<1>7. ASSUME NEW y \in Runs,
             at'[y] = at[y] \/ at'[y] \notin {"load", "script"}, held'[y] = held[y],
             cached'[y] = cached[y] \/ ~cached'[y], offered'[y] = offered[y], asked'[y] = asked[y]
      PROVE  Fine(y)'
  <2>1. Fine(y)
    BY DEF UseInv
  <2> QED  BY <1>5, <1>7, <2>1
<1>8. ASSUME used' = used, ran' = ran PROVE OnlyVettedSkillsUsed'
  <2>1. OnlyVettedSkillsUsed /\ used \subseteq Names /\ pack' = pack
    BY <1>0 DEF UseInv, TypeOK
  <2> QED  BY <1>5, <1>8, <2>1 DEF OnlyVettedSkillsUsed
<1>9. ASSUME StartRun(x) PROVE UseInv'
  <2>1. PICK n \in Names \cup {None} :
          /\ at' = [at EXCEPT ![x] = IF n \in ReadySkills \cup {None} THEN "turn" ELSE "ended"]
          /\ held' = [held EXCEPT ![x] = n]
          /\ cached' = [cached EXCEPT ![x] = n \in ReadySkills]
    BY <1>9 DEF StartRun
  <2>2. UNCHANGED <<offered, asked, used, ran>>
    BY <1>9 DEF StartRun
  <2>3. ASSUME NEW y \in Runs, y # x PROVE Fine(y)'
    BY <1>7, <2>1, <2>2, <2>3 DEF TypeOK
  <2>4. Fine(x)'
    <3>1. held'[x] = n /\ cached'[x] = (n \in ReadySkills) /\ at'[x] \notin {"load", "script"}
      BY <2>1 DEF TypeOK
    <3>2. offered[x] \subseteq VettedNames'
      BY <1>5 DEF UseInv
    <3>3. n \in ReadySkills => n \in VettedNames'
      BY <1>5, <1>6
    <3> QED  BY <2>2, <3>1, <3>2, <3>3
  <2> QED  BY <1>8, <2>2, <2>3, <2>4 DEF UseInv
<1>10. ASSUME OpenTurn(x) PROVE UseInv'
  <2>1. /\ UNCHANGED <<held, cached, asked, used, ran>>
        /\ \A y \in Runs \ {x} : at'[y] = at[y] /\ offered'[y] = offered[y]
        /\ at'[x] \in {"ended", "model"} /\ offered'[x] \subseteq ReadySkills
    BY <1>10 DEF OpenTurn, TypeOK
  <2>2. ASSUME NEW y \in Runs, y # x PROVE Fine(y)'
    BY <1>7, <2>1, <2>2
  <2>3. Fine(x)'
    <3>1. cached[x] /\ held[x] # None => held[x] \in VettedNames'
      BY <1>5 DEF UseInv
    <3>2. offered'[x] \subseteq VettedNames'
      BY <1>5, <1>6, <2>1
    <3> QED  BY <2>1, <3>1, <3>2
  <2> QED  BY <1>8, <2>1, <2>2, <2>3 DEF UseInv
<1>11. ASSUME AnswerTurn(x) PROVE UseInv'
  <2>1. /\ UNCHANGED <<held, cached, offered, used, ran>>
        /\ \A y \in Runs \ {x} : at'[y] = at[y] /\ asked'[y] = asked[y]
        /\ \/ at'[x] = "ended"
           \/ asked'[x] \in offered[x]
    BY <1>11 DEF AnswerTurn, TypeOK
  <2>2. ASSUME NEW y \in Runs, y # x PROVE Fine(y)'
    BY <1>7, <2>1, <2>2
  <2>3. Fine(x)'
    <3>1. cached[x] /\ held[x] # None => held[x] \in VettedNames'
      BY <1>5 DEF UseInv
    <3>2. offered[x] \subseteq VettedNames'
      BY <1>5 DEF UseInv
    <3> QED  BY <2>1, <3>1, <3>2
  <2> QED  BY <1>8, <2>1, <2>2, <2>3 DEF UseInv
<1>12. ASSUME LoadSkill(x) PROVE UseInv'
  <2>1. /\ UNCHANGED <<held, cached, offered, asked, ran>>
        /\ \A y \in Runs : at'[y] = at[y] \/ at'[y] = "turn"
        /\ at[x] = "load" /\ used' \subseteq used \cup {asked[x]}
    BY <1>12 DEF LoadSkill, TypeOK
  <2>2. \A y \in Runs : Fine(y)'
    BY <1>7, <2>1
  <2>3. asked[x] \in Names /\ Vetted(asked[x])
    BY <2>1 DEF UseInv, VettedNames
  <2>4. OnlyVettedSkillsUsed'
    <3>1. OnlyVettedSkillsUsed /\ used \subseteq Names /\ pack' = pack
      BY <1>0 DEF UseInv, TypeOK
    <3>2. ASSUME NEW n \in used' PROVE Vetted(n)'
      BY <1>5, <2>1, <2>3, <3>1, <3>2 DEF OnlyVettedSkillsUsed
    <3>3. ASSUME NEW n \in Names, NEW s \in Scripts, <<n, s>> \in ran'
          PROVE  Vetted(n)' /\ s \in pack'[row'[n]].scripts
      BY <1>5, <2>1, <3>1, <3>3 DEF OnlyVettedSkillsUsed
    <3> QED  BY <3>2, <3>3 DEF OnlyVettedSkillsUsed
  <2> QED  BY <2>2, <2>4 DEF UseInv
<1>13. ASSUME RunScript(x) PROVE UseInv'
  <2>1. /\ UNCHANGED <<held, offered, asked, used>>
        /\ \A y \in Runs : at'[y] = at[y] \/ at'[y] = "turn"
        /\ \A y \in Runs : cached'[y] = cached[y] \/ ~cached'[y]
        /\ at[x] = "script"
    BY <1>13 DEF RunScript, TypeOK
  <2>2. \A y \in Runs : Fine(y)'
    BY <1>7, <2>1
  <2>3. asked[x] \in Names /\ Vetted(asked[x])
    BY <2>1 DEF UseInv, VettedNames
  <2>4. \A n \in Names, t \in Scripts : <<n, t>> \in ran' \ ran =>
          n = asked[x] /\ manifest[row[n]][t] = "passed"
    BY <1>13 DEF RunScript
  <2>5. \A t \in Scripts : manifest[row[asked[x]]][t] = "passed" =>
          t \in pack[row[asked[x]]].scripts
    BY <2>3 DEF Vetted, Sound, TypeOK
  <2>6. OnlyVettedSkillsUsed'
    <3>1. OnlyVettedSkillsUsed /\ used \subseteq Names /\ pack' = pack
      BY <1>0 DEF UseInv, TypeOK
    <3>2. \A n \in used' : Vetted(n)'
      BY <1>5, <2>1, <3>1 DEF OnlyVettedSkillsUsed
    <3>3. ASSUME NEW n \in Names, NEW t \in Scripts, <<n, t>> \in ran'
          PROVE  Vetted(n)' /\ t \in pack'[row'[n]].scripts
      <4>1. <<n, t>> \in ran => Vetted(n) /\ t \in pack[row[n]].scripts
        BY <3>1 DEF OnlyVettedSkillsUsed
      <4>2. <<n, t>> \notin ran => n = asked[x] /\ t \in pack[row[n]].scripts
        BY <2>4, <2>5, <3>3
      <4> QED  BY <1>0, <1>5, <2>3, <4>1, <4>2
    <3> QED  BY <3>2, <3>3 DEF OnlyVettedSkillsUsed
  <2> QED  BY <2>2, <2>6 DEF UseInv
<1>14. UseInv'
  BY <1>9, <1>10, <1>11, <1>12, <1>13 DEF Run
<1> QED  BY <1>1, <1>2, <1>3, <1>4, <1>14

LEMMA CrashKeepsInv ==
  ASSUME IInv, Frame, Crash
  PROVE  UploadInv' /\ RowInv' /\ AnswerInv' /\ ReviewInv' /\ UseInv'
<1> USE DEF IInv
<1>0. /\ UNCHANGED <<pack, judged, manifest, verdict, row, status, flag, target, seen>>
      /\ UNCHANGED <<held, cached, offered, asked, used, ran>>
      /\ \A u \in Uploads : upc'[u] = IF upc[u] \in UploadBusy THEN "gone" ELSE upc[u]
      /\ \A r \in Reviewers : rpc'[r] = rpc[r] \/ rpc'[r] = "gone"
      /\ \A x \in Runs : at'[x] \in {"idle", "ended"}
  BY DEF Crash, rowVars
<1>1. UploadInv'
  BY <1>0, UploadFactStays DEF UploadInv
<1>2. \A n \in Names : row[n] # None => row[n] \in Uploads
  BY DEF TypeOK
<1>3. RowInv'
  BY <1>0, <1>2, RowFactStays DEF RowInv
<1>4. ASSUME NEW v \in Uploads PROVE AnswerFact(v)'
  BY <1>0 DEF AnswerInv, AnswerFact, NameOf
<1>5. \A n \in Names : row[n] # None /\ upc[row[n]] \in {"pending", "gone"} =>
        upc'[row[n]] = upc[row[n]]
  BY <1>0, <1>2 DEF UploadBusy
<1>6. ReviewInv'
  BY <1>0, <1>5, ReviewFactStays DEF ReviewInv
<1>7. UseInv'
  BY <1>0, UseStays
<1> QED  BY <1>1, <1>3, <1>4, <1>6, <1>7 DEF AnswerInv

-----------------------------------------------------------------------------
(***************************************************************************)
(* The theorems.                                                           *)
(***************************************************************************)
LEMMA NextFrame ==
  ASSUME IInv, Next
  PROVE  Frame
<1>1. ASSUME NEW u \in Uploads, Upload(u) PROVE Frame
  BY <1>1, UploadFrame DEF IInv
<1>2. ASSUME NEW r \in Reviewers, Review(r) PROVE Frame
  BY <1>2, ReviewFrame DEF IInv
<1>3. ASSUME NEW x \in Runs, Run(x) PROVE Frame
  BY <1>3, RunFrame
<1>4. CASE Crash
  BY <1>4, CrashFrame DEF IInv
<1> QED  BY <1>1, <1>2, <1>3, <1>4 DEF Next

LEMMA Invariance == IInv /\ [Next]_vars => IInv'
<1> SUFFICES ASSUME IInv, [Next]_vars PROVE IInv'  OBVIOUS
<1>1. ASSUME NEW u \in Uploads, Upload(u) PROVE IInv'
  <2>1. Frame /\ TypeOK' /\ UploadInv'
    BY <1>1, UploadFrame, UploadType, UploadKeepsUploadInv DEF IInv
  <2>2. RowInv' /\ AnswerInv' /\ ReviewInv' /\ UseInv'
    BY <1>1, <2>1, EarlySteps, EarlyKeepsRest, StoreKeepsRest, SettleKeepsRest DEF Upload, IInv
  <2> QED  BY <2>1, <2>2 DEF IInv
<1>2. ASSUME NEW r \in Reviewers, Review(r) PROVE IInv'
  <2>1. Frame /\ TypeOK'
    BY <1>2, ReviewFrame, ReviewType DEF IInv
  <2> QED  BY <1>2, <2>1, CommitKeepsInv, OpenKeepsInv DEF Review, IInv
<1>3. ASSUME NEW x \in Runs, Run(x) PROVE IInv'
  <2>1. Frame /\ TypeOK'
    BY <1>3, RunFrame, RunType DEF IInv
  <2> QED  BY <1>3, <2>1, RunKeepsInv DEF IInv
<1>4. CASE Crash
  <2>1. Frame /\ TypeOK'
    BY <1>4, CrashFrame, CrashType DEF IInv
  <2> QED  BY <1>4, <2>1, CrashKeepsInv DEF IInv
<1>5. CASE UNCHANGED vars
  BY <1>5 DEF vars, uploadVars, rowVars, reviewVars, runVars, IInv, TypeOK,
     UploadInv, UploadFact, RowInv, RowFact, AnswerInv, AnswerFact, ReviewInv, ReviewFact,
     UseInv, VettedNames, OnlyVettedSkillsUsed, Vetted, Sound, NameOf
<1> QED  BY <1>1, <1>2, <1>3, <1>4, <1>5 DEF Next

LEMMA Invariant == Spec => []IInv
<1> QED  BY InitInv, Invariance, PTL DEF Spec

\* Every variable keeps its type: in particular no commit writes a status that
\* the CHECK constraint of skills refuses, and a manifest only names scripts of
\* its own package.
THEOREM TypeCorrect == Spec => []TypeOK
<1> QED  BY Invariant, PTL DEF IInv

\* With any number of uploads, reviews and runs at the same time, only skills
\* that passed every check and were approved are loaded, and only their tested
\* scripts are started (_load_ready_skill, approve_skill_for_agent).
THEOREM OnlyVettedAreUsed == Spec => []OnlyVettedSkillsUsed
<1>1. IInv => OnlyVettedSkillsUsed
  BY DEF IInv, UseInv
<1> QED  BY <1>1, Invariant, PTL

\* Nothing is put before an operator, or is ready, that did not pass every check
\* (upload_skill).
THEOREM ReviewableAreSound == Spec => []ReviewableIsSound
<1>1. IInv => ReviewableIsSound
  <2> SUFFICES ASSUME IInv, NEW n \in Names, status[n] \in {"testing", "ready"}
               PROVE  Sound(row[n]) /\ ~flag[n]
    BY DEF ReviewableIsSound
  <2>1. RowFact(n) /\ TypeOK /\ UploadInv
    BY DEF IInv, RowInv
  <2>2. row[n] \in Uploads /\ verdict[row[n]] = "testing" /\ ~flag[n]
    BY <2>1 DEF RowFact, TypeOK
  <2> QED  BY <2>1, <2>2 DEF UploadInv, UploadFact
<1> QED  BY <1>1, Invariant, PTL

\* What an upload was told holds for good (upload_skill,
\* _persist_package_or_conflict).
THEOREM AnswersHold == Spec => []AnswerMatchesStore
<1>1. IInv => AnswerMatchesStore
  BY DEF IInv, UploadInv, UploadFact, AnswerInv, AnswerFact, AnswerMatchesStore
<1> QED  BY <1>1, Invariant, PTL

\* No step replaces a stored package or the manifest that was reviewed
\* (_persist_package_or_conflict).
THEOREM StoredStaysStored == Spec => StoredIsNotReplaced
<1>1. IInv /\ Next => \A n \in Names : row[n] # None =>
        row'[n] = row[n] /\ manifest'[row[n]] = manifest[row[n]]
  BY NextFrame, StoredStays DEF IInv
<1>2. IInv /\ [Next]_vars => [\A n \in Names : row[n] # None =>
        row'[n] = row[n] /\ manifest'[row[n]] = manifest[row[n]]]_vars
  BY <1>1
<1> QED  BY <1>2, Invariant, PTL DEF Spec, StoredIsNotReplaced
=============================================================================
