---------------------------- MODULE Sources_proofs ----------------------------
(***************************************************************************)
(* Proofs about where the knowledge base comes from: the changes of Google *)
(* Drive (DriveSync), the walk of Notion's pages (NotionCrawl) and the     *)
(* facts users tell it, saved in a repository (KnowledgeFiles).  The       *)
(* components share no variable: each part below proves one inductive      *)
(* invariant of one of them, and its property follows from it.  The last   *)
(* part is about all components of MCServices beside each other.           *)
(***************************************************************************)
EXTENDS MCServices, BotServices_proofs, McpClient_proofs, DiscordSync_proofs, FiniteSetTheorems,
        SequenceTheorems, TLAPS

-----------------------------------------------------------------------------
(*****************************************************************************)
(* The changes of Google Drive.                                              *)
(*****************************************************************************)

\* How many of a file's changes are among the first t.
ChangesUpto(f, t) == Cardinality({j \in Changed(f) : j <= t})

DriveTypes ==
  /\ changes \in Seq(DriveFile) /\ Len(changes) <= MaxChanges
  /\ held \in [DriveFile -> 0 .. MaxChanges]
  /\ token \in 0 .. Len(changes)
  /\ haveToken \in BOOLEAN
  /\ run \in [DriveRun -> [at : {"rest", "changes", "files", "token", "state"}, from : 0 .. Len(changes),
                           have : BOOLEAN, todo : SUBSET DriveFile, file : SUBSET DriveFile,
                           got : 0 .. MaxChanges, more : BOOLEAN]]
  /\ driveFaults \in 0 .. MaxDriveFaults
  /\ unseen \in SUBSET DriveFile

\* What a sync has fetched and what it is still to fetch up to where it stands.
StillToStore(s, f) ==
  /\ run[s].at = "files"
  /\ f \in run[s].todo \/ (f \in run[s].file /\ run[s].got >= ChangesUpto(f, run[s].from))

SyncInv(s) ==
  /\ \A f \in DriveFile \ unseen : held[f] >= ChangesUpto(f, run[s].from) \/ StillToStore(s, f)
  /\ \A f, g \in run[s].file : f = g
  /\ \A f \in run[s].file : run[s].got <= Version(f)

DriveInv ==
  /\ DriveTypes
  /\ \A s \in DriveRun : SyncInv(s)
  /\ \A f \in DriveFile : held[f] <= Version(f)
  /\ \A f \in DriveFile \ unseen : held[f] >= ChangesUpto(f, token)

-----------------------------------------------------------------------------
(* Counting the changes of a file. *)

LEMMA FirstNumbers == \A n \in Nat : IsFiniteSet(1 .. n) /\ Cardinality(1 .. n) = n
<1> TAKE n \in Nat
<1>1. 1 \in Int /\ n \in Int
  OBVIOUS
<1>2. IsFiniteSet(1 .. n) /\ Cardinality(1 .. n) = IF 1 > n THEN 0 ELSE n - 1 + 1
  BY <1>1, FS_Interval
<1> QED
  BY <1>2

LEMMA ChangesCounted ==
  ASSUME changes \in Seq(DriveFile), Len(changes) <= MaxChanges, NEW f
  PROVE  /\ Version(f) \in 0 .. MaxChanges
         /\ \A t \in Nat : ChangesUpto(f, t) \in Nat /\ ChangesUpto(f, t) <= Version(f)
         /\ \A t, u \in Nat : t <= u => ChangesUpto(f, t) <= ChangesUpto(f, u)
         /\ ChangesUpto(f, 0) = 0
<1>0. Len(changes) \in Nat /\ MaxChanges \in Nat /\ DOMAIN changes = 1 .. Len(changes)
  BY DriveAssumption
<1>1. IsFiniteSet(1 .. Len(changes)) /\ Cardinality(1 .. Len(changes)) = Len(changes)
  BY <1>0, FirstNumbers
<1>2. Changed(f) \subseteq 1 .. Len(changes)
  BY <1>0 DEF Changed
<1>3. IsFiniteSet(Changed(f)) /\ Version(f) \in Nat /\ Version(f) <= Len(changes)
  BY <1>1, <1>2, FS_Subset, FS_CardinalityType DEF Version
<1>4. ASSUME NEW t \in Nat
      PROVE  ChangesUpto(f, t) \in Nat /\ ChangesUpto(f, t) <= Version(f)
  <2>1. {j \in Changed(f) : j <= t} \subseteq Changed(f)
    OBVIOUS
  <2> QED
    BY <1>3, <2>1, FS_Subset, FS_CardinalityType DEF ChangesUpto, Version
<1>5. ASSUME NEW t \in Nat, NEW u \in Nat, t <= u
      PROVE  ChangesUpto(f, t) <= ChangesUpto(f, u)
  <2>1. {j \in Changed(f) : j <= u} \subseteq Changed(f)
    OBVIOUS
  <2>2. IsFiniteSet({j \in Changed(f) : j <= u})
    BY <1>3, <2>1, FS_Subset
  <2>3. ASSUME NEW j \in Changed(f), j <= t  PROVE j <= u
    <3>1. j \in Nat
      BY <1>0, <1>2
    <3> QED
      BY <1>5, <2>3, <3>1
  <2>4. {j \in Changed(f) : j <= t} \subseteq {j \in Changed(f) : j <= u}
    BY <2>3
  <2> QED
    BY <2>2, <2>4, FS_Subset DEF ChangesUpto
<1>6. ChangesUpto(f, 0) = 0
  <2>1. {j \in Changed(f) : j <= 0} = {}
    BY <1>0, <1>2
  <2> QED
    BY <2>1, FS_EmptySet DEF ChangesUpto
<1> QED
  BY <1>0, <1>3, <1>4, <1>5, <1>6

\* A file that is not among the changes between two positions has as many up to both.
LEMMA NoChangesBetween ==
  ASSUME changes \in Seq(DriveFile), NEW f, NEW t \in 0 .. Len(changes), NEW u \in 0 .. Len(changes),
         t <= u, f \notin {changes[i] : i \in (t + 1) .. u}
  PROVE  ChangesUpto(f, u) = ChangesUpto(f, t)
<1>0. Len(changes) \in Nat /\ DOMAIN changes = 1 .. Len(changes)
  OBVIOUS
<1>1. ASSUME NEW j \in Changed(f), j <= u  PROVE j <= t
  <2>1. j \in 1 .. Len(changes) /\ changes[j] = f
    BY <1>0 DEF Changed
  <2>2. j \notin (t + 1) .. u
    BY <2>1
  <2> QED
    BY <1>0, <1>1, <2>1, <2>2
<1>2. ASSUME NEW j \in Changed(f), j <= t  PROVE j <= u
  <2>1. j \in Nat
    BY <1>0 DEF Changed
  <2> QED
    BY <1>0, <1>2, <2>1
<1>3. {j \in Changed(f) : j <= u} = {j \in Changed(f) : j <= t}
  BY <1>1, <1>2
<1> QED
  BY <1>3 DEF ChangesUpto

\* A change that is added at the end leaves the counts before it alone.
LEMMA ChangeAdded ==
  ASSUME changes \in Seq(DriveFile), Len(changes) < MaxChanges, NEW g \in DriveFile,
         changes' = Append(changes, g), NEW f
  PROVE  /\ changes' \in Seq(DriveFile) /\ Len(changes') = Len(changes) + 1
         /\ \A t \in 0 .. Len(changes) : ChangesUpto(f, t)' = ChangesUpto(f, t)
         /\ Version(f) <= Version(f)'
<1>0. Len(changes) \in Nat /\ MaxChanges \in Nat /\ DOMAIN changes = 1 .. Len(changes)
  BY DriveAssumption
<1>1. /\ changes' \in Seq(DriveFile) /\ Len(changes') = Len(changes) + 1
      /\ \A i \in 1 .. Len(changes) : changes'[i] = changes[i]
  BY <1>0, AppendProperties
<1>2. DOMAIN changes' = 1 .. Len(changes) + 1
  BY <1>0, <1>1
<1>3. \A i : i \in Changed(f) <=> i \in Changed(f)' /\ i \in 1 .. Len(changes)
  BY <1>0, <1>1, <1>2 DEF Changed
<1>4. ASSUME NEW t \in 0 .. Len(changes)  PROVE ChangesUpto(f, t)' = ChangesUpto(f, t)
  <2>1. {j \in Changed(f)' : j <= t} = {j \in Changed(f) : j <= t}
    <3>1. ASSUME NEW j \in Changed(f)', j <= t  PROVE j \in Changed(f)
      <4>1. j \in 1 .. Len(changes) + 1
        BY <1>2 DEF Changed
      <4> QED
        BY <1>0, <1>3, <3>1, <4>1
    <3> QED
      BY <1>3, <3>1
  <2> QED
    BY <2>1 DEF ChangesUpto
<1>5. Version(f) <= Version(f)'
  <2>1. Changed(f)' \subseteq 1 .. Len(changes) + 1
    BY <1>2 DEF Changed
  <2>2. IsFiniteSet(1 .. Len(changes) + 1)
    BY <1>0, FS_Interval
  <2>3. IsFiniteSet(Changed(f)') /\ Changed(f) \subseteq Changed(f)'
    BY <1>3, <2>1, <2>2, FS_Subset
  <2> QED
    BY <2>3, FS_Subset DEF Version
<1> QED
  BY <1>1, <1>4, <1>5

-----------------------------------------------------------------------------
(* One step of each kind. *)

LEMMA DriveInitInv == DriveInit => DriveInv
<1> SUFFICES ASSUME DriveInit  PROVE DriveInv
  OBVIOUS
<1>1. /\ changes = <<>> /\ held = [f \in DriveFile |-> 0] /\ token = 0 /\ haveToken = FALSE
      /\ run = [s \in DriveRun |-> Resting] /\ driveFaults = 0 /\ unseen = {}
  BY DEF DriveInit
<1>2. MaxChanges \in Nat /\ MaxDriveFaults \in Nat
  BY DriveAssumption
<1>3. changes \in Seq(DriveFile) /\ Len(changes) = 0
  BY <1>1
<1>4. DriveTypes
  <2>1. run \in [DriveRun -> [at : {"rest", "changes", "files", "token", "state"},
                              from : 0 .. Len(changes), have : BOOLEAN, todo : SUBSET DriveFile,
                              file : SUBSET DriveFile, got : 0 .. MaxChanges, more : BOOLEAN]]
    BY <1>1, <1>2, <1>3 DEF Resting
  <2>2. held \in [DriveFile -> 0 .. MaxChanges] /\ driveFaults \in 0 .. MaxDriveFaults
        /\ Len(changes) <= MaxChanges /\ token \in 0 .. Len(changes)
    BY <1>1, <1>2, <1>3
  <2>3. haveToken \in BOOLEAN /\ unseen \in SUBSET DriveFile
    BY <1>1
  <2> QED
    BY <1>3, <2>1, <2>2, <2>3 DEF DriveTypes
<1>5. ASSUME NEW f \in DriveFile
      PROVE  held[f] <= Version(f) /\ held[f] >= ChangesUpto(f, 0)
  <2>1. Version(f) \in 0 .. MaxChanges /\ ChangesUpto(f, 0) = 0
    BY <1>2, <1>3, ChangesCounted
  <2> QED
    BY <1>1, <1>2, <2>1
<1>6. ASSUME NEW s \in DriveRun  PROVE SyncInv(s)
  <2>1. run[s].from = 0 /\ run[s].file = {}
    BY <1>1 DEF Resting
  <2> QED
    BY <1>5, <2>1 DEF SyncInv
<1> QED
  BY <1>1, <1>4, <1>5, <1>6 DEF DriveInv

Positions == 0 .. Len(changes)
RunTypes == [at : {"rest", "changes", "files", "token", "state"}, from : Positions, have : BOOLEAN,
             todo : SUBSET DriveFile, file : SUBSET DriveFile, got : 0 .. MaxChanges, more : BOOLEAN]

\* A step of one sync that leaves the others and Drive itself alone.
LEMMA RunStep ==
  ASSUME DriveInv, NEW s \in DriveRun, NEW next \in RunTypes, run' = [run EXCEPT ![s] = next],
         UNCHANGED changes, held' \in [DriveFile -> 0 .. MaxChanges], haveToken' \in BOOLEAN,
         token' \in Positions, driveFaults' \in 0 .. MaxDriveFaults, unseen' \in SUBSET DriveFile,
         \A f \in DriveFile : held'[f] <= Version(f),
         \A f \in DriveFile \ unseen' :
           held'[f] >= ChangesUpto(f, token') \/ held'[f] = Version(f),
         \A f \in DriveFile \ unseen' : held'[f] = Version(f) \/ (f \notin unseen /\ held'[f] >= held[f]),
         \A f \in DriveFile \ unseen' :
           \/ held'[f] >= ChangesUpto(f, next.from)
           \/ /\ next.at = "files"
              /\ f \in next.todo \/ (f \in next.file /\ next.got >= ChangesUpto(f, next.from)),
         \A f, g \in next.file : f = g,
         \A f \in next.file : next.got <= Version(f)
  PROVE  DriveInv'
<1>0. /\ changes \in Seq(DriveFile) /\ Len(changes) <= MaxChanges /\ Len(changes) \in Nat
      /\ run \in [DriveRun -> RunTypes] /\ held \in [DriveFile -> 0 .. MaxChanges]
      /\ MaxChanges \in Nat
  BY DriveAssumption DEF DriveInv, DriveTypes, RunTypes, Positions
<1>1. /\ run' \in [DriveRun -> RunTypes] /\ run'[s] = next
      /\ \A q \in DriveRun : q # s => run'[q] = run[q]
  BY <1>0
<1>2. \A f, t : ChangesUpto(f, t)' = ChangesUpto(f, t) /\ Version(f)' = Version(f)
  BY DEF ChangesUpto, Version, Changed
<1>3. DriveTypes'
  BY <1>0, <1>1 DEF DriveTypes, RunTypes, Positions
<1>4. \A f \in DriveFile : Version(f) \in Nat /\ held'[f] \in Nat /\ held[f] \in Nat
  BY <1>0, ChangesCounted
<1>5. ASSUME NEW f \in DriveFile, NEW t \in Positions, held'[f] = Version(f)
      PROVE  held'[f] >= ChangesUpto(f, t)
  <2>1. t \in Nat /\ ChangesUpto(f, t) \in Nat /\ ChangesUpto(f, t) <= Version(f)
    BY <1>0, ChangesCounted DEF Positions
  <2> QED
    BY <1>4, <1>5, <2>1
<1>6. ASSUME NEW q \in DriveRun  PROVE SyncInv(q)'
  <2>1. CASE q = s
    <3>1. /\ \A f \in DriveFile \ unseen' :
               held'[f] >= ChangesUpto(f, run'[q].from) \/ StillToStore(q, f)'
          /\ \A f, g \in run'[q].file : f = g
          /\ \A f \in run'[q].file : run'[q].got <= Version(f)
      BY <1>1, <1>2, <2>1 DEF StillToStore
    <3> QED
      BY <1>2, <3>1 DEF SyncInv
  <2>2. CASE q # s
    <3>0. run'[q] = run[q] /\ run[q] \in RunTypes /\ run[q].from \in Positions /\ SyncInv(q)
      BY <1>0, <1>1, <2>2 DEF DriveInv, RunTypes
    <3>1. ASSUME NEW f \in DriveFile \ unseen'
          PROVE  held'[f] >= ChangesUpto(f, run[q].from) \/ StillToStore(q, f)'
      <4>1. CASE held'[f] = Version(f)
        BY <1>5, <3>0, <4>1
      <4>2. CASE f \notin unseen /\ held'[f] >= held[f]
        <5>1. held[f] >= ChangesUpto(f, run[q].from) \/ StillToStore(q, f)
          BY <3>0, <4>2 DEF SyncInv
        <5>2. StillToStore(q, f) => StillToStore(q, f)'
          BY <3>0 DEF StillToStore, ChangesUpto, Changed
        <5>3. ChangesUpto(f, run[q].from) \in Nat
          <6>1. run[q].from \in Nat
            BY <1>0, <3>0 DEF Positions
          <6>2. \A t \in Nat : ChangesUpto(f, t) \in Nat
            BY <1>0, ChangesCounted
          <6> QED
            BY <6>1, <6>2
        <5>4. held[f] >= ChangesUpto(f, run[q].from) => held'[f] >= ChangesUpto(f, run[q].from)
          BY <1>4, <4>2, <5>3
        <5> QED
          BY <5>1, <5>2, <5>4
      <4> QED
        BY <4>1, <4>2
    <3> QED
      BY <1>2, <3>0, <3>1 DEF SyncInv
  <2> QED
    BY <2>1, <2>2
<1>7. \A f \in DriveFile \ unseen' : held'[f] >= ChangesUpto(f, token')
  BY <1>5
<1> QED
  BY <1>2, <1>3, <1>6, <1>7 DEF DriveInv

LEMMA FileChangesKeeps ==
  ASSUME DriveInv, NEW g \in DriveFile, FileChanges(g)  PROVE DriveInv'
<1>0. /\ changes \in Seq(DriveFile) /\ Len(changes) < MaxChanges /\ Len(changes) \in Nat
      /\ changes' = Append(changes, g) /\ MaxChanges \in Nat
      /\ UNCHANGED <<held, token, haveToken, run, driveFaults, unseen>>
      /\ DriveTypes
  BY DriveAssumption DEF DriveInv, DriveTypes, FileChanges
<1>1. /\ changes' \in Seq(DriveFile) /\ Len(changes') = Len(changes) + 1
      /\ Positions \subseteq 0 .. Len(changes')
  <2>1. changes' \in Seq(DriveFile) /\ Len(changes') = Len(changes) + 1
    BY <1>0, ChangeAdded
  <2> QED
    BY <1>0, <2>1 DEF Positions
<1>2. \A f \in DriveFile : \A t \in Positions : ChangesUpto(f, t)' = ChangesUpto(f, t)
  BY <1>0, ChangeAdded DEF Positions
<1>3. \A f \in DriveFile : /\ Version(f) \in Nat /\ Version(f)' \in Nat /\ Version(f) <= Version(f)'
  <2> TAKE f \in DriveFile
  <2>1. Version(f) \in 0 .. MaxChanges
    BY <1>0, ChangesCounted
  <2>2. Version(f) <= Version(f)'
    BY <1>0, ChangeAdded
  <2>3. IsFiniteSet(Changed(f)')
    <3>1. Changed(f)' \subseteq 1 .. Len(changes')
      BY <1>1 DEF Changed
    <3>2. IsFiniteSet(1 .. Len(changes'))
      BY <1>0, <1>1, FirstNumbers
    <3> QED
      BY <3>1, <3>2, FS_Subset
  <2>4. Version(f)' \in Nat
    BY <2>3, FS_CardinalityType DEF Version
  <2> QED
    BY <1>0, <2>1, <2>2, <2>4
<1>4. DriveTypes'
  <2>1. /\ \A x \in [at : {"rest", "changes", "files", "token", "state"}, from : Positions,
                      have : BOOLEAN, todo : SUBSET DriveFile, file : SUBSET DriveFile,
                      got : 0 .. MaxChanges, more : BOOLEAN] :
             x \in [at : {"rest", "changes", "files", "token", "state"}, from : 0 .. Len(changes'),
                    have : BOOLEAN, todo : SUBSET DriveFile, file : SUBSET DriveFile,
                    got : 0 .. MaxChanges, more : BOOLEAN]
    BY <1>1
  <2>2. run' \in [DriveRun -> [at : {"rest", "changes", "files", "token", "state"},
                               from : 0 .. Len(changes'), have : BOOLEAN, todo : SUBSET DriveFile,
                               file : SUBSET DriveFile, got : 0 .. MaxChanges, more : BOOLEAN]]
    BY <1>0, <2>1 DEF DriveTypes, Positions
  <2>3. token' \in 0 .. Len(changes') /\ Len(changes') <= MaxChanges
    BY <1>0, <1>1 DEF DriveTypes, Positions
  <2> QED
    BY <1>0, <1>1, <2>2, <2>3 DEF DriveTypes
<1>5. ASSUME NEW s \in DriveRun  PROVE SyncInv(s)'
  <2>0. SyncInv(s) /\ run[s].from \in Positions /\ run'[s] = run[s] /\ run[s].got \in Nat
        /\ run[s].file \in SUBSET DriveFile
    BY <1>0 DEF DriveInv, DriveTypes, Positions
  <2>1. \A f \in DriveFile : StillToStore(s, f) => StillToStore(s, f)'
    BY <1>0, <1>2, <2>0 DEF StillToStore
  <2>2. \A f \in DriveFile : ChangesUpto(f, run[s].from)' = ChangesUpto(f, run[s].from)
    BY <1>0, <1>2, <2>0
  <2>3. \A f \in DriveFile \ unseen' : held'[f] >= ChangesUpto(f, run[s].from)' \/ StillToStore(s, f)'
    BY <1>0, <2>0, <2>1, <2>2 DEF SyncInv
  <2>4. \A f \in run'[s].file : run'[s].got <= Version(f)'
    BY <1>3, <2>0 DEF SyncInv
  <2> QED
    BY <1>0, <2>0, <2>3, <2>4 DEF SyncInv
<1>6. \A f \in DriveFile : held'[f] <= Version(f)'
  <2> TAKE f \in DriveFile
  <2>1. held[f] \in Nat /\ held[f] <= Version(f) /\ Version(f) \in Nat /\ Version(f)' \in Nat
        /\ Version(f) <= Version(f)'
    BY <1>0, <1>3 DEF DriveInv, DriveTypes
  <2> QED
    BY <1>0, <2>1
<1>7. \A f \in DriveFile \ unseen' : held'[f] >= ChangesUpto(f, token)'
  <2>1. token \in Positions
    BY <1>0 DEF DriveTypes, Positions
  <2>2. \A f \in DriveFile : ChangesUpto(f, token)' = ChangesUpto(f, token)
    BY <1>0, <1>2, <2>1
  <2> QED
    BY <1>0, <2>2 DEF DriveInv
<1> QED
  BY <1>4, <1>5, <1>6, <1>7 DEF DriveInv

\* A step of one sync that changes nothing but the sync itself.
LEMMA OnlyTheRun ==
  ASSUME DriveInv, NEW s \in DriveRun, NEW next \in RunTypes, run' = [run EXCEPT ![s] = next],
         UNCHANGED <<changes, held, token, haveToken, unseen>>, driveFaults' \in 0 .. MaxDriveFaults,
         \A f \in DriveFile \ unseen :
           \/ held[f] >= ChangesUpto(f, next.from)
           \/ /\ next.at = "files"
              /\ f \in next.todo \/ (f \in next.file /\ next.got >= ChangesUpto(f, next.from)),
         \A f, g \in next.file : f = g,
         \A f \in next.file : next.got <= Version(f)
  PROVE  DriveInv'
<1>1. /\ held' \in [DriveFile -> 0 .. MaxChanges] /\ haveToken' \in BOOLEAN /\ token' \in Positions
      /\ unseen' \in SUBSET DriveFile /\ \A f \in DriveFile : held[f] \in Nat
      /\ \A f \in DriveFile : held'[f] <= Version(f)
  BY DriveAssumption DEF DriveInv, DriveTypes, Positions
<1>2. /\ \A f \in DriveFile \ unseen' : held'[f] >= ChangesUpto(f, token')
      /\ \A f \in DriveFile \ unseen' : f \notin unseen /\ held'[f] >= held[f]
  BY <1>1 DEF DriveInv
<1> QED
  BY <1>1, <1>2, RunStep

\* What every step of a sync starts from.
LEMMA RunFacts ==
  ASSUME DriveInv, NEW s \in DriveRun
  PROVE  /\ changes \in Seq(DriveFile) /\ Len(changes) <= MaxChanges /\ Len(changes) \in Nat
         /\ MaxChanges \in Nat /\ 0 \in Positions /\ Resting \in RunTypes
         /\ run[s] \in RunTypes /\ run \in [DriveRun -> RunTypes] /\ SyncInv(s)
         /\ token \in Positions /\ haveToken \in BOOLEAN
         /\ held \in [DriveFile -> 0 .. MaxChanges] /\ unseen \in SUBSET DriveFile
         /\ driveFaults \in 0 .. MaxDriveFaults
         /\ DriveFault => driveFaults' \in 0 .. MaxDriveFaults
<1>1. /\ changes \in Seq(DriveFile) /\ Len(changes) <= MaxChanges /\ Len(changes) \in Nat
      /\ MaxChanges \in Nat /\ MaxDriveFaults \in Nat
      /\ run \in [DriveRun -> RunTypes] /\ SyncInv(s)
      /\ token \in Positions /\ haveToken \in BOOLEAN
      /\ held \in [DriveFile -> 0 .. MaxChanges] /\ unseen \in SUBSET DriveFile
      /\ driveFaults \in 0 .. MaxDriveFaults
  BY DriveAssumption DEF DriveInv, DriveTypes, RunTypes, Positions
<1>2. 0 \in Positions
  BY <1>1 DEF Positions
<1>3. Resting \in RunTypes
  BY <1>1, <1>2 DEF Resting, RunTypes
<1>4. DriveFault => driveFaults' \in 0 .. MaxDriveFaults
  BY <1>1 DEF DriveFault
<1> QED
  BY <1>1, <1>2, <1>3, <1>4

\* From the start everything is still to come.
LEMMA NothingYet ==
  ASSUME DriveInv, NEW f \in DriveFile
  PROVE  held[f] >= ChangesUpto(f, 0)
<1>1. changes \in Seq(DriveFile) /\ Len(changes) <= MaxChanges /\ held[f] \in Nat
  BY DriveAssumption DEF DriveInv, DriveTypes
<1>2. ChangesUpto(f, 0) = 0
  BY <1>1, ChangesCounted
<1> QED
  BY <1>1, <1>2

LEMMA SyncDriveKeeps ==
  ASSUME DriveInv, NEW s \in DriveRun, SyncDrive(s)  PROVE DriveInv'
<1>0. /\ 0 \in Positions /\ Resting \in RunTypes /\ token \in Positions
      /\ driveFaults \in 0 .. MaxDriveFaults
  BY RunFacts
<1>1. /\ UNCHANGED <<changes, held, token, haveToken, driveFaults, unseen>>
      /\ run' = [run EXCEPT ![s] =
          IF haveToken
          THEN [Resting EXCEPT !.at = "changes", !.from = token, !.have = TRUE]
          ELSE [Resting EXCEPT !.at = "files", !.todo = {f \in DriveFile : Version(f) > 0}]]
  BY DEF SyncDrive
<1>2. CASE haveToken
  <2> DEFINE next == [Resting EXCEPT !.at = "changes", !.from = token, !.have = TRUE]
  <2>1. next \in RunTypes /\ next.from = token /\ next.file = {} /\ run' = [run EXCEPT ![s] = next]
    BY <1>0, <1>1, <1>2 DEF Resting, RunTypes
  <2> HIDE DEF next
  <2>2. \A f \in DriveFile \ unseen : held[f] >= ChangesUpto(f, next.from)
    BY <2>1 DEF DriveInv
  <2> QED
    BY <1>0, <1>1, <2>1, <2>2, OnlyTheRun
<1>3. CASE ~ haveToken
  <2> DEFINE next == [Resting EXCEPT !.at = "files", !.todo = {f \in DriveFile : Version(f) > 0}]
  <2>1. next \in RunTypes /\ next.from = 0 /\ next.file = {} /\ run' = [run EXCEPT ![s] = next]
    BY <1>0, <1>1, <1>3 DEF Resting, RunTypes
  <2> HIDE DEF next
  <2>2. \A f \in DriveFile \ unseen : held[f] >= ChangesUpto(f, next.from)
    BY <2>1, NothingYet
  <2> QED
    BY <1>0, <1>1, <2>1, <2>2, OnlyTheRun
<1> QED
  BY <1>2, <1>3

LEMMA ListChangesKeeps ==
  ASSUME DriveInv, NEW s \in DriveRun, ListChanges(s)  PROVE DriveInv'
<1>0. /\ changes \in Seq(DriveFile) /\ Len(changes) \in Nat /\ run[s] \in RunTypes /\ SyncInv(s)
      /\ driveFaults \in 0 .. MaxDriveFaults /\ ChangePage \in Nat
  BY RunFacts, DriveAssumption
<1> DEFINE from == run[s].from
           until == Upto(from)
           next == [run[s] EXCEPT !.at = "files",
                                  !.todo = {changes[i] : i \in (from + 1) .. until},
                                  !.from = until,
                                  !.more = until < Len(changes)]
<1>1. /\ run[s].at = "changes" /\ UNCHANGED <<changes, held, token, haveToken, driveFaults, unseen>>
      /\ run' = [run EXCEPT ![s] = next]
  BY <1>0, RunFacts DEF ListChanges, AfterChanges, NextFrom, RunTypes
<1>2. from \in Positions /\ from \in Nat
  BY <1>0 DEF RunTypes, Positions
<1>3. until \in Positions /\ from <= until
  BY <1>0, <1>2 DEF Upto, Positions
<1> HIDE DEF until
<1>4. {changes[i] : i \in (from + 1) .. until} \in SUBSET DriveFile
  <2> SUFFICES ASSUME NEW i \in (from + 1) .. until  PROVE changes[i] \in DriveFile
    OBVIOUS
  <2>1. i \in 1 .. Len(changes)
    BY <1>0, <1>2, <1>3 DEF Positions
  <2> QED
    BY <1>0, <2>1
<1>5. /\ next \in RunTypes /\ next.at = "files" /\ next.from = until /\ next.file = run[s].file
      /\ next.got = run[s].got /\ next.todo = {changes[i] : i \in (from + 1) .. until}
  <2> DEFINE todo == {changes[i] : i \in (from + 1) .. until}
             more == until < Len(changes)
  <2>1. next = [run[s] EXCEPT !.at = "files", !.todo = todo, !.from = until, !.more = more]
    OBVIOUS
  <2>2. todo \in SUBSET DriveFile /\ more \in BOOLEAN
    BY <1>4
  <2> HIDE DEF todo, more, next
  <2>3. /\ next \in RunTypes /\ next.at = "files" /\ next.from = until /\ next.file = run[s].file
        /\ next.got = run[s].got /\ next.todo = todo
    BY <1>0, <1>3, <2>1, <2>2 DEF RunTypes
  <2> QED
    BY <2>3 DEF todo
<1>6. ASSUME NEW f \in DriveFile \ unseen
      PROVE  held[f] >= ChangesUpto(f, until) \/ f \in {changes[i] : i \in (from + 1) .. until}
  <2>1. held[f] >= ChangesUpto(f, from)
    BY <1>0, <1>1 DEF SyncInv, StillToStore
  <2>2. f \notin {changes[i] : i \in (from + 1) .. until} => ChangesUpto(f, until) = ChangesUpto(f, from)
    <3>1. from \in 0 .. Len(changes) /\ until \in 0 .. Len(changes)
      BY <1>2, <1>3 DEF Positions
    <3> HIDE DEF from
    <3> QED
      BY <1>0, <1>3, <3>1, NoChangesBetween
  <2> QED
    BY <2>1, <2>2
<1>7. /\ \A f, g \in run[s].file : f = g
      /\ \A f \in run[s].file : run[s].got <= Version(f)
  BY <1>0 DEF SyncInv
<1> HIDE DEF next, from
<1>8. /\ \A f, g \in next.file : f = g
      /\ \A f \in next.file : next.got <= Version(f)
      /\ \A f \in DriveFile \ unseen : held[f] >= ChangesUpto(f, next.from) \/ f \in next.todo
  BY <1>5, <1>6, <1>7
<1> QED
  BY <1>0, <1>1, <1>5, <1>8, OnlyTheRun

LEMMA RestKeeps ==
  ASSUME DriveInv, NEW s \in DriveRun, run' = [run EXCEPT ![s] = Resting],
         UNCHANGED <<changes, held, token, haveToken, unseen>>, driveFaults' \in 0 .. MaxDriveFaults
  PROVE  DriveInv'
<1>1. Resting \in RunTypes /\ Resting.from = 0 /\ Resting.file = {}
  BY RunFacts DEF Resting
<1>2. \A f \in DriveFile : held[f] >= ChangesUpto(f, Resting.from)
  BY <1>1, NothingYet
<1> QED
  BY <1>1, <1>2, OnlyTheRun

\* A file is fetched as it is, not as it was when the list was read.
LEMMA FetchFileKeeps ==
  ASSUME DriveInv, NEW s \in DriveRun, NEW g \in DriveFile, FetchFile(s, g)  PROVE DriveInv'
<1>0. /\ changes \in Seq(DriveFile) /\ Len(changes) \in Nat /\ Len(changes) <= MaxChanges
      /\ run[s] \in RunTypes /\ SyncInv(s) /\ driveFaults \in 0 .. MaxDriveFaults
      /\ run \in [DriveRun -> RunTypes]
  BY RunFacts
<1> DEFINE next == [run[s] EXCEPT !.todo = run[s].todo \ {g}, !.file = {g}, !.got = Version(g)]
<1>1. /\ run[s].at = "files" /\ run[s].file = {} /\ g \in run[s].todo
      /\ UNCHANGED <<changes, held, token, haveToken, driveFaults, unseen>>
      /\ run' = [run EXCEPT ![s] = next]
  BY <1>0 DEF FetchFile, RunTypes
<1>2. Version(g) \in 0 .. MaxChanges /\ run[s].from \in Nat
  BY <1>0, ChangesCounted DEF RunTypes, Positions
<1>3. /\ next \in RunTypes /\ next.at = "files" /\ next.from = run[s].from /\ next.file = {g}
      /\ next.got = Version(g) /\ next.todo = run[s].todo \ {g}
  BY <1>0, <1>1, <1>2 DEF RunTypes
<1>4. ChangesUpto(g, run[s].from) <= Version(g) /\ ChangesUpto(g, run[s].from) \in Nat
  BY <1>0, <1>2, ChangesCounted
<1> HIDE DEF next
<1>5. ASSUME NEW f \in DriveFile \ unseen
      PROVE  \/ held[f] >= ChangesUpto(f, next.from)
             \/ f \in next.todo \/ (f \in next.file /\ next.got >= ChangesUpto(f, next.from))
  <2>1. held[f] >= ChangesUpto(f, run[s].from) \/ f \in run[s].todo
    BY <1>0, <1>1 DEF SyncInv, StillToStore
  <2>2. CASE f = g
    <3>1. next.got >= ChangesUpto(f, next.from)
      BY <1>2, <1>3, <1>4, <2>2
    <3> QED
      BY <1>3, <2>2, <3>1
  <2>3. CASE f # g
    BY <1>3, <2>1, <2>3
  <2> QED
    BY <2>2, <2>3
<1>6. \A f \in next.file : next.got <= Version(f)
  <2> SUFFICES ASSUME NEW f \in next.file  PROVE next.got <= Version(f)
    OBVIOUS
  <2>1. f = g /\ next.got = Version(g)
    BY <1>3
  <2> QED
    BY <1>2, <2>1
<1> QED
  BY <1>0, <1>1, <1>3, <1>5, <1>6, OnlyTheRun

\* A step that only adds to the files known to be out of date.
LEMMA MoreUnseen ==
  ASSUME DriveInv, NEW s \in DriveRun, NEW next \in RunTypes, run' = [run EXCEPT ![s] = next],
         UNCHANGED <<changes, held, token, haveToken>>, driveFaults' \in 0 .. MaxDriveFaults,
         unseen \subseteq unseen', unseen' \in SUBSET DriveFile,
         \A f \in DriveFile \ unseen' :
           \/ held[f] >= ChangesUpto(f, next.from)
           \/ next.at = "files" /\ f \in next.todo,
         \A f, g \in next.file : f = g,
         \A f \in next.file : next.got <= Version(f)
  PROVE  DriveInv'
<1>1. /\ held' \in [DriveFile -> 0 .. MaxChanges] /\ haveToken' \in BOOLEAN /\ token' \in Positions
      /\ \A f \in DriveFile : held[f] \in Nat
      /\ \A f \in DriveFile : held'[f] <= Version(f)
  BY DriveAssumption DEF DriveInv, DriveTypes, Positions
<1>2. /\ \A f \in DriveFile \ unseen' : held'[f] >= ChangesUpto(f, token')
      /\ \A f \in DriveFile \ unseen' : f \notin unseen /\ held'[f] >= held[f]
  BY <1>1 DEF DriveInv
<1> QED
  BY <1>1, <1>2, RunStep

\* A file whose contents fail is known to be out of date before it is stored.
LEMMA ContentsFailKeeps ==
  ASSUME DriveInv, NEW s \in DriveRun, NEW g \in DriveFile, ContentsFail(s, g)  PROVE DriveInv'
<1>0. /\ run[s] \in RunTypes /\ SyncInv(s) /\ unseen \in SUBSET DriveFile /\ MaxChanges \in Nat
      /\ changes \in Seq(DriveFile) /\ Len(changes) <= MaxChanges
  BY RunFacts
<1> DEFINE next == [run[s] EXCEPT !.todo = run[s].todo \ {g}, !.file = {g}, !.got = 0]
<1>1. /\ run[s].at = "files" /\ run[s].file = {} /\ g \in run[s].todo
      /\ driveFaults' \in 0 .. MaxDriveFaults
      /\ UNCHANGED <<changes, held, token, haveToken>>
      /\ run' = [run EXCEPT ![s] = next] /\ unseen' = unseen \cup {g}
  BY <1>0, RunFacts DEF ContentsFail, RunTypes
<1>2. /\ next \in RunTypes /\ next.at = "files" /\ next.from = run[s].from /\ next.file = {g}
      /\ next.got = 0 /\ next.todo = run[s].todo \ {g}
  <2>1. 0 \in 0 .. MaxChanges
    BY <1>0
  <2> QED
    BY <1>0, <1>1, <2>1 DEF RunTypes
<1> HIDE DEF next
<1>3. \A f \in DriveFile \ unseen' : held[f] >= ChangesUpto(f, next.from) \/ f \in next.todo
  BY <1>0, <1>1, <1>2 DEF SyncInv, StillToStore
<1>4. Version(g) \in 0 .. MaxChanges
  BY <1>0, ChangesCounted
<1>5. \A f \in next.file : next.got <= Version(f)
  BY <1>2, <1>4
<1> QED
  BY <1>0, <1>1, <1>2, <1>3, <1>5, MoreUnseen

\* A version older than the stored one leaves its file behind, which is noticed.
LEMMA StoreFileKeeps ==
  ASSUME DriveInv, NEW s \in DriveRun, NEW g \in DriveFile, StoreFile(s, g)  PROVE DriveInv'
<1>0. /\ changes \in Seq(DriveFile) /\ Len(changes) \in Nat /\ Len(changes) <= MaxChanges
      /\ MaxChanges \in Nat
      /\ run[s] \in RunTypes /\ SyncInv(s) /\ driveFaults \in 0 .. MaxDriveFaults
      /\ held \in [DriveFile -> 0 .. MaxChanges] /\ unseen \in SUBSET DriveFile
      /\ token \in Positions /\ haveToken \in BOOLEAN
  BY RunFacts
<1> DEFINE next == [run[s] EXCEPT !.file = {}, !.got = 0]
           got == run[s].got
<1>1. /\ run[s].at = "files" /\ g \in run[s].file
      /\ UNCHANGED <<changes, token, haveToken, driveFaults>>
      /\ run' = [run EXCEPT ![s] = next]
      /\ held' = [held EXCEPT ![g] = got]
      /\ unseen' = IF got < held[g] THEN unseen \cup {g}
                   ELSE IF got = Version(g) THEN unseen \ {g} ELSE unseen
  BY <1>0, RunFacts DEF StoreFile, RunTypes
<1>2. got \in 0 .. MaxChanges /\ got <= Version(g) /\ Version(g) \in Nat /\ run[s].from \in Positions
  BY <1>0, <1>1, ChangesCounted DEF RunTypes, SyncInv
<1>3. /\ next \in RunTypes /\ next.at = "files" /\ next.from = run[s].from /\ next.file = {}
      /\ next.todo = run[s].todo
  <2>1. 0 \in 0 .. MaxChanges /\ run[s].at = "files"
    BY <1>0, <1>1
  <2> QED
    BY <1>0, <2>1 DEF RunTypes
<1> HIDE DEF next, got
<1>4. /\ held' \in [DriveFile -> 0 .. MaxChanges] /\ held'[g] = got
      /\ \A f \in DriveFile : f # g => held'[f] = held[f]
      /\ unseen' \in SUBSET DriveFile
      /\ \A f \in DriveFile \ unseen' : f # g => f \notin unseen
      /\ g \notin unseen' => got >= held[g] /\ (got = Version(g) \/ g \notin unseen)
  <2>1. got \in Int /\ held[g] \in Int
    BY <1>0, <1>2
  <2> QED
    BY <1>0, <1>1, <1>2, <2>1
<1>5. \A f \in DriveFile : held'[f] <= Version(f)
  BY <1>2, <1>4 DEF DriveInv
<1>6. ASSUME NEW f \in DriveFile \ unseen'
      PROVE  held'[f] = Version(f) \/ (f \notin unseen /\ held'[f] >= held[f])
  <2>1. held[f] \in Int
    BY <1>0
  <2> QED
    BY <1>4, <2>1
<1>7. ASSUME NEW f \in DriveFile \ unseen'
      PROVE  held'[f] >= ChangesUpto(f, token') \/ held'[f] = Version(f)
  <2>1. CASE f \notin unseen /\ held'[f] >= held[f]
    <3>1. held[f] >= ChangesUpto(f, token) /\ token' = token
      BY <1>1, <2>1 DEF DriveInv
    <3>2. held[f] \in Nat /\ held'[f] \in Nat /\ ChangesUpto(f, token) \in Nat
      <4>1. token \in Nat
        BY <1>0 DEF Positions
      <4>2. \A t \in Nat : ChangesUpto(f, t) \in Nat
        BY <1>0, ChangesCounted
      <4> QED
        BY <1>0, <1>4, <4>1, <4>2
    <3> QED
      BY <2>1, <3>1, <3>2
  <2> QED
    BY <1>6, <2>1
<1>8. ASSUME NEW f \in DriveFile \ unseen'
      PROVE  held'[f] >= ChangesUpto(f, next.from) \/ f \in next.todo
  <2>0. held[f] \in Nat /\ held'[f] \in Nat /\ ChangesUpto(f, run[s].from) \in Nat
        /\ ChangesUpto(f, run[s].from) <= Version(f)
    <3>1. run[s].from \in Nat
      BY <1>0, <1>2 DEF Positions
    <3>2. \A t \in Nat : ChangesUpto(f, t) \in Nat /\ ChangesUpto(f, t) <= Version(f)
      BY <1>0, ChangesCounted
    <3>3. held[f] \in Nat /\ held'[f] \in Nat
      BY <1>0, <1>4
    <3> QED
      BY <3>1, <3>2, <3>3
  <2>1. CASE f # g
    <3>1. \A h \in run[s].file : h = g
      BY <1>0, <1>1 DEF SyncInv
    <3>2. held[f] >= ChangesUpto(f, run[s].from) \/ f \in run[s].todo
      BY <1>0, <1>4, <2>1, <3>1 DEF SyncInv, StillToStore
    <3> QED
      BY <1>3, <1>4, <2>1, <3>2
  <2>2. CASE f = g /\ got = Version(g)
    BY <1>3, <1>4, <2>0, <2>2
  <2>3. CASE f = g /\ g \notin unseen /\ got >= held[g]
    <3>1. \/ held[g] >= ChangesUpto(g, run[s].from) \/ g \in run[s].todo
          \/ got >= ChangesUpto(g, run[s].from)
      BY <1>0, <2>3 DEF SyncInv, StillToStore, got
    <3> QED
      BY <1>2, <1>3, <1>4, <2>0, <2>3, <3>1
  <2> QED
    BY <1>4, <2>1, <2>2, <2>3
<1> QED
  BY <1>0, <1>1, <1>3, <1>4, <1>5, <1>6, <1>7, <1>8, RunStep

LEMMA StoreFailsKeeps ==
  ASSUME DriveInv, NEW s \in DriveRun, NEW g \in DriveFile, StoreFails(s, g)  PROVE DriveInv'
<1>0. /\ run[s] \in RunTypes /\ SyncInv(s) /\ unseen \in SUBSET DriveFile /\ MaxChanges \in Nat
  BY RunFacts
<1> DEFINE next == [run[s] EXCEPT !.file = {}, !.got = 0]
<1>1. /\ run[s].at = "files" /\ g \in run[s].file /\ driveFaults' \in 0 .. MaxDriveFaults
      /\ UNCHANGED <<changes, held, token, haveToken>>
      /\ run' = [run EXCEPT ![s] = next] /\ unseen' = unseen \cup {g}
  BY <1>0, RunFacts DEF StoreFails, RunTypes
<1>2. /\ next \in RunTypes /\ next.at = "files" /\ next.from = run[s].from /\ next.file = {}
      /\ next.todo = run[s].todo
  <2>1. 0 \in 0 .. MaxChanges /\ run[s].at = "files"
    BY <1>0, <1>1
  <2> QED
    BY <1>0, <2>1 DEF RunTypes
<1> HIDE DEF next
<1>3. \A f \in DriveFile \ unseen' : held[f] >= ChangesUpto(f, next.from) \/ f \in next.todo
  BY <1>0, <1>1, <1>2 DEF SyncInv, StillToStore
<1> QED
  BY <1>0, <1>1, <1>2, <1>3, MoreUnseen

LEMMA FilesDoneKeeps ==
  ASSUME DriveInv, NEW s \in DriveRun, FilesDone(s)  PROVE DriveInv'
<1>0. /\ run[s] \in RunTypes /\ SyncInv(s) /\ run \in [DriveRun -> RunTypes]
      /\ driveFaults \in 0 .. MaxDriveFaults
  BY RunFacts
<1> DEFINE phase == IF ~ run[s].have THEN "token" ELSE IF run[s].more THEN "changes" ELSE "state"
           next == [run[s] EXCEPT !.at = phase]
<1>1. /\ run[s].at = "files" /\ run[s].todo = {} /\ run[s].file = {}
      /\ UNCHANGED <<changes, held, token, haveToken, driveFaults, unseen>>
      /\ run' = [run EXCEPT ![s] = next]
  BY <1>0 DEF FilesDone, RunTypes
<1>2. phase \in {"token", "changes", "state"}
  OBVIOUS
<1> HIDE DEF phase
<1>3. next \in RunTypes /\ next.from = run[s].from /\ next.file = {}
  BY <1>0, <1>1, <1>2 DEF RunTypes
<1> HIDE DEF next
<1>4. \A f \in DriveFile \ unseen : held[f] >= ChangesUpto(f, next.from)
  BY <1>0, <1>1, <1>3 DEF SyncInv, StillToStore
<1> QED
  BY <1>0, <1>1, <1>3, <1>4, OnlyTheRun

\* What changed since it was fetched is behind the token, and is noticed.
LEMMA GetStartPageTokenKeeps ==
  ASSUME DriveInv, NEW s \in DriveRun, GetStartPageToken(s)  PROVE DriveInv'
<1>0. /\ run[s] \in RunTypes /\ SyncInv(s) /\ run \in [DriveRun -> RunTypes]
      /\ driveFaults \in 0 .. MaxDriveFaults /\ unseen \in SUBSET DriveFile /\ Len(changes) \in Nat
      /\ held \in [DriveFile -> 0 .. MaxChanges] /\ MaxChanges \in Nat
      /\ changes \in Seq(DriveFile) /\ Len(changes) <= MaxChanges
  BY RunFacts
<1>1. run[s].at = "token" /\ UNCHANGED <<changes, held, token, haveToken>>
  BY DEF GetStartPageToken
<1>2. CASE /\ run' = [run EXCEPT ![s].at = "state", ![s].from = Len(changes), ![s].have = TRUE]
           /\ unseen' = unseen \cup {f \in DriveFile : held[f] < Version(f)}
           /\ UNCHANGED driveFaults
  <2> DEFINE now == [run[s] EXCEPT !.at = "state", !.from = Len(changes), !.have = TRUE]
  <2>1. /\ now \in RunTypes /\ now.at = "state" /\ now.from = Len(changes)
        /\ now.file = run[s].file /\ now.got = run[s].got /\ now.todo = run[s].todo
        /\ run' = [run EXCEPT ![s] = now]
    <3>1. Len(changes) \in Positions
      BY <1>0 DEF Positions
    <3>2. /\ now \in RunTypes /\ now.at = "state" /\ now.from = Len(changes)
          /\ now.file = run[s].file /\ now.got = run[s].got /\ now.todo = run[s].todo
      BY <1>0, <3>1 DEF RunTypes
    <3>3. [run EXCEPT ![s].at = "state", ![s].from = Len(changes), ![s].have = TRUE]
            = [run EXCEPT ![s] = now]
      BY <1>0 DEF RunTypes
    <3> QED
      BY <1>2, <3>2, <3>3
  <2> HIDE DEF now
  <2>2. ASSUME NEW f \in DriveFile \ unseen'
        PROVE  /\ held[f] >= ChangesUpto(f, Len(changes)) /\ f \notin unseen
    <3>1. ~ (held[f] < Version(f)) /\ f \notin unseen
      BY <1>2
    <3>2. /\ Version(f) \in Nat /\ held[f] \in Nat /\ ChangesUpto(f, Len(changes)) \in Nat
          /\ ChangesUpto(f, Len(changes)) <= Version(f)
      BY <1>0, ChangesCounted
    <3> QED
      BY <3>1, <3>2
  <2>3. unseen \subseteq unseen' /\ unseen' \in SUBSET DriveFile
    BY <1>0, <1>2
  <2>4. /\ held' \in [DriveFile -> 0 .. MaxChanges] /\ haveToken' \in BOOLEAN /\ token' \in Positions
        /\ \A f \in DriveFile : held[f] \in Nat
        /\ \A f \in DriveFile : held'[f] <= Version(f)
    BY <1>0, <1>1 DEF DriveInv, DriveTypes, Positions
  <2>5. /\ \A f \in DriveFile \ unseen' : held'[f] >= ChangesUpto(f, token')
        /\ \A f \in DriveFile \ unseen' : f \notin unseen /\ held'[f] >= held[f]
        /\ \A f \in DriveFile \ unseen' : held'[f] >= ChangesUpto(f, now.from)
    BY <1>1, <2>1, <2>2, <2>3, <2>4 DEF DriveInv
  <2>6. /\ \A f, g \in now.file : f = g
        /\ \A f \in now.file : now.got <= Version(f)
    BY <1>0, <2>1 DEF SyncInv
  <2> QED
    BY <1>0, <1>1, <1>2, <2>1, <2>3, <2>4, <2>5, <2>6, RunStep
<1>3. CASE /\ DriveFault
           /\ run' = [run EXCEPT ![s].at = "state"]
           /\ UNCHANGED unseen
  <2> DEFINE next == [run[s] EXCEPT !.at = "state"]
  <2>1. /\ next \in RunTypes /\ next.from = run[s].from /\ next.file = run[s].file
        /\ next.got = run[s].got /\ run' = [run EXCEPT ![s] = next]
    BY <1>0, <1>3 DEF RunTypes
  <2> HIDE DEF next
  <2>2. /\ \A f \in DriveFile \ unseen : held[f] >= ChangesUpto(f, next.from)
        /\ \A f, g \in next.file : f = g
        /\ \A f \in next.file : next.got <= Version(f)
    BY <1>0, <1>1, <2>1 DEF SyncInv, StillToStore
  <2>3. driveFaults' \in 0 .. MaxDriveFaults
    BY <1>3, RunFacts
  <2> QED
    BY <1>1, <1>3, <2>1, <2>2, <2>3, OnlyTheRun
<1> QED
  BY <1>2, <1>3 DEF GetStartPageToken

\* The position a sync stores is one up to which it has stored everything.
LEMMA SetDriveStateKeeps ==
  ASSUME DriveInv, NEW s \in DriveRun, SetDriveState(s)  PROVE DriveInv'
<1>0. /\ run[s] \in RunTypes /\ SyncInv(s) /\ run \in [DriveRun -> RunTypes] /\ Resting \in RunTypes
      /\ driveFaults \in 0 .. MaxDriveFaults /\ unseen \in SUBSET DriveFile /\ MaxChanges \in Nat
      /\ held \in [DriveFile -> 0 .. MaxChanges]
  BY RunFacts
<1>1. run[s].at = "state" /\ UNCHANGED <<changes, held, unseen>>
      /\ run' = [run EXCEPT ![s] = Resting]
  BY DEF SetDriveState
<1>2. CASE token' = run[s].from /\ haveToken' = run[s].have /\ UNCHANGED driveFaults
  <2>1. /\ token' \in Positions /\ haveToken' \in BOOLEAN /\ Resting.from = 0 /\ Resting.file = {}
        /\ held' \in [DriveFile -> 0 .. MaxChanges]
        /\ \A f \in DriveFile : held[f] \in Nat /\ held'[f] = held[f]
    BY <1>0, <1>1, <1>2 DEF RunTypes, Resting
  <2>2. \A f \in DriveFile \ unseen' : held'[f] >= ChangesUpto(f, token')
    BY <1>0, <1>1, <1>2 DEF SyncInv, StillToStore
  <2>3. /\ \A f \in DriveFile \ unseen' : f \notin unseen /\ held'[f] >= held[f]
        /\ \A f \in DriveFile \ unseen' : held'[f] >= ChangesUpto(f, Resting.from)
        /\ \A f \in DriveFile : held'[f] <= Version(f)
    BY <1>1, <2>1, NothingYet DEF DriveInv
  <2> QED
    BY <1>0, <1>1, <1>2, <2>1, <2>2, <2>3, RunStep
<1>3. CASE DriveFault /\ UNCHANGED <<token, haveToken>>
  BY <1>1, <1>3, RestKeeps, RunFacts
<1> QED
  BY <1>2, <1>3 DEF SetDriveState

LEMMA DriveStep == DriveInv /\ [DriveNext]_driveVars => DriveInv'
<1> SUFFICES ASSUME DriveInv, [DriveNext]_driveVars  PROVE DriveInv'
  OBVIOUS
<1>1. ASSUME NEW f \in DriveFile, FileChanges(f)  PROVE DriveInv'
  BY <1>1, FileChangesKeeps
<1>2. ASSUME NEW s \in DriveRun,
             \/ SyncDrive(s) \/ ListChanges(s) \/ ListFails(s) \/ FilesDone(s)
             \/ GetStartPageToken(s) \/ SetDriveState(s)
      PROVE  DriveInv'
  <2>1. CASE ListFails(s)
    <3>1. /\ run' = [run EXCEPT ![s] = Resting] /\ DriveFault
          /\ UNCHANGED <<changes, held, token, haveToken, unseen>>
      BY <2>1 DEF ListFails
    <3> QED
      BY <3>1, RestKeeps, RunFacts
  <2> QED
    BY <1>2, <2>1, SyncDriveKeeps, ListChangesKeeps, FilesDoneKeeps, GetStartPageTokenKeeps,
       SetDriveStateKeeps
<1>3. ASSUME NEW s \in DriveRun, NEW f \in DriveFile,
             FetchFile(s, f) \/ ContentsFail(s, f) \/ StoreFile(s, f) \/ StoreFails(s, f)
      PROVE  DriveInv'
  BY <1>3, FetchFileKeeps, ContentsFailKeeps, StoreFileKeeps, StoreFailsKeeps
<1>4. CASE UNCHANGED driveVars
  <2>1. UNCHANGED <<changes, held, token, haveToken, run, driveFaults, unseen>>
    BY <1>4 DEF driveVars
  <2> QED
    BY <2>1 DEF DriveInv, DriveTypes, SyncInv, StillToStore, ChangesUpto, Version, Changed
<1> QED
  BY <1>1, <1>2, <1>3, <1>4 DEF DriveNext

\* Whatever syncs run beside each other and whichever of them fail, what they hold
\* agrees with Drive's list of changes.
THEOREM DriveIsConsistent == DriveSpec => []DriveInv
BY DriveInitInv, DriveStep, PTL DEF DriveSpec

\* Drive's changes, the stored token and what each sync holds keep the types the
\* connector gives them.
THEOREM DriveTypeCorrect == DriveSpec => []DriveTypeOK
<1>1. DriveInv => DriveTypeOK
  <2> SUFFICES ASSUME DriveInv PROVE DriveTypeOK
    OBVIOUS
  <2>1. token \in 0 .. MaxChanges /\ changes \in Seq(DriveFile)
    BY DriveAssumption DEF DriveInv, DriveTypes
  <2>2. \A s \in DriveRun : /\ run[s].at \in {"rest", "changes", "files", "token", "state"}
                            /\ run[s].todo \in SUBSET DriveFile /\ run[s].file \in SUBSET DriveFile
    BY DEF DriveInv, DriveTypes
  <2>3. /\ held \in [DriveFile -> 0 .. MaxChanges] /\ haveToken \in BOOLEAN
        /\ driveFaults \in 0 .. MaxDriveFaults /\ unseen \subseteq DriveFile
    BY DEF DriveInv, DriveTypes
  <2> QED
    BY <2>1, <2>2, <2>3 DEF DriveTypeOK
<1> QED
  BY <1>1, DriveIsConsistent, PTL

\* Every change behind the stored token is in the knowledge base, or one of the
\* known causes left its file out of date, contents that could not be fetched
\* among them (internal/google/connector.go, Sync; drive.go, SyncChanges).
THEOREM ChangesArrive == DriveSpec => []NothingBehindTheToken
<1>1. DriveInv => NothingBehindTheToken
  <2> SUFFICES ASSUME DriveInv, NEW f \in DriveFile \ unseen, NEW i \in Changed(f), i <= token
               PROVE  held[f] >= ChangesUpto(f, i)
    BY DEF NothingBehindTheToken, ChangesUpto
  <2>1. /\ changes \in Seq(DriveFile) /\ Len(changes) <= MaxChanges /\ Len(changes) \in Nat
        /\ token \in Nat /\ held[f] \in Nat /\ held[f] >= ChangesUpto(f, token) /\ MaxChanges \in Nat
    BY DriveAssumption DEF DriveInv, DriveTypes
  <2>2. i \in Nat
    BY <2>1 DEF Changed
  <2>3. ChangesUpto(f, i) \in Nat /\ ChangesUpto(f, token) \in Nat
    BY <2>1, <2>2, ChangesCounted
  <2>4. ChangesUpto(f, i) <= ChangesUpto(f, token)
    BY <2>1, <2>2, ChangesCounted
  <2> QED
    BY <2>1, <2>3, <2>4
<1> QED
  BY <1>1, DriveIsConsistent, PTL

-----------------------------------------------------------------------------
(*****************************************************************************)
(* The pages of Notion.                                                      *)
(*****************************************************************************)

NotionTypes ==
  /\ crawl \in {"idle", "walking", "saving"}
  /\ crawls \in Nat
  /\ visited \in SUBSET NotionPage
  /\ stack \in Seq(Frame)
  /\ inBase \in SUBSET NotionPage
  /\ notionFaults \in 0 .. MaxNotionFaults
  /\ depthOf \in [NotionPage -> Nat]
  /\ fetches \in [NotionPage -> Nat]

\* Each frame is below the roots, or below a page that was begun, one deeper.
WellStacked(s, begun, depth) ==
  \A i \in DOMAIN s :
    IF s[i].below = "roots" THEN s[i].depth = 0 /\ s[i].rows = {}
    ELSE s[i].below \in begun /\ s[i].depth = depth[s[i].below] + 1

\* Somewhere on a stack a page waits among the pages, or the rows, below p.
PageWaits(s, q, p) == \E i \in DOMAIN s : s[i].below = p /\ q \in s[i].pages
RowWaits(s, q, p) == \E i \in DOMAIN s : s[i].below = p /\ q \in s[i].rows

\* What a page that was read holds was begun, or waits.
BelowInv(p) ==
  p \in visited \ unread =>
    /\ depthOf[p] < MaxDepth => \A q \in ChildPages(p) : q \in visited \/ PageWaits(stack, q, p)
    /\ depthOf[p] + 1 < MaxDepth => \A q \in ChildRows(p) : q \in visited \/ RowWaits(stack, q, p)

NotionInv ==
  /\ NotionTypes
  /\ \A p \in NotionPage : fetches[p] = IF p \in visited THEN 1 ELSE 0
  /\ crawl # "walking" => stack = <<>>
  /\ WellStacked(stack, visited, depthOf)
  /\ crawl # "idle" => \A q \in RootPage : q \in visited \/ PageWaits(stack, q, "roots")
  /\ \A p \in NotionPage : BelowInv(p)

-----------------------------------------------------------------------------
(* The stack of frames. *)

\* A stack of frames without its top.
LEMMA TopRemoved ==
  ASSUME NEW s \in Seq(Frame), s # <<>>
  PROVE  /\ Front(s) \in Seq(Frame) /\ Len(Front(s)) = Len(s) - 1
         /\ \A i \in 1 .. Len(s) - 1 : Front(s)[i] = s[i]
<1>1. Len(s) \in Nat /\ Len(s) # 0 /\ DOMAIN s = 1 .. Len(s)
  OBVIOUS
<1> DEFINE n == Len(s) - 1
<1>2. n \in Nat /\ 1 \in Int /\ n \in Int
  BY <1>1
<1>3. \A i \in 1 .. n : s[i] \in Frame
  BY <1>1
<1> HIDE DEF n
<1>4. /\ SubSeq(s, 1, n) \in Seq(Frame)
      /\ Len(SubSeq(s, 1, n)) = IF 1 <= n THEN n - 1 + 1 ELSE 0
      /\ \A i \in 1 .. n - 1 + 1 : SubSeq(s, 1, n)[i] = s[1 + i - 1]
  BY <1>2, <1>3, SubSeqProperties
<1>5. (IF 1 <= n THEN n - 1 + 1 ELSE 0) = n /\ n - 1 + 1 = n /\ \A i \in 1 .. n : 1 + i - 1 = i
  BY <1>2
<1>6. /\ SubSeq(s, 1, n) \in Seq(Frame) /\ Len(SubSeq(s, 1, n)) = n
      /\ \A i \in 1 .. n : SubSeq(s, 1, n)[i] = s[i]
  BY <1>4, <1>5
<1> QED
  BY <1>6 DEF Front, n

\* The stack after a step that puts another frame in the place of the top one.
LEMMA TopReplaced ==
  ASSUME stack \in Seq(Frame), stack # <<>>, NEW frame \in Frame
  PROVE  LET s == Append(Front(stack), frame) IN
         /\ s \in Seq(Frame) /\ DOMAIN s = DOMAIN stack /\ s # <<>>
         /\ Len(stack) \in DOMAIN stack /\ s[Len(stack)] = frame
         /\ \A i \in DOMAIN stack : i # Len(stack) => s[i] = stack[i]
<1>1. /\ Len(stack) \in Nat /\ Len(stack) # 0 /\ DOMAIN stack = 1 .. Len(stack)
  OBVIOUS
<1>2. /\ Front(stack) \in Seq(Frame) /\ Len(Front(stack)) = Len(stack) - 1
      /\ \A i \in 1 .. Len(stack) - 1 : Front(stack)[i] = stack[i]
  BY TopRemoved
<1> DEFINE t == Front(stack)
<1> HIDE DEF t
<1>3. /\ t \in Seq(Frame) /\ Len(t) = Len(stack) - 1
      /\ \A i \in 1 .. Len(stack) - 1 : t[i] = stack[i]
  BY <1>2 DEF t
<1>4. /\ Append(t, frame) \in Seq(Frame) /\ Len(Append(t, frame)) = Len(t) + 1
      /\ \A i \in 1 .. Len(t) : Append(t, frame)[i] = t[i]
      /\ Append(t, frame)[Len(t) + 1] = frame
  BY <1>3, AppendProperties
<1> DEFINE s == Append(t, frame)
<1> HIDE DEF s
<1>0. /\ s \in Seq(Frame) /\ Len(s) = Len(t) + 1
      /\ \A i \in 1 .. Len(t) : s[i] = t[i]
      /\ s[Len(t) + 1] = frame
  BY <1>4 DEF s
<1>9. Len(t) + 1 = Len(stack) /\ Len(t) = Len(stack) - 1
  BY <1>1, <1>3
<1>5. /\ s \in Seq(Frame) /\ Len(s) = Len(stack) /\ DOMAIN s = 1 .. Len(stack)
      /\ s[Len(stack)] = frame
      /\ \A i \in 1 .. Len(stack) - 1 : s[i] = stack[i]
  BY <1>0, <1>9, <1>3
<1>6. s # <<>>
  BY <1>1, <1>5
<1>7. \A i \in DOMAIN stack : i # Len(stack) => i \in 1 .. Len(stack) - 1
  BY <1>1
<1>8. Append(Front(stack), frame) = s
  BY DEF s, t
<1> QED
  BY <1>1, <1>5, <1>6, <1>7, <1>8

\* And after one that puts a frame on top of it.
LEMMA FramePushed ==
  ASSUME NEW s \in Seq(Frame), NEW frame \in Frame
  PROVE  /\ Append(s, frame) \in Seq(Frame) /\ Append(s, frame) # <<>>
         /\ DOMAIN Append(s, frame) = DOMAIN s \cup {Len(s) + 1}
         /\ Append(s, frame)[Len(s) + 1] = frame
         /\ Len(s) + 1 \notin DOMAIN s
         /\ \A i \in DOMAIN s : Append(s, frame)[i] = s[i]
<1>1. Len(s) \in Nat /\ DOMAIN s = 1 .. Len(s)
  OBVIOUS
<1>2. /\ Append(s, frame) \in Seq(Frame) /\ Len(Append(s, frame)) = Len(s) + 1
      /\ \A i \in 1 .. Len(s) : Append(s, frame)[i] = s[i]
      /\ Append(s, frame)[Len(s) + 1] = frame
  BY <1>1, AppendProperties
<1>3. DOMAIN Append(s, frame) = 1 .. Len(s) + 1
  BY <1>2
<1>4. 1 .. Len(s) + 1 = (1 .. Len(s)) \cup {Len(s) + 1}
  BY <1>1
<1>5. Append(s, frame) # <<>>
  BY <1>1, <1>2
<1> QED
  BY <1>1, <1>2, <1>3, <1>4, <1>5

\* The frame the walk is at, and where it will find its next page.
LEMMA TopFacts ==
  ASSUME NotionInv, stack # <<>>
  PROVE  /\ TopFrame \in Frame /\ Len(stack) \in DOMAIN stack
         /\ TopFrame.depth \in Nat /\ DepthNow \in Nat
         /\ TopFrame.pages \in SUBSET NotionPage /\ TopFrame.rows \in SUBSET NotionPage
         /\ IF TopFrame.below = "roots" THEN TopFrame.depth = 0 /\ TopFrame.rows = {}
            ELSE TopFrame.below \in visited /\ TopFrame.depth = depthOf[TopFrame.below] + 1
<1>1. stack \in Seq(Frame) /\ WellStacked(stack, visited, depthOf)
  BY DEF NotionInv, NotionTypes
<1>2. Len(stack) \in DOMAIN stack /\ TopFrame = stack[Len(stack)]
  BY <1>1 DEF TopFrame
<1>3. TopFrame \in Frame
  BY <1>1, <1>2
<1>4. TopFrame.depth \in Nat /\ TopFrame.pages \in SUBSET NotionPage /\ TopFrame.rows \in SUBSET NotionPage
  BY <1>3 DEF Frame
<1>5. DepthNow \in Nat
  BY <1>4 DEF DepthNow
<1> QED
  BY <1>1, <1>2, <1>3, <1>4, <1>5 DEF WellStacked

\* A frame without a page that is dealt with, and the top frame so.
Dropped(e, p) == [e EXCEPT !.pages = e.pages \ {p},
                           !.rows = IF e.pages = {} THEN e.rows \ {p} ELSE e.rows]
Rest(p) == Dropped(TopFrame, p)

LEMMA DroppedFacts ==
  ASSUME NEW e \in Frame, NEW p
  PROVE  /\ Dropped(e, p) \in Frame
         /\ Dropped(e, p).below = e.below /\ Dropped(e, p).depth = e.depth
         /\ e.pages \subseteq Dropped(e, p).pages \cup {p}
         /\ e.rows \subseteq Dropped(e, p).rows \cup {p}
         /\ Dropped(e, p).rows \subseteq e.rows
         /\ e.pages # {} => Dropped(e, p).rows = e.rows
<1> DEFINE pages == e.pages \ {p}
           rows == IF e.pages = {} THEN e.rows \ {p} ELSE e.rows
<1>1. /\ pages \in SUBSET NotionPage /\ e.pages \subseteq pages \cup {p}
      /\ rows \in SUBSET NotionPage /\ rows \subseteq e.rows /\ e.rows \subseteq rows \cup {p}
      /\ e.pages # {} => rows = e.rows
  BY DEF Frame
<1>2. Dropped(e, p) = [e EXCEPT !.pages = pages, !.rows = rows]
  BY DEF Dropped
<1> HIDE DEF pages, rows
<1>3. /\ Dropped(e, p) \in Frame /\ Dropped(e, p).below = e.below /\ Dropped(e, p).depth = e.depth
      /\ Dropped(e, p).pages = pages /\ Dropped(e, p).rows = rows
  BY <1>1, <1>2 DEF Frame
<1> QED
  BY <1>1, <1>3

LEMMA RestFacts ==
  ASSUME NotionInv, stack # <<>>, NEW p
  PROVE  /\ Rest(p) \in Frame /\ Rest(p).below = TopFrame.below /\ Rest(p).depth = TopFrame.depth
         /\ TopFrame.pages \subseteq Rest(p).pages \cup {p}
         /\ TopFrame.rows \subseteq Rest(p).rows \cup {p}
         /\ Rest(p).rows \subseteq TopFrame.rows
         /\ TopFrame.pages # {} => Rest(p).rows = TopFrame.rows
         /\ Shorter(p) = Append(Front(stack), Rest(p))
<1>1. TopFrame \in Frame
  BY TopFacts
<1>2. Shorter(p) = Append(Front(stack), Rest(p))
  BY Zenon DEF Shorter, Rest, Dropped
<1> QED
  BY <1>1, <1>2, DroppedFacts DEF Rest

\* What waits on a stack whose top is replaced by a frame for the same page.
LEMMA TopChange ==
  ASSUME NotionInv, stack # <<>>,
         NEW frame \in Frame, frame.below = TopFrame.below, frame.depth = TopFrame.depth,
         frame.rows \subseteq TopFrame.rows,
         NEW s, s = Append(Front(stack), frame)
  PROVE  /\ s \in Seq(Frame) /\ s # <<>>
         /\ WellStacked(s, visited, depthOf)
         /\ \A q, b : PageWaits(stack, q, b) =>
               \/ PageWaits(s, q, b)
               \/ b = TopFrame.below /\ q \in TopFrame.pages /\ q \notin frame.pages
         /\ \A q, b : RowWaits(stack, q, b) =>
               \/ RowWaits(s, q, b)
               \/ b = TopFrame.below /\ q \in TopFrame.rows /\ q \notin frame.rows
<1>1. stack \in Seq(Frame) /\ WellStacked(stack, visited, depthOf) /\ TopFrame = stack[Len(stack)]
  BY DEF NotionInv, NotionTypes, TopFrame
<1>2. /\ s \in Seq(Frame) /\ DOMAIN s = DOMAIN stack /\ s # <<>>
      /\ Len(stack) \in DOMAIN stack /\ s[Len(stack)] = frame
      /\ \A i \in DOMAIN stack : i # Len(stack) => s[i] = stack[i]
  BY <1>1, TopReplaced
<1>3. WellStacked(s, visited, depthOf)
  <2> SUFFICES ASSUME NEW i \in DOMAIN s
               PROVE  IF s[i].below = "roots" THEN s[i].depth = 0 /\ s[i].rows = {}
                      ELSE s[i].below \in visited /\ s[i].depth = depthOf[s[i].below] + 1
    BY DEF WellStacked
  <2>1. s[i].below = stack[i].below /\ s[i].depth = stack[i].depth /\ s[i].rows \subseteq stack[i].rows
    <3>1. CASE i = Len(stack)
      BY <1>1, <1>2, <3>1
    <3>2. CASE i # Len(stack)
      BY <1>2, <3>2
    <3> QED
      BY <3>1, <3>2
  <2>2. IF stack[i].below = "roots" THEN stack[i].depth = 0 /\ stack[i].rows = {}
        ELSE stack[i].below \in visited /\ stack[i].depth = depthOf[stack[i].below] + 1
    BY <1>1, <1>2 DEF WellStacked
  <2> QED
    BY <2>1, <2>2
<1>4. ASSUME NEW q, NEW b, PageWaits(stack, q, b), ~PageWaits(s, q, b)
      PROVE  b = TopFrame.below /\ q \in TopFrame.pages /\ q \notin frame.pages
  <2>1. PICK i \in DOMAIN stack : stack[i].below = b /\ q \in stack[i].pages
    BY <1>4 DEF PageWaits
  <2>2. ~(s[i].below = b /\ q \in s[i].pages)
    BY <1>2, <1>4, <2>1 DEF PageWaits
  <2>3. i = Len(stack)
    BY <1>2, <2>1, <2>2
  <2> QED
    BY <1>1, <1>2, <2>1, <2>2, <2>3
<1>5. ASSUME NEW q, NEW b, RowWaits(stack, q, b), ~RowWaits(s, q, b)
      PROVE  b = TopFrame.below /\ q \in TopFrame.rows /\ q \notin frame.rows
  <2>1. PICK i \in DOMAIN stack : stack[i].below = b /\ q \in stack[i].rows
    BY <1>5 DEF RowWaits
  <2>2. ~(s[i].below = b /\ q \in s[i].rows)
    BY <1>2, <1>5, <2>1 DEF RowWaits
  <2>3. i = Len(stack)
    BY <1>2, <2>1, <2>2
  <2> QED
    BY <1>1, <1>2, <2>1, <2>2, <2>3
<1> QED
  BY <1>2, <1>3, <1>4, <1>5

\* What waits on a stack waits there when a frame is pushed, and what the frame holds.
LEMMA PushKeeps ==
  ASSUME NEW s \in Seq(Frame), NEW frame \in Frame, NEW begun, NEW depth,
         WellStacked(s, begun, depth),
         frame.below # "roots", frame.below \in begun, frame.depth = depth[frame.below] + 1
  PROVE  LET t == Append(s, frame) IN
         /\ t \in Seq(Frame) /\ t # <<>>
         /\ WellStacked(t, begun, depth)
         /\ \A q, b : PageWaits(s, q, b) => PageWaits(t, q, b)
         /\ \A q, b : RowWaits(s, q, b) => RowWaits(t, q, b)
         /\ \A q \in frame.pages : PageWaits(t, q, frame.below)
         /\ \A q \in frame.rows : RowWaits(t, q, frame.below)
<1> DEFINE t == Append(s, frame)
<1>1. /\ t \in Seq(Frame) /\ t # <<>> /\ DOMAIN t = DOMAIN s \cup {Len(s) + 1}
      /\ t[Len(s) + 1] = frame /\ \A i \in DOMAIN s : t[i] = s[i]
  BY FramePushed
<1> HIDE DEF t
<1>2. WellStacked(t, begun, depth)
  <2> SUFFICES ASSUME NEW i \in DOMAIN t
               PROVE  IF t[i].below = "roots" THEN t[i].depth = 0 /\ t[i].rows = {}
                      ELSE t[i].below \in begun /\ t[i].depth = depth[t[i].below] + 1
    BY DEF WellStacked
  <2>1. CASE i \in DOMAIN s
    BY <1>1, <2>1 DEF WellStacked
  <2>2. CASE i = Len(s) + 1
    BY <1>1, <2>2
  <2> QED
    BY <1>1, <2>1, <2>2
<1>3. ASSUME NEW q, NEW b, PageWaits(s, q, b) PROVE PageWaits(t, q, b)
  BY <1>1, <1>3 DEF PageWaits
<1>4. ASSUME NEW q, NEW b, RowWaits(s, q, b) PROVE RowWaits(t, q, b)
  BY <1>1, <1>4 DEF RowWaits
<1>5. \A q \in frame.pages : PageWaits(t, q, frame.below)
  BY <1>1 DEF PageWaits
<1>6. \A q \in frame.rows : RowWaits(t, q, frame.below)
  BY <1>1 DEF RowWaits
<1> QED
  BY <1>1, <1>2, <1>3, <1>4, <1>5, <1>6 DEF t

\* A page begun afterwards changes nothing for the frames there are.
LEMMA MoreBegun ==
  ASSUME NEW s, NEW begun, NEW depth, WellStacked(s, begun, depth),
         NEW more, begun \subseteq more,
         NEW deeper, \A p \in begun : deeper[p] = depth[p]
  PROVE  WellStacked(s, more, deeper)
BY DEF WellStacked

-----------------------------------------------------------------------------
(* The steps. *)

LEMMA NotionInitInv == NotionInit => NotionInv
<1> SUFFICES ASSUME NotionInit PROVE NotionInv
  OBVIOUS
<1>1. NotionTypes
  BY CrawlAssumption, EmptySeq DEF NotionInit, NotionTypes
<1>2. DOMAIN stack = {}
  BY DEF NotionInit
<1>3. WellStacked(stack, visited, depthOf)
  BY <1>2 DEF WellStacked
<1> QED
  BY <1>1, <1>3 DEF NotionInit, NotionInv, BelowInv

LEMMA SyncNotionKeeps == NotionInv /\ SyncNotion => NotionInv'
<1> SUFFICES ASSUME NotionInv, SyncNotion PROVE NotionInv'
  OBVIOUS
<1> DEFINE roots == [pages |-> RootPage, rows |-> {}, below |-> "roots", depth |-> 0]
<1>1. roots \in Frame /\ roots.pages = RootPage /\ roots.rows = {} /\ roots.below = "roots" /\ roots.depth = 0
  BY CrawlAssumption DEF Frame
<1>2. stack' = <<roots>>
  BY DEF SyncNotion
<1> HIDE DEF roots
<1>3. stack' \in Seq(Frame) /\ DOMAIN stack' = {1} /\ stack'[1] = roots
  BY <1>1, <1>2
<1>4. NotionTypes'
  BY <1>3 DEF NotionInv, NotionTypes, SyncNotion
<1>5. WellStacked(stack', visited', depthOf')
  BY <1>1, <1>3 DEF WellStacked
<1>6. \A q \in RootPage : PageWaits(stack', q, "roots")
  BY <1>1, <1>3 DEF PageWaits
<1>7. \A p \in NotionPage : fetches'[p] = IF p \in visited' THEN 1 ELSE 0
  BY DEF SyncNotion
<1>8. \A p \in NotionPage : BelowInv(p)'
  BY DEF BelowInv, SyncNotion
<1>9. crawl' = "walking"
  BY DEF SyncNotion
<1> QED
  BY <1>4, <1>5, <1>6, <1>7, <1>8, <1>9 DEF NotionInv

\* A page that is dealt with is the only one that no longer waits.
LEMMA ShorterKeeps ==
  ASSUME NotionInv, stack # <<>>, NEW p
  PROVE  /\ Shorter(p) \in Seq(Frame) /\ Shorter(p) # <<>>
         /\ WellStacked(Shorter(p), visited, depthOf)
         /\ \A q, b : PageWaits(stack, q, b) =>
               \/ PageWaits(Shorter(p), q, b)
               \/ q = p /\ b = TopFrame.below /\ DepthNow = TopFrame.depth
         /\ \A q, b : RowWaits(stack, q, b) =>
               \/ RowWaits(Shorter(p), q, b)
               \/ q = p /\ b = TopFrame.below /\ DepthNow = TopFrame.depth + 1
<1>1. /\ Rest(p) \in Frame /\ Rest(p).below = TopFrame.below /\ Rest(p).depth = TopFrame.depth
      /\ TopFrame.pages \subseteq Rest(p).pages \cup {p}
      /\ TopFrame.rows \subseteq Rest(p).rows \cup {p}
      /\ Rest(p).rows \subseteq TopFrame.rows
      /\ TopFrame.pages # {} => Rest(p).rows = TopFrame.rows
      /\ Shorter(p) = Append(Front(stack), Rest(p))
  BY RestFacts
<1>2. /\ Shorter(p) \in Seq(Frame) /\ Shorter(p) # <<>>
      /\ WellStacked(Shorter(p), visited, depthOf)
      /\ \A q, b : PageWaits(stack, q, b) =>
            \/ PageWaits(Shorter(p), q, b)
            \/ b = TopFrame.below /\ q \in TopFrame.pages /\ q \notin Rest(p).pages
      /\ \A q, b : RowWaits(stack, q, b) =>
            \/ RowWaits(Shorter(p), q, b)
            \/ b = TopFrame.below /\ q \in TopFrame.rows /\ q \notin Rest(p).rows
  BY <1>1, TopChange
<1>3. ASSUME NEW q, NEW b, PageWaits(stack, q, b), ~PageWaits(Shorter(p), q, b)
      PROVE  q = p /\ b = TopFrame.below /\ DepthNow = TopFrame.depth
  <2>1. b = TopFrame.below /\ q \in TopFrame.pages /\ q \notin Rest(p).pages
    BY <1>2, <1>3
  <2>2. q = p /\ TopFrame.pages # {}
    BY <1>1, <2>1
  <2> QED
    BY <2>1, <2>2 DEF DepthNow
<1>4. ASSUME NEW q, NEW b, RowWaits(stack, q, b), ~RowWaits(Shorter(p), q, b)
      PROVE  q = p /\ b = TopFrame.below /\ DepthNow = TopFrame.depth + 1
  <2>1. b = TopFrame.below /\ q \in TopFrame.rows /\ q \notin Rest(p).rows
    BY <1>2, <1>4
  <2>2. q = p /\ TopFrame.pages = {}
    BY <1>1, <2>1
  <2> QED
    BY <2>1, <2>2 DEF DepthNow
<1> QED
  BY <1>2, <1>3, <1>4

\* A page that must be walked is not too deep where it waits.
LEMMA DeepPagesDoNotMatter ==
  ASSUME NotionInv, stack # <<>>, DepthNow > MaxDepth
  PROVE  /\ DepthNow = TopFrame.depth => TopFrame.below # "roots" /\ ~(depthOf[TopFrame.below] < MaxDepth)
         /\ DepthNow = TopFrame.depth + 1 /\ TopFrame.below # "roots" => ~(depthOf[TopFrame.below] + 1 < MaxDepth)
<1>1. /\ DepthNow \in Nat /\ MaxDepth \in Nat
      /\ IF TopFrame.below = "roots" THEN TopFrame.depth = 0 /\ TopFrame.rows = {}
         ELSE TopFrame.below \in visited /\ TopFrame.depth = depthOf[TopFrame.below] + 1
  BY TopFacts, CrawlAssumption
<1>2. TopFrame.below # "roots" => depthOf[TopFrame.below] \in Nat
  BY <1>1 DEF NotionInv, NotionTypes
<1> QED
  BY <1>1, <1>2

LEMMA SkipKeeps ==
  ASSUME NotionInv, NEW p \in NotionPage, Skip(p)
  PROVE  NotionInv'
<1>1. /\ crawl = "walking" /\ stack # <<>> /\ stack' = Shorter(p)
      /\ DepthNow > MaxDepth \/ p \in visited
      /\ UNCHANGED <<crawl, crawls, visited, inBase, notionFaults, depthOf, unread, fetches>>
  BY DEF Skip
<1>2. /\ stack' \in Seq(Frame) /\ stack' # <<>>
      /\ WellStacked(stack', visited, depthOf)
      /\ \A q, b : PageWaits(stack, q, b) =>
            \/ PageWaits(stack', q, b)
            \/ q = p /\ b = TopFrame.below /\ DepthNow = TopFrame.depth
      /\ \A q, b : RowWaits(stack, q, b) =>
            \/ RowWaits(stack', q, b)
            \/ q = p /\ b = TopFrame.below /\ DepthNow = TopFrame.depth + 1
  BY <1>1, ShorterKeeps
<1>3. p \notin visited =>
        /\ DepthNow = TopFrame.depth => TopFrame.below # "roots" /\ ~(depthOf[TopFrame.below] < MaxDepth)
        /\ DepthNow = TopFrame.depth + 1 /\ TopFrame.below # "roots" => ~(depthOf[TopFrame.below] + 1 < MaxDepth)
  BY <1>1, DeepPagesDoNotMatter
<1>4. NotionTypes'
  BY <1>1, <1>2 DEF NotionInv, NotionTypes
<1>5. ASSUME NEW q \in RootPage
      PROVE  q \in visited \/ PageWaits(stack', q, "roots")
  BY <1>1, <1>2, <1>3 DEF NotionInv
<1>6. ASSUME NEW b \in NotionPage
      PROVE  BelowInv(b)'
  <2> SUFFICES ASSUME b \in visited \ unread
               PROVE  /\ depthOf[b] < MaxDepth => \A q \in ChildPages(b) : q \in visited \/ PageWaits(stack', q, b)
                      /\ depthOf[b] + 1 < MaxDepth => \A q \in ChildRows(b) : q \in visited \/ RowWaits(stack', q, b)
    BY <1>1 DEF BelowInv
  <2>1. /\ depthOf[b] < MaxDepth => \A q \in ChildPages(b) : q \in visited \/ PageWaits(stack, q, b)
        /\ depthOf[b] + 1 < MaxDepth => \A q \in ChildRows(b) : q \in visited \/ RowWaits(stack, q, b)
    BY DEF NotionInv, BelowInv
  <2>2. b # "roots"
    BY CrawlAssumption
  <2> QED
    BY <1>2, <1>3, <2>1, <2>2
<1> QED
  BY <1>1, <1>2, <1>4, <1>5, <1>6 DEF NotionInv

LEMMA VisitKeeps ==
  ASSUME NotionInv, NEW p \in NotionPage, Visit(p) \/ VisitFails(p)
  PROVE  NotionInv'
<1>1. /\ crawl = "walking" /\ stack # <<>> /\ p \notin visited
      /\ visited' = visited \cup {p}
      /\ fetches' = [fetches EXCEPT ![p] = fetches[p] + 1]
      /\ UNCHANGED <<crawl, crawls>>
  BY DEF Visit, VisitFails, BeginPage
<1>2. /\ Shorter(p) \in Seq(Frame) /\ Shorter(p) # <<>>
      /\ WellStacked(Shorter(p), visited, depthOf)
      /\ \A q, b : PageWaits(stack, q, b) => PageWaits(Shorter(p), q, b) \/ q = p
      /\ \A q, b : RowWaits(stack, q, b) => RowWaits(Shorter(p), q, b) \/ q = p
  BY <1>1, ShorterKeeps
<1>3. \A q \in NotionPage : fetches'[q] = IF q \in visited' THEN 1 ELSE 0
  <2>1. fetches \in [NotionPage -> Nat] /\ \A q \in NotionPage : fetches[q] = IF q \in visited THEN 1 ELSE 0
    BY DEF NotionInv, NotionTypes
  <2> QED
    BY <1>1, <2>1
<1>4. /\ inBase' \in SUBSET NotionPage /\ notionFaults' \in 0 .. MaxNotionFaults
      /\ fetches' \in [NotionPage -> Nat] /\ visited' \in SUBSET NotionPage
      /\ crawl' \in {"idle", "walking", "saving"} /\ crawls' \in Nat
  BY <1>1, CrawlAssumption DEF NotionInv, NotionTypes, Visit, VisitFails, Stored, NotionFault
<1>5. ASSUME NEW found
      PROVE  LET below == FrameBelow(p, found) IN
             /\ below \in Frame
             /\ below.pages = ChildPages(p) \cap found /\ below.rows = ChildRows(p) \cap found
             /\ below.below = p /\ below.depth = DepthNow + 1 /\ DepthNow \in Nat
  <2>1. ChildPages(p) \in SUBSET NotionPage /\ ChildRows(p) \in SUBSET NotionPage
    BY CrawlAssumption DEF ChildPages, ChildRows
  <2>2. DepthNow \in Nat
    BY <1>1, TopFacts
  <2> QED
    BY <2>1, <2>2 DEF FrameBelow, Frame
\* The page could be read, with all its blocks or without some.
<1>6. ASSUME NEW found,
             stack' = Append(Shorter(p), FrameBelow(p, found)),
             depthOf' = [depthOf EXCEPT ![p] = DepthNow],
             unread \subseteq unread',
             p \notin unread' => found = ChildPages(p) \cup ChildRows(p)
      PROVE  NotionInv'
  <2> DEFINE below == FrameBelow(p, found)
  <2>0. /\ below \in Frame
        /\ below.pages = ChildPages(p) \cap found /\ below.rows = ChildRows(p) \cap found
        /\ below.below = p /\ below.depth = DepthNow + 1 /\ DepthNow \in Nat
        /\ stack' = Append(Shorter(p), below)
    BY <1>5, <1>6
  <2> HIDE DEF below
  <2>1. depthOf' \in [NotionPage -> Nat] /\ depthOf'[p] = DepthNow /\ \A q \in NotionPage : q # p => depthOf'[q] = depthOf[q]
    BY <2>0, <1>6 DEF NotionInv, NotionTypes
  <2>2. visited \subseteq visited' /\ \A q \in visited : depthOf'[q] = depthOf[q]
    BY <1>1, <2>1 DEF NotionInv, NotionTypes
  <2>3. WellStacked(Shorter(p), visited', depthOf')
    BY <1>2, <2>2, MoreBegun
  <2>4. below.below # "roots" /\ below.below \in visited' /\ below.depth = depthOf'[below.below] + 1
    BY <1>1, <2>0, <2>1, CrawlAssumption
  <2>5. /\ stack' \in Seq(Frame) /\ stack' # <<>>
        /\ WellStacked(stack', visited', depthOf')
        /\ \A q, b : PageWaits(Shorter(p), q, b) => PageWaits(stack', q, b)
        /\ \A q, b : RowWaits(Shorter(p), q, b) => RowWaits(stack', q, b)
        /\ \A q \in below.pages : PageWaits(stack', q, below.below)
        /\ \A q \in below.rows : RowWaits(stack', q, below.below)
    BY <1>2, <2>0, <2>3, <2>4, PushKeeps
  <2>6. \A q \in RootPage : q \in visited' \/ PageWaits(stack', q, "roots")
    BY <1>1, <1>2, <2>5 DEF NotionInv
  <2>7. ASSUME NEW b \in NotionPage
        PROVE  BelowInv(b)'
    <3> SUFFICES ASSUME b \in visited' \ unread'
                 PROVE  /\ depthOf'[b] < MaxDepth => \A q \in ChildPages(b) : q \in visited' \/ PageWaits(stack', q, b)
                        /\ depthOf'[b] + 1 < MaxDepth => \A q \in ChildRows(b) : q \in visited' \/ RowWaits(stack', q, b)
      BY DEF BelowInv
    <3>1. CASE b = p
      <4>1. found = ChildPages(p) \cup ChildRows(p)
        BY <1>6, <3>1
      <4>2. below.pages = ChildPages(b) /\ below.rows = ChildRows(b) /\ below.below = b
        BY <2>0, <3>1, <4>1
      <4> QED
        BY <2>5, <4>2
    <3>2. CASE b # p
      <4>1. b \in visited \ unread /\ depthOf'[b] = depthOf[b]
        BY <1>1, <1>6, <2>1, <3>2
      <4>2. /\ depthOf[b] < MaxDepth => \A q \in ChildPages(b) : q \in visited \/ PageWaits(stack, q, b)
            /\ depthOf[b] + 1 < MaxDepth => \A q \in ChildRows(b) : q \in visited \/ RowWaits(stack, q, b)
        BY <4>1 DEF NotionInv, BelowInv
      <4> QED
        BY <1>1, <1>2, <2>5, <4>1, <4>2
    <3> QED
      BY <3>1, <3>2
  <2>8. NotionTypes'
    BY <1>4, <2>1, <2>5 DEF NotionTypes
  <2> QED
    BY <1>1, <1>3, <2>5, <2>6, <2>7, <2>8 DEF NotionInv
\* It could not.
<1>7. CASE /\ stack' = Shorter(p)
           /\ unread' = unread \cup {p}
           /\ depthOf' = depthOf
  <2>1. WellStacked(stack', visited', depthOf')
    BY <1>1, <1>2, <1>7, MoreBegun
  <2>2. \A q \in RootPage : q \in visited' \/ PageWaits(stack', q, "roots")
    BY <1>1, <1>2, <1>7 DEF NotionInv
  <2>3. ASSUME NEW b \in NotionPage
        PROVE  BelowInv(b)'
    <3> SUFFICES ASSUME b \in visited' \ unread'
                 PROVE  /\ depthOf[b] < MaxDepth => \A q \in ChildPages(b) : q \in visited' \/ PageWaits(stack', q, b)
                        /\ depthOf[b] + 1 < MaxDepth => \A q \in ChildRows(b) : q \in visited' \/ RowWaits(stack', q, b)
      BY <1>7 DEF BelowInv
    <3>1. b \in visited \ unread
      BY <1>1, <1>7
    <3>2. /\ depthOf[b] < MaxDepth => \A q \in ChildPages(b) : q \in visited \/ PageWaits(stack, q, b)
          /\ depthOf[b] + 1 < MaxDepth => \A q \in ChildRows(b) : q \in visited \/ RowWaits(stack, q, b)
      BY <3>1 DEF NotionInv, BelowInv
    <3> QED
      BY <1>1, <1>2, <1>7, <3>2
  <2>4. NotionTypes'
    BY <1>2, <1>4, <1>7 DEF NotionInv, NotionTypes
  <2> QED
    BY <1>1, <1>2, <1>3, <1>7, <2>1, <2>2, <2>3, <2>4 DEF NotionInv
<1> QED
  <2>1. CASE VisitFails(p)
    BY <1>7, <2>1 DEF VisitFails
  <2>2. CASE Visit(p)
    <3>1. PICK found \in SUBSET (ChildPages(p) \cup ChildRows(p)) :
            /\ stack' = Append(Shorter(p), FrameBelow(p, found))
            /\ found = ChildPages(p) \cup ChildRows(p) => unread' = unread
            /\ found # ChildPages(p) \cup ChildRows(p) => unread' = unread \cup {p}
            /\ depthOf' = [depthOf EXCEPT ![p] = DepthNow]
      BY <2>2 DEF Visit
    <3>2. unread \subseteq unread' /\ (p \notin unread' => found = ChildPages(p) \cup ChildRows(p))
      BY <3>1
    <3> QED
      BY <1>6, <3>1, <3>2
  <2> QED
    BY <2>1, <2>2

LEMMA QueryFailsKeeps == NotionInv /\ QueryFails => NotionInv'
<1> SUFFICES ASSUME NotionInv, QueryFails PROVE NotionInv'
  OBVIOUS
<1>1. PICK rest \in SUBSET TopFrame.rows : stack' = Append(Front(stack), [TopFrame EXCEPT !.rows = rest])
  BY DEF QueryFails
<1>2. /\ crawl = "walking" /\ stack # <<>> /\ unread' = unread \cup {TopFrame.below}
      /\ notionFaults' = notionFaults + 1 /\ notionFaults < MaxNotionFaults
      /\ UNCHANGED <<crawl, crawls, visited, inBase, depthOf, fetches>>
  BY DEF QueryFails, NotionFault
<1> DEFINE frame == [TopFrame EXCEPT !.rows = rest]
<1>3. TopFrame \in Frame
  BY <1>2, TopFacts
<1>4. rest \in SUBSET NotionPage
  BY <1>3 DEF Frame
<1>5. /\ frame \in Frame /\ frame.below = TopFrame.below /\ frame.depth = TopFrame.depth
      /\ frame.pages = TopFrame.pages /\ frame.rows = rest
  BY <1>3, <1>4 DEF Frame
<1>6. stack' = Append(Front(stack), frame)
  BY <1>1
<1> HIDE DEF frame
<1>7. /\ stack' \in Seq(Frame) /\ stack' # <<>>
      /\ WellStacked(stack', visited, depthOf)
      /\ \A q, b : PageWaits(stack, q, b) =>
            \/ PageWaits(stack', q, b)
            \/ b = TopFrame.below /\ q \in TopFrame.pages /\ q \notin frame.pages
      /\ \A q, b : RowWaits(stack, q, b) =>
            \/ RowWaits(stack', q, b)
            \/ b = TopFrame.below /\ q \in TopFrame.rows /\ q \notin frame.rows
  BY <1>2, <1>5, <1>6, TopChange
<1>8. /\ \A q, b : PageWaits(stack, q, b) => PageWaits(stack', q, b)
      /\ \A q, b : b # TopFrame.below /\ RowWaits(stack, q, b) => RowWaits(stack', q, b)
  BY <1>5, <1>7
<1>9. ASSUME NEW b \in NotionPage
      PROVE  BelowInv(b)'
  <2> SUFFICES ASSUME b \in visited \ unread'
               PROVE  /\ depthOf[b] < MaxDepth => \A q \in ChildPages(b) : q \in visited \/ PageWaits(stack', q, b)
                      /\ depthOf[b] + 1 < MaxDepth => \A q \in ChildRows(b) : q \in visited \/ RowWaits(stack', q, b)
    BY <1>2 DEF BelowInv
  <2>1. b \in visited \ unread /\ b # TopFrame.below
    BY <1>2
  <2>2. /\ depthOf[b] < MaxDepth => \A q \in ChildPages(b) : q \in visited \/ PageWaits(stack, q, b)
        /\ depthOf[b] + 1 < MaxDepth => \A q \in ChildRows(b) : q \in visited \/ RowWaits(stack, q, b)
    BY <2>1 DEF NotionInv, BelowInv
  <2> QED
    BY <1>8, <2>1, <2>2
<1>10. NotionTypes'
  BY <1>2, <1>7, CrawlAssumption DEF NotionInv, NotionTypes
<1>11. \A q \in RootPage : q \in visited \/ PageWaits(stack', q, "roots")
  BY <1>2, <1>8 DEF NotionInv
<1> QED
  BY <1>2, <1>7, <1>9, <1>10, <1>11 DEF NotionInv

LEMMA ReturnKeeps == NotionInv /\ Return => NotionInv'
<1> SUFFICES ASSUME NotionInv, Return PROVE NotionInv'
  OBVIOUS
<1>1. /\ crawl = "walking" /\ stack # <<>> /\ stack' = Front(stack)
      /\ TopFrame.pages = {} /\ TopFrame.rows = {} /\ TopFrame = stack[Len(stack)]
      /\ crawl' = IF Len(stack) = 1 THEN "saving" ELSE crawl
      /\ UNCHANGED <<crawls, visited, inBase, notionFaults, depthOf, unread, fetches>>
  BY DEF Return, TopFrame
<1>2. stack \in Seq(Frame) /\ WellStacked(stack, visited, depthOf)
  BY DEF NotionInv, NotionTypes
<1>3. /\ stack' \in Seq(Frame) /\ Len(stack') = Len(stack) - 1
      /\ \A i \in 1 .. Len(stack) - 1 : stack'[i] = stack[i]
  BY <1>1, <1>2, TopRemoved
<1>4. /\ DOMAIN stack = 1 .. Len(stack) /\ DOMAIN stack' = 1 .. Len(stack) - 1
      /\ Len(stack) \in Nat /\ (Len(stack) = 1 => stack' = <<>>)
  BY <1>2, <1>3
<1>5. /\ \A i \in DOMAIN stack' : i \in DOMAIN stack /\ stack'[i] = stack[i]
      /\ \A i \in DOMAIN stack : i # Len(stack) => i \in DOMAIN stack'
  BY <1>3, <1>4
<1>6. WellStacked(stack', visited, depthOf)
  BY <1>2, <1>5 DEF WellStacked
<1>7. ASSUME NEW q, NEW b, PageWaits(stack, q, b)
      PROVE  PageWaits(stack', q, b)
  <2>1. PICK i \in DOMAIN stack : stack[i].below = b /\ q \in stack[i].pages
    BY <1>7 DEF PageWaits
  <2>2. i # Len(stack)
    BY <1>1, <2>1
  <2> QED
    BY <1>5, <2>1, <2>2 DEF PageWaits
<1>8. ASSUME NEW q, NEW b, RowWaits(stack, q, b)
      PROVE  RowWaits(stack', q, b)
  <2>1. PICK i \in DOMAIN stack : stack[i].below = b /\ q \in stack[i].rows
    BY <1>8 DEF RowWaits
  <2>2. i # Len(stack)
    BY <1>1, <2>1
  <2> QED
    BY <1>5, <2>1, <2>2 DEF RowWaits
<1>9. ASSUME NEW b \in NotionPage
      PROVE  BelowInv(b)'
  <2>1. BelowInv(b)
    BY DEF NotionInv
  <2> QED
    BY <1>1, <1>7, <1>8, <2>1 DEF BelowInv
<1>10. NotionTypes'
  BY <1>1, <1>3 DEF NotionInv, NotionTypes
<1>11. \A q \in RootPage : q \in visited \/ PageWaits(stack', q, "roots")
  BY <1>1, <1>7 DEF NotionInv
<1>12. crawl' # "walking" => stack' = <<>>
  BY <1>1, <1>4
<1> QED
  BY <1>1, <1>6, <1>9, <1>10, <1>11, <1>12 DEF NotionInv

\* Every step keeps the invariant.
LEMMA NotionStep == NotionInv /\ [NotionNext]_notionVars => NotionInv'
<1> SUFFICES ASSUME NotionInv, [NotionNext]_notionVars PROVE NotionInv'
  OBVIOUS
<1>1. CASE SyncNotion
  BY <1>1, SyncNotionKeeps
<1>2. CASE QueryFails
  BY <1>2, QueryFailsKeeps
<1>3. CASE Return
  BY <1>3, ReturnKeeps
<1>4. CASE SaveNotionState
  BY <1>4 DEF SaveNotionState, NotionInv, NotionTypes, WellStacked, BelowInv, PageWaits, RowWaits
<1>5. CASE \E p \in NotionPage : Skip(p)
  BY <1>5, SkipKeeps
<1>6. CASE \E p \in NotionPage : Visit(p) \/ VisitFails(p)
  BY <1>6, VisitKeeps
<1>7. CASE UNCHANGED notionVars
  BY <1>7 DEF notionVars, NotionInv, NotionTypes, WellStacked, BelowInv, PageWaits, RowWaits
<1> QED
  BY <1>1, <1>2, <1>3, <1>4, <1>5, <1>6, <1>7 DEF NotionNext

\* The walk's sets agree: what was fetched was begun, once; the frames on the
\* stack are below pages that were begun, as deep as the walk found them; and
\* what a page holds, if all of it was read and is not too deep, was begun or waits.
THEOREM WalkIsConsistent == NotionSpec => []NotionInv
<1>1. NotionInit => NotionInv
  BY NotionInitInv
<1>2. NotionInv /\ [NotionNext]_notionVars => NotionInv'
  BY NotionStep
<1> QED
  BY <1>1, <1>2, PTL DEF NotionSpec

\* The frames, the sets of pages and the counts keep the types the walk gives them.
THEOREM NotionTypeCorrect == NotionSpec => []NotionTypeOK
<1>1. NotionInv => NotionTypeOK
  BY DEF NotionInv, NotionTypes, NotionTypeOK
<1> QED
  BY <1>1, WalkIsConsistent, PTL

\* A sync that has walked its trees fetched no page twice and left out none that
\* a page it read holds within the depth it found that page at, whatever pages
\* hold each other and whatever could not be read elsewhere; what a page holds in
\* blocks that failed, or that are nested too deep, is known to be missing.
THEOREM EveryPageIsWalked == NotionSpec => []WalkIsComplete
<1>1. ASSUME NotionInv PROVE WalkIsComplete
  <2> DEFINE begun == {p \in NotionPage : fetches[p] > 0}
  <2>1. /\ begun = visited /\ \A p \in NotionPage : fetches[p] <= 1
    BY <1>1 DEF NotionInv, NotionTypes
  <2> HIDE DEF begun
  <2>2. ASSUME crawl = "saving"
        PROVE  /\ RootPage \subseteq visited
               /\ \A p \in visited \ unread :
                     /\ depthOf[p] < MaxDepth => ChildPages(p) \subseteq visited
                     /\ depthOf[p] + 1 < MaxDepth => ChildRows(p) \subseteq visited
    <3>1. DOMAIN stack = {}
      BY <1>1, <2>2 DEF NotionInv
    <3>2. \A q, p : ~PageWaits(stack, q, p) /\ ~RowWaits(stack, q, p)
      BY <3>1 DEF PageWaits, RowWaits
    <3>3. RootPage \subseteq visited
      BY <1>1, <2>2, <3>2 DEF NotionInv
    <3>4. ASSUME NEW p \in visited \ unread
          PROVE  /\ depthOf[p] < MaxDepth => ChildPages(p) \subseteq visited
                 /\ depthOf[p] + 1 < MaxDepth => ChildRows(p) \subseteq visited
      <4>1. p \in NotionPage /\ BelowInv(p)
        BY <1>1 DEF NotionInv, NotionTypes
      <4> QED
        BY <3>2, <4>1 DEF BelowInv
    <3> QED
      BY <3>3, <3>4
  <2> QED
    BY <2>1, <2>2 DEF WalkIsComplete, begun
<1> QED
  BY <1>1, WalkIsConsistent, PTL

-----------------------------------------------------------------------------
(*****************************************************************************)
(* The facts in the knowledge repository.                                    *)
(*****************************************************************************)

\* One fact was written before another, or is that one.
WrittenBefore(w, f, g) == \E i, j \in 1 .. Len(w) : i <= j /\ w[i] = f /\ w[j] = g

\* A tree's file for the topic of a fact holds it or one written later.
Covers(w, tree, f) == \E g \in tree[TopicOf[f]] : WrittenBefore(w, f, g)

Named(tree, f, l) == f \in tree[l] \/ f \in erased[l] \/ l \in unlisted[f]

\* What is in one tree, after some writes, is in another after some writes, but
\* for what was lost from the lists.
Grows(w, tree, v, other, lost) ==
  /\ \A f \in Fact : Covers(w, tree, f) => Covers(v, other, f)
  /\ \A l \in Listing : tree[l] \subseteq other[l] \cup lost[l]

\* What reached one tree reached the one it is taken from.
Within(w, tree, source, lost) == Grows(w, tree, w, source, lost)

\* The file of a topic holds only what was written.
OnlyWritten(w, tree) == \A t \in Topic : \A g \in tree[t] : \E i \in 1 .. Len(w) : w[i] = g

SaveStepNames == {"write", "readme", "index", "add_fact", "add_readme", "add_index", "commit", "push"}

FilesTypes ==
  /\ work \in TreeOfFiles /\ staged \in TreeOfFiles /\ head \in TreeOfFiles /\ remote \in TreeOfFiles
  /\ behind \in BOOLEAN
  /\ saving \in [Fact -> SaveStepNames \cup {"new", "saved", "failed"}]
  /\ listing \in [Fact -> {"look", "make", "append"}]
  /\ holder \in [Reader -> Fact \cup {NoSave}]
  /\ script \in {"idle", "commit", "push"}
  /\ writes \in Seq(Fact)
  /\ unlisted \in [Fact -> SUBSET Listing] /\ erased \in [Listing -> SUBSET Fact]
  /\ elsewhere \in 0 .. MaxElsewhere /\ gitFaults \in 0 .. MaxGitFaults

\* What a save has done so far.
SaveInv(f) ==
  /\ saving[f] \in {"new", "write"} => \A i \in 1 .. Len(writes) : writes[i] # f
  /\ saving[f] \in {"readme", "index", "add_fact", "add_readme", "add_index", "commit", "push", "saved"}
       => Covers(writes, work, f)
  /\ saving[f] \in {"index", "add_fact", "add_readme", "add_index", "commit", "push", "saved"}
       => Named(work, f, ListOf.readme)
  /\ saving[f] \in {"add_fact", "add_readme", "add_index", "commit", "push", "saved"}
       => Named(work, f, ListOf.index)
  /\ saving[f] \in {"add_readme", "add_index", "commit", "push", "saved"} => Covers(writes, staged, f)
  /\ saving[f] \in {"add_index", "commit", "push", "saved"} => Named(staged, f, ListOf.readme)
  /\ saving[f] \in {"commit", "push", "saved"} => Named(staged, f, ListOf.index)
  /\ saving[f] \in {"push", "saved"} => Covers(writes, head, f) /\ \A l \in Listing : Named(head, f, l)
  /\ saving[f] = "saved" => Covers(writes, remote, f) /\ \A l \in Listing : Named(remote, f, l)

FilesInv ==
  /\ FilesTypes
  /\ \A i, j \in 1 .. Len(writes) : writes[i] = writes[j] => i = j
  /\ OnlyWritten(writes, work) /\ OnlyWritten(writes, staged)
  /\ OnlyWritten(writes, head) /\ OnlyWritten(writes, remote)
  /\ Within(writes, staged, work, erased) /\ Within(writes, head, staged, erased) /\ Within(writes, remote, head, erased)
  /\ \A f \in Fact : SaveInv(f)

-----------------------------------------------------------------------------
(* The steps of a save, and the lists. *)

LEMMA StepFacts ==
  /\ StepAfter("write") = "readme" /\ StepAfter("readme") = "index" /\ StepAfter("index") = "add_fact"
  /\ StepAfter("add_fact") = "add_readme" /\ StepAfter("add_readme") = "add_index"
  /\ StepAfter("add_index") = "commit" /\ StepAfter("commit") = "push"
<1>1. /\ Len(SaveSteps) = 8
      /\ SaveSteps[1] = "write" /\ SaveSteps[2] = "readme" /\ SaveSteps[3] = "index"
      /\ SaveSteps[4] = "add_fact" /\ SaveSteps[5] = "add_readme" /\ SaveSteps[6] = "add_index"
      /\ SaveSteps[7] = "commit" /\ SaveSteps[8] = "push"
  BY DEF SaveSteps
<1>2. ASSUME NEW s, NEW n \in 2 .. 8, SaveSteps[n - 1] = s,
             \A m \in 2 .. 8 : SaveSteps[m - 1] = s => m = n
      PROVE  StepAfter(s) = SaveSteps[n]
  <2> DEFINE i == CHOOSE i \in 2 .. Len(SaveSteps) : SaveSteps[i - 1] = s
  <2>1. \E m : m \in 2 .. Len(SaveSteps) /\ SaveSteps[m - 1] = s
    BY <1>1, <1>2
  <2>2. i \in 2 .. Len(SaveSteps) /\ SaveSteps[i - 1] = s
    BY <2>1
  <2> HIDE DEF i
  <2>3. i = n
    BY <1>1, <1>2, <2>2
  <2> QED
    BY <2>3 DEF StepAfter, i
<1>3. \A m \in 2 .. 8 : m = 2 \/ m = 3 \/ m = 4 \/ m = 5 \/ m = 6 \/ m = 7 \/ m = 8
  OBVIOUS
<1>4. 2 - 1 = 1 /\ 3 - 1 = 2 /\ 4 - 1 = 3 /\ 5 - 1 = 4 /\ 6 - 1 = 5 /\ 7 - 1 = 6 /\ 8 - 1 = 7
  OBVIOUS
<1>5. /\ \A m \in 2 .. 8 : SaveSteps[m - 1] = "write" => m = 2
      /\ \A m \in 2 .. 8 : SaveSteps[m - 1] = "readme" => m = 3
      /\ \A m \in 2 .. 8 : SaveSteps[m - 1] = "index" => m = 4
      /\ \A m \in 2 .. 8 : SaveSteps[m - 1] = "add_fact" => m = 5
      /\ \A m \in 2 .. 8 : SaveSteps[m - 1] = "add_readme" => m = 6
      /\ \A m \in 2 .. 8 : SaveSteps[m - 1] = "add_index" => m = 7
      /\ \A m \in 2 .. 8 : SaveSteps[m - 1] = "commit" => m = 8
  BY <1>1, <1>3, <1>4
<1>6. /\ 2 \in 2 .. 8 /\ 3 \in 2 .. 8 /\ 4 \in 2 .. 8 /\ 5 \in 2 .. 8 /\ 6 \in 2 .. 8
      /\ 7 \in 2 .. 8 /\ 8 \in 2 .. 8
  OBVIOUS
<1>7. StepAfter("write") = SaveSteps[2] /\ StepAfter("readme") = SaveSteps[3]
  BY <1>1, <1>2, <1>4, <1>5, <1>6
<1>8. StepAfter("index") = SaveSteps[4] /\ StepAfter("add_fact") = SaveSteps[5]
  BY <1>1, <1>2, <1>4, <1>5, <1>6
<1>9. StepAfter("add_readme") = SaveSteps[6] /\ StepAfter("add_index") = SaveSteps[7]
  BY <1>1, <1>2, <1>4, <1>5, <1>6
<1>10. StepAfter("commit") = SaveSteps[8]
  BY <1>1, <1>2, <1>4, <1>5, <1>6
<1> QED
  BY <1>1, <1>7, <1>8, <1>9, <1>10

LEMMA SaveStepSet == ToSet(SaveSteps) = SaveStepNames
<1>1. DOMAIN SaveSteps = {1, 2, 3, 4, 5, 6, 7, 8}
  BY DEF SaveSteps
<1>2. /\ SaveSteps[1] = "write" /\ SaveSteps[2] = "readme" /\ SaveSteps[3] = "index"
      /\ SaveSteps[4] = "add_fact" /\ SaveSteps[5] = "add_readme" /\ SaveSteps[6] = "add_index"
      /\ SaveSteps[7] = "commit" /\ SaveSteps[8] = "push"
  BY DEF SaveSteps
<1> QED
  BY <1>1, <1>2 DEF ToSet, SaveStepNames

LEMMA ListFacts ==
  /\ ListOf.readme \in Listing /\ ListOf.index \in Listing /\ ListOf.readme # ListOf.index
  /\ ListOf["readme"] = ListOf.readme /\ ListOf["index"] = ListOf.index
  /\ \A l \in Listing : l = ListOf.readme \/ l = ListOf.index
  /\ \A f \in Fact : TopicOf[f] \in Topic /\ TopicOf[f] \notin Listing
  /\ \A f : /\ PartOf(f)["add_fact"] = TopicOf[f] /\ PartOf(f)["add_readme"] = ListOf.readme
            /\ PartOf(f)["add_index"] = ListOf.index
  /\ Topic \subseteq RepoFile /\ Listing \subseteq RepoFile
  /\ \A t \in Topic : t \notin Listing
BY FilesAssumption DEF ListOf, Listing, PartOf, RepoFile

-----------------------------------------------------------------------------
(* What was written, and the trees. *)

\* A fact written last comes after all that were written before it.
LEMMA WriteAppended ==
  ASSUME NEW w \in Seq(Fact), NEW f \in Fact,
         \A i, j \in 1 .. Len(w) : w[i] = w[j] => i = j,
         \A i \in 1 .. Len(w) : w[i] # f
  PROVE  LET v == Append(w, f) IN
         /\ v \in Seq(Fact)
         /\ \A i, j \in 1 .. Len(v) : v[i] = v[j] => i = j
         /\ \A g, h : WrittenBefore(w, g, h) => WrittenBefore(v, g, h)
         /\ \A g, h : WrittenBefore(w, g, h) => WrittenBefore(v, g, f)
         /\ WrittenBefore(v, f, f)
         /\ \A g, h : WrittenBefore(v, g, h) /\ h # f => WrittenBefore(w, g, h)
         /\ \A g : (\E i \in 1 .. Len(w) : w[i] = g) => \E i \in 1 .. Len(v) : v[i] = g
         /\ \E i \in 1 .. Len(v) : v[i] = f
         /\ \A g : g # f /\ (\A i \in 1 .. Len(w) : w[i] # g) => \A i \in 1 .. Len(v) : v[i] # g
<1> DEFINE v == Append(w, f)
           n == Len(w)
<1>1. /\ n \in Nat /\ v \in Seq(Fact) /\ Len(v) = n + 1 /\ v[n + 1] = f
      /\ \A i \in 1 .. n : v[i] = w[i] /\ v[i] # f
  BY AppendProperties
<1>2. \A i \in 1 .. Len(v) : i = n + 1 \/ i \in 1 .. n
  BY <1>1
<1>3. n + 1 \in 1 .. Len(v) /\ \A i \in 1 .. n : i \in 1 .. Len(v) /\ i <= n + 1
  BY <1>1
<1> HIDE DEF v
<1>4. \A i, j \in 1 .. Len(v) : v[i] = v[j] => i = j
  BY <1>1, <1>2
<1>5. ASSUME NEW g, NEW h, WrittenBefore(w, g, h)
      PROVE  WrittenBefore(v, g, h) /\ WrittenBefore(v, g, f)
  BY <1>1, <1>3, <1>5 DEF WrittenBefore
<1>6. WrittenBefore(v, f, f)
  BY <1>1, <1>3 DEF WrittenBefore
<1>7. ASSUME NEW g, NEW h, WrittenBefore(v, g, h), h # f
      PROVE  WrittenBefore(w, g, h)
  <2>1. PICK i \in 1 .. Len(v), j \in 1 .. Len(v) : i <= j /\ v[i] = g /\ v[j] = h
    BY <1>7 DEF WrittenBefore
  <2>2. j # n + 1 /\ j \in 1 .. n
    BY <1>1, <1>2, <1>7, <2>1
  <2>3. i \in 1 .. n
    BY <1>1, <2>1, <2>2
  <2> QED
    BY <1>1, <2>1, <2>2, <2>3 DEF WrittenBefore
<1>8. \A g : (\E i \in 1 .. n : w[i] = g) => \E i \in 1 .. Len(v) : v[i] = g
  BY <1>1, <1>3
<1>9. \E i \in 1 .. Len(v) : v[i] = f
  BY <1>1, <1>3
<1>10. \A g : g # f /\ (\A i \in 1 .. n : w[i] # g) => \A i \in 1 .. Len(v) : v[i] # g
  BY <1>1, <1>2
<1> QED
  BY <1>1, <1>4, <1>5, <1>6, <1>7, <1>8, <1>9, <1>10 DEF v

\* What a tree covers it covers when another fact was written, and no more.
LEMMA CoversKept ==
  ASSUME NEW w \in Seq(Fact), NEW f \in Fact,
         \A i, j \in 1 .. Len(w) : w[i] = w[j] => i = j,
         \A i \in 1 .. Len(w) : w[i] # f,
         NEW tree, OnlyWritten(w, tree), NEW g \in Fact
  PROVE  Covers(Append(w, f), tree, g) <=> Covers(w, tree, g)
<1>1. TopicOf[g] \in Topic
  BY ListFacts
<1>2. \A h \in tree[TopicOf[g]] : h # f
  BY <1>1 DEF OnlyWritten
<1>3. /\ \A h : WrittenBefore(w, g, h) => WrittenBefore(Append(w, f), g, h)
      /\ \A h : WrittenBefore(Append(w, f), g, h) /\ h # f => WrittenBefore(w, g, h)
  BY WriteAppended
<1> QED
  BY <1>2, <1>3 DEF Covers

LEMMA WithinItself == \A w, tree, e : Within(w, tree, tree, e)
BY DEF Within, Grows

LEMMA GrowsTransitive ==
  ASSUME NEW w, NEW v, NEW a, NEW b, NEW c, NEW d, NEW e, \A l \in Listing : d[l] \subseteq e[l],
         Within(w, a, b, d), Grows(w, b, v, c, e)
  PROVE  Grows(w, a, v, c, e)
BY DEF Within, Grows

LEMMA FilesInitInv == FilesInit => FilesInv
<1> SUFFICES ASSUME FilesInit PROVE FilesInv
  OBVIOUS
<1>0. PICK made \in SUBSET Listing : work = OnlyLists(made)
  BY DEF FilesInit
<1>1. FilesTypes
  <2>1. OnlyLists(made) \in TreeOfFiles
    BY DEF OnlyLists, TreeOfFiles
  <2>2. writes \in Seq(Fact)
    BY EmptySeq DEF FilesInit
  <2>3. /\ work \in TreeOfFiles /\ staged \in TreeOfFiles /\ head \in TreeOfFiles /\ remote \in TreeOfFiles
    BY <1>0, <2>1 DEF FilesInit
  <2>4. /\ saving \in [Fact -> SaveStepNames \cup {"new", "saved", "failed"}]
        /\ holder \in [Reader -> Fact \cup {NoSave}]
        /\ unlisted \in [Fact -> SUBSET Listing]
        /\ listing \in [Fact -> {"look", "make", "append"}]
        /\ erased \in [Listing -> SUBSET Fact]
    BY DEF FilesInit
  <2>5. /\ script \in {"idle", "commit", "push"}
        /\ elsewhere \in 0 .. MaxElsewhere /\ gitFaults \in 0 .. MaxGitFaults
    BY FilesAssumption DEF FilesInit
  <2>6. behind \in BOOLEAN
    BY Zenon DEF FilesInit
  <2> QED
    BY <2>2, <2>3, <2>4, <2>5, <2>6 DEF FilesTypes
<1>2. Len(writes) = 0
  BY DEF FilesInit
<1>3. \A i \in 1 .. Len(writes) : FALSE
  BY <1>2
<1>4. OnlyWritten(writes, OnlyLists(made))
  BY ListFacts DEF OnlyWritten, OnlyLists
<1>5. Within(writes, OnlyLists(made), OnlyLists(made), erased)
  BY WithinItself
<1>6. \A f \in Fact : SaveInv(f)
  BY <1>3 DEF FilesInit, SaveInv
<1> QED
  BY <1>0, <1>1, <1>3, <1>4, <1>5, <1>6 DEF FilesInit, FilesInv

-----------------------------------------------------------------------------
(* The steps. *)

\* A save that takes no step of its own, or fails, keeps what it has done where
\* the trees only grow.
LEMMA SaveKept ==
  ASSUME NEW f \in Fact, SaveInv(f),
         saving'[f] = saving[f] \/ saving'[f] = "failed",
         unlisted[f] \subseteq unlisted'[f], \A l \in Listing : erased[l] \subseteq erased'[l],
         (\A i \in 1 .. Len(writes) : writes[i] # f) => (\A i \in 1 .. Len(writes') : writes'[i] # f),
         Grows(writes, work, writes', work', erased'), Grows(writes, staged, writes', staged', erased'),
         Grows(writes, head, writes', head', erased'), Grows(writes, remote, writes', remote', erased')
  PROVE  SaveInv(f)'
<1>1. CASE saving'[f] = "failed"
  BY <1>1 DEF SaveInv
<1>2. CASE saving'[f] = saving[f]
  <2>1. /\ Covers(writes, work, f) => Covers(writes', work', f)
        /\ Covers(writes, staged, f) => Covers(writes', staged', f)
        /\ Covers(writes, head, f) => Covers(writes', head', f)
        /\ Covers(writes, remote, f) => Covers(writes', remote', f)
    BY DEF Grows
  <2>2. \A l \in Listing : /\ Named(work, f, l) => Named(work, f, l)'
                           /\ Named(staged, f, l) => Named(staged, f, l)'
                           /\ Named(head, f, l) => Named(head, f, l)'
                           /\ Named(remote, f, l) => Named(remote, f, l)'
    BY DEF Grows, Named
  <2>3. ListOf.readme \in Listing /\ ListOf.index \in Listing
    BY ListFacts
  <2> QED
    BY <1>2, <2>1, <2>2, <2>3 DEF SaveInv
<1> QED
  BY <1>1, <1>2

\* Where no fact is written and no tree changes.
LEMMA StillGrows == \A w, tree, e : Grows(w, tree, w, tree, e)
BY DEF Grows

\* A step that changes no tree and lets no save go on keeps the invariant.
LEMMA OnlyFailures ==
  ASSUME FilesInv, FilesTypes',
         UNCHANGED <<work, staged, head, remote, writes, unlisted, erased>>,
         \A f \in Fact : saving'[f] = saving[f] \/ saving'[f] = "failed"
  PROVE  FilesInv'
<1>1. ASSUME NEW f \in Fact PROVE SaveInv(f)'
  <2>1. SaveInv(f)
    BY DEF FilesInv
  <2>2. /\ Grows(writes, work, writes', work', erased') /\ Grows(writes, staged, writes', staged', erased')
        /\ Grows(writes, head, writes', head', erased') /\ Grows(writes, remote, writes', remote', erased')
    BY StillGrows
  <2> QED
    BY <2>1, <2>2, SaveKept
<1> QED
  BY <1>1 DEF FilesInv

LEMMA SaveFactKeeps ==
  ASSUME FilesInv, NEW f \in Fact, SaveFact(f)
  PROVE  FilesInv'
<1>1. /\ saving[f] = "new" /\ saving' = [saving EXCEPT ![f] = "write"]
      /\ holder' = [holder EXCEPT ![ReaderOf[f]] = f]
      /\ UNCHANGED <<work, staged, head, remote, behind, listing, script, writes, unlisted, erased,
                     elsewhere, gitFaults>>
  BY DEF SaveFact
<1>2. FilesTypes'
  BY <1>1, FilesAssumption DEF FilesInv, FilesTypes, SaveStepNames
<1>3. saving'[f] = "write" /\ \A g \in Fact : g # f => saving'[g] = saving[g]
  BY <1>1 DEF FilesInv, FilesTypes
<1>4. ASSUME NEW g \in Fact PROVE SaveInv(g)'
  <2>1. SaveInv(g)
    BY DEF FilesInv
  <2>2. CASE g = f
    BY <1>1, <1>3, <2>1, <2>2 DEF SaveInv
  <2>3. CASE g # f
    <3>1. /\ Grows(writes, work, writes', work', erased') /\ Grows(writes, staged, writes', staged', erased')
          /\ Grows(writes, head, writes', head', erased') /\ Grows(writes, remote, writes', remote', erased')
      BY <1>1, StillGrows
    <3> QED
      BY <1>1, <1>3, <2>1, <2>3, <3>1, SaveKept
  <2> QED
    BY <2>2, <2>3
<1> QED
  BY <1>1, <1>2, <1>4 DEF FilesInv

LEMMA WriteFactKeeps ==
  ASSUME FilesInv, NEW f \in Fact, WriteFact(f)
  PROVE  FilesInv'
<1>1. /\ saving[f] = "write" /\ work' = [work EXCEPT ![TopicOf[f]] = {f}]
      /\ writes' = Append(writes, f)
      /\ saving' = [saving EXCEPT ![f] = "readme"]
      /\ UNCHANGED <<holder, staged, head, remote, behind, listing, script, unlisted, erased,
                     elsewhere, gitFaults>>
  BY StepFacts DEF WriteFact, SaveGoesOn
<1>2. /\ FilesTypes /\ \A i, j \in 1 .. Len(writes) : writes[i] = writes[j] => i = j
      /\ OnlyWritten(writes, work) /\ OnlyWritten(writes, staged)
      /\ OnlyWritten(writes, head) /\ OnlyWritten(writes, remote)
      /\ Within(writes, staged, work, erased) /\ Within(writes, head, staged, erased) /\ Within(writes, remote, head, erased)
      /\ \A g \in Fact : SaveInv(g)
      /\ writes \in Seq(Fact)
  BY DEF FilesInv, FilesTypes
<1>3. \A i \in 1 .. Len(writes) : writes[i] # f
  BY <1>1, <1>2 DEF SaveInv
<1>4. /\ writes' \in Seq(Fact)
      /\ \A i, j \in 1 .. Len(writes') : writes'[i] = writes'[j] => i = j
      /\ \A g, h : WrittenBefore(writes, g, h) => WrittenBefore(writes', g, h)
      /\ \A g, h : WrittenBefore(writes, g, h) => WrittenBefore(writes', g, f)
      /\ WrittenBefore(writes', f, f)
      /\ \A g : (\E i \in 1 .. Len(writes) : writes[i] = g) => \E i \in 1 .. Len(writes') : writes'[i] = g
      /\ \E i \in 1 .. Len(writes') : writes'[i] = f
      /\ \A g : g # f /\ (\A i \in 1 .. Len(writes) : writes[i] # g) => \A i \in 1 .. Len(writes') : writes'[i] # g
  BY <1>1, <1>2, <1>3, WriteAppended
<1>5. /\ work'[TopicOf[f]] = {f} /\ \A p \in RepoFile : p # TopicOf[f] => work'[p] = work[p]
      /\ work' \in TreeOfFiles
  <2>1. TopicOf[f] \in RepoFile /\ work \in TreeOfFiles
    BY <1>2, ListFacts DEF FilesTypes
  <2> QED
    BY <1>1, <2>1 DEF TreeOfFiles
<1>6. saving'[f] = "readme" /\ \A g \in Fact : g # f => saving'[g] = saving[g]
  BY <1>1, <1>2 DEF FilesTypes
<1>7. FilesTypes'
  <2>1. saving' \in [Fact -> SaveStepNames \cup {"new", "saved", "failed"}]
    BY <1>1, <1>2 DEF FilesTypes, SaveStepNames
  <2> QED
    BY <1>1, <1>2, <1>4, <1>5, <2>1 DEF FilesTypes
<1>8. /\ OnlyWritten(writes', staged) /\ OnlyWritten(writes', head) /\ OnlyWritten(writes', remote)
  BY <1>2, <1>4 DEF OnlyWritten
<1>9. OnlyWritten(writes', work')
  <2> SUFFICES ASSUME NEW t \in Topic, NEW g \in work'[t]
               PROVE  \E i \in 1 .. Len(writes') : writes'[i] = g
    BY DEF OnlyWritten
  <2>1. CASE t = TopicOf[f]
    BY <1>4, <1>5, <2>1
  <2>2. CASE t # TopicOf[f]
    <3>1. g \in work[t]
      BY <1>5, <2>2, ListFacts
    <3> QED
      BY <1>2, <1>4, <3>1 DEF OnlyWritten
  <2> QED
    BY <2>1, <2>2
<1>10. Grows(writes, work, writes', work', erased')
  <2>1. ASSUME NEW g \in Fact, Covers(writes, work, g) PROVE Covers(writes', work', g)
    <3>1. PICK h \in work[TopicOf[g]] : WrittenBefore(writes, g, h)
      BY <2>1 DEF Covers
    <3>2. CASE TopicOf[g] = TopicOf[f]
      <4>1. f \in work'[TopicOf[g]] /\ WrittenBefore(writes', g, f)
        BY <1>4, <1>5, <3>1, <3>2
      <4> QED
        BY <4>1 DEF Covers
    <3>3. CASE TopicOf[g] # TopicOf[f]
      <4>1. h \in work'[TopicOf[g]] /\ WrittenBefore(writes', g, h)
        BY <1>4, <1>5, <3>1, <3>3, ListFacts
      <4> QED
        BY <4>1 DEF Covers
    <3> QED
      BY <3>2, <3>3
  <2>2. \A l \in Listing : work'[l] = work[l]
    BY <1>5, ListFacts
  <2> QED
    BY <2>1, <2>2 DEF Grows
<1>11. ASSUME NEW tree, OnlyWritten(writes, tree)
       PROVE  \A g \in Fact : Covers(writes', tree, g) <=> Covers(writes, tree, g)
  BY <1>1, <1>2, <1>3, <1>11, CoversKept
<1>12. /\ Grows(writes, staged, writes', staged, erased') /\ Grows(writes, head, writes', head, erased')
       /\ Grows(writes, remote, writes', remote, erased')
  BY <1>2, <1>11 DEF Grows
<1>13. Within(writes', staged, work', erased)
  <2>1. Within(writes, staged, work, erased) /\ Grows(writes, work, writes', work', erased)
    BY <1>1, <1>2, <1>10
  <2>2. Grows(writes, staged, writes', work', erased)
    BY <2>1, GrowsTransitive
  <2> QED
    BY <1>2, <1>11, <2>2 DEF Within, Grows
<1>14. Within(writes', head, staged, erased) /\ Within(writes', remote, head, erased)
  <2>1. /\ \A g \in Fact : Covers(writes', staged, g) <=> Covers(writes, staged, g)
        /\ \A g \in Fact : Covers(writes', head, g) <=> Covers(writes, head, g)
        /\ \A g \in Fact : Covers(writes', remote, g) <=> Covers(writes, remote, g)
    BY <1>2, <1>11
  <2> QED
    BY <1>2, <2>1 DEF Within, Grows
<1>15. ASSUME NEW g \in Fact PROVE SaveInv(g)'
  <2>1. CASE g = f
    <3>1. Covers(writes', work', f)
      BY <1>4, <1>5 DEF Covers
    <3> QED
      BY <1>6, <2>1, <3>1 DEF SaveInv
  <2>2. CASE g # f
    <3>1. /\ SaveInv(g) /\ unlisted[g] \subseteq unlisted'[g]
          /\ \A l \in Listing : erased[l] \subseteq erased'[l]
      BY <1>1, <1>2
    <3>2. (\A i \in 1 .. Len(writes) : writes[i] # g) => (\A i \in 1 .. Len(writes') : writes'[i] # g)
      BY <1>4, <2>2
    <3>3. /\ Grows(writes, staged, writes', staged', erased') /\ Grows(writes, head, writes', head', erased')
          /\ Grows(writes, remote, writes', remote', erased')
      BY <1>1, <1>12
    <3> QED
      BY <1>6, <1>10, <2>2, <3>1, <3>2, <3>3, SaveKept
  <2> QED
    BY <2>1, <2>2
<1> QED
  BY <1>1, <1>4, <1>7, <1>8, <1>9, <1>13, <1>14, <1>15 DEF FilesInv

\* What every step but a write starts from.
LEMMA FilesFacts ==
  ASSUME FilesInv
  PROVE  /\ FilesTypes /\ \A i, j \in 1 .. Len(writes) : writes[i] = writes[j] => i = j
         /\ OnlyWritten(writes, work) /\ OnlyWritten(writes, staged)
         /\ OnlyWritten(writes, head) /\ OnlyWritten(writes, remote)
         /\ Within(writes, staged, work, erased) /\ Within(writes, head, staged, erased) /\ Within(writes, remote, head, erased)
         /\ \A g \in Fact : SaveInv(g)
         /\ work \in TreeOfFiles /\ staged \in TreeOfFiles /\ head \in TreeOfFiles /\ remote \in TreeOfFiles
         /\ DOMAIN saving = Fact
BY DEF FilesInv, FilesTypes

\* A step that changes one tree, and one save besides, is to be looked at in the
\* order of the trees and in that save.
LEMMA TreesAndListsChange ==
  ASSUME FilesInv, FilesTypes', UNCHANGED writes, \A l \in Listing : erased[l] \subseteq erased'[l],
         OnlyWritten(writes, work'), OnlyWritten(writes, staged'),
         OnlyWritten(writes, head'), OnlyWritten(writes, remote'),
         Within(writes, staged', work', erased'), Within(writes, head', staged', erased'), Within(writes, remote', head', erased'),
         Within(writes, work, work', erased'), Within(writes, staged, staged', erased'),
         Within(writes, head, head', erased'), Within(writes, remote, remote', erased'),
         NEW changed, changed \subseteq Fact,
         \A g \in Fact : SaveInv(g)' \/ g \notin changed,
         \A g \in Fact \ changed : /\ unlisted[g] \subseteq unlisted'[g]
                                   /\ saving'[g] = saving[g] \/ saving'[g] = "failed"
  PROVE  FilesInv'
<1>1. ASSUME NEW g \in Fact PROVE SaveInv(g)'
  <2>1. CASE g \in changed
    BY <2>1
  <2>2. CASE g \notin changed
    <3>1. /\ Grows(writes, work, writes', work', erased') /\ Grows(writes, staged, writes', staged', erased')
          /\ Grows(writes, head, writes', head', erased') /\ Grows(writes, remote, writes', remote', erased')
      BY DEF Within
    <3>2. SaveInv(g)
      BY FilesFacts
    <3> QED
      BY <2>2, <3>1, <3>2, SaveKept
  <2> QED
    BY <2>1, <2>2
<1>2. \A i, j \in 1 .. Len(writes') : writes'[i] = writes'[j] => i = j
  BY FilesFacts
<1> QED
  BY <1>1, <1>2 DEF FilesInv

\* Most steps lose nothing from a list.
LEMMA TreesChange ==
  ASSUME FilesInv, FilesTypes', UNCHANGED <<writes, erased>>,
         OnlyWritten(writes, work'), OnlyWritten(writes, staged'),
         OnlyWritten(writes, head'), OnlyWritten(writes, remote'),
         Within(writes, staged', work', erased), Within(writes, head', staged', erased), Within(writes, remote', head', erased),
         Within(writes, work, work', erased), Within(writes, staged, staged', erased),
         Within(writes, head, head', erased), Within(writes, remote, remote', erased),
         NEW changed, changed \subseteq Fact,
         \A g \in Fact : SaveInv(g)' \/ g \notin changed,
         \A g \in Fact \ changed : /\ unlisted[g] \subseteq unlisted'[g]
                                   /\ saving'[g] = saving[g] \/ saving'[g] = "failed"
  PROVE  FilesInv'
<1>1. /\ Within(writes, staged', work', erased') /\ Within(writes, head', staged', erased')
      /\ Within(writes, remote', head', erased')
      /\ Within(writes, work, work', erased') /\ Within(writes, staged, staged', erased')
      /\ Within(writes, head, head', erased') /\ Within(writes, remote, remote', erased')
      /\ \A l \in Listing : erased[l] \subseteq erased'[l]
      /\ UNCHANGED writes
  OBVIOUS
<1> QED
  BY <1>1, TreesAndListsChange

LEMMA LookForListKeeps ==
  ASSUME FilesInv, NEW f \in Fact, LookForList(f)
  PROVE  FilesInv'
<1> DEFINE next == IF work[ListOf[saving[f]]] = {} THEN "make" ELSE "append"
<1>1. /\ listing' = [listing EXCEPT ![f] = next]
      /\ UNCHANGED <<work, staged, head, remote, behind, saving, holder, script, writes, unlisted, erased,
                     elsewhere, gitFaults>>
  BY DEF LookForList
<1>2. next \in {"look", "make", "append"}
  OBVIOUS
<1> HIDE DEF next
<1>3. FilesTypes'
  BY <1>1, <1>2 DEF FilesInv, FilesTypes
<1> QED
  BY <1>1, <1>3, OnlyFailures

\* A step with a list loses nothing that is not noticed, and the save goes on
\* when the list has its fact or could not be had.
LEMMA ListsChange ==
  ASSUME FilesInv, FilesTypes', NEW f \in Fact, NEW l \in Listing,
         \/ saving[f] = "readme" /\ l = ListOf.readme
         \/ saving[f] = "index" /\ l = ListOf.index,
         UNCHANGED <<staged, head, remote, writes>>,
         \A t \in Topic : work'[t] = work[t],
         \A p \in Listing : work[p] \subseteq work'[p] \cup erased'[p] /\ erased[p] \subseteq erased'[p],
         \A g \in Fact : unlisted[g] \subseteq unlisted'[g],
         \A g \in Fact : g # f => saving'[g] = saving[g],
         \/ saving'[f] = saving[f]
         \/ saving'[f] = StepAfter(saving[f]) /\ (f \in work'[l] \/ l \in unlisted'[f])
  PROVE  FilesInv'
<1>1. /\ OnlyWritten(writes, work') /\ Within(writes, work, work', erased')
  <2>1. \A g \in Fact : Covers(writes, work, g) => Covers(writes, work', g)
    BY ListFacts DEF Covers
  <2>2. OnlyWritten(writes, work')
    BY FilesFacts DEF OnlyWritten
  <2> QED
    BY <2>1, <2>2 DEF Within, Grows
<1>2. /\ Within(writes, staged, staged, erased') /\ Within(writes, head, head, erased')
      /\ Within(writes, remote, remote, erased')
  BY WithinItself
<1>3. /\ Within(writes, staged, work', erased') /\ Within(writes, head, staged, erased')
      /\ Within(writes, remote, head, erased')
  <2>1. \A p \in Listing : erased[p] \subseteq erased'[p]
    OBVIOUS
  <2>2. /\ Within(writes, staged, work, erased) /\ Within(writes, head, staged, erased)
        /\ Within(writes, remote, head, erased)
    BY FilesFacts
  <2>3. Grows(writes, work, writes, work', erased')
    BY <1>1 DEF Within
  <2>4. Grows(writes, staged, writes, staged, erased') /\ Grows(writes, head, writes, head, erased')
    BY StillGrows
  <2>5. /\ Grows(writes, staged, writes, work', erased') /\ Grows(writes, head, writes, staged, erased')
        /\ Grows(writes, remote, writes, head, erased')
    BY <2>1, <2>2, <2>3, <2>4, GrowsTransitive
  <2> QED
    BY <2>5 DEF Within
<1>4. ASSUME saving'[f] = StepAfter(saving[f]), f \in work'[l] \/ l \in unlisted'[f]
      PROVE  SaveInv(f)'
  <2>1. Covers(writes', work', f)
    <3>1. Covers(writes, work, f)
      BY FilesFacts DEF SaveInv
    <3> QED
      BY <1>1, <3>1 DEF Within, Grows
  <2>2. Named(work, f, l)'
    BY <1>4 DEF Named
  <2>3. CASE saving[f] = "readme"
    <3>1. saving'[f] = "index" /\ l = ListOf.readme
      BY <1>4, <2>3, StepFacts
    <3> QED
      BY <2>1, <2>2, <3>1 DEF SaveInv
  <2>4. CASE saving[f] = "index"
    <3>1. saving'[f] = "add_fact" /\ l = ListOf.index
      BY <1>4, <2>4, StepFacts
    <3>2. Named(work, f, ListOf.readme)
      BY <2>4, FilesFacts DEF SaveInv
    <3>3. Named(work, f, ListOf.readme)'
      BY <3>2, ListFacts DEF Named
    <3> QED
      BY <2>1, <2>2, <3>1, <3>3 DEF SaveInv
  <2> QED
    BY <2>3, <2>4
<1>5. /\ OnlyWritten(writes, staged') /\ OnlyWritten(writes, head') /\ OnlyWritten(writes, remote')
      /\ Within(writes, staged', work', erased') /\ Within(writes, head', staged', erased')
      /\ Within(writes, remote', head', erased')
      /\ Within(writes, staged, staged', erased') /\ Within(writes, head, head', erased')
      /\ Within(writes, remote, remote', erased') /\ UNCHANGED writes
      /\ \A p \in Listing : erased[p] \subseteq erased'[p]
  BY <1>2, <1>3, FilesFacts
<1> DEFINE changed == {g \in Fact : saving'[g] # saving[g]}
<1>6. changed \subseteq Fact
  OBVIOUS
<1>7. \A g \in Fact : SaveInv(g)' \/ g \notin changed
  BY <1>4
<1>8. \A g \in Fact \ changed : /\ unlisted[g] \subseteq unlisted'[g]
                                /\ saving'[g] = saving[g] \/ saving'[g] = "failed"
  OBVIOUS
<1> HIDE DEF changed
<1> QED
  BY <1>1, <1>5, <1>6, <1>7, <1>8, TreesAndListsChange

\* The list whose turn it is.
LEMMA ListAtHand ==
  ASSUME NEW f \in Fact, saving[f] \in {"readme", "index"}
  PROVE  /\ ListOf[saving[f]] \in Listing
         /\ \/ saving[f] = "readme" /\ ListOf[saving[f]] = ListOf.readme
            \/ saving[f] = "index" /\ ListOf[saving[f]] = ListOf.index
         /\ StepAfter(saving[f]) \in SaveStepNames
BY ListFacts, StepFacts DEF SaveStepNames

LEMMA MakeListKeeps ==
  ASSUME FilesInv, NEW f \in Fact, MakeList(f)
  PROVE  FilesInv'
<1> DEFINE l == ListOf[saving[f]]
           next == StepAfter(saving[f])
<1>1. /\ saving[f] \in {"readme", "index"}
      /\ \/ UNCHANGED <<saving, unlisted, gitFaults>> /\ listing' = [listing EXCEPT ![f] = "append"]
         \/ /\ saving' = [saving EXCEPT ![f] = next] /\ listing' = [listing EXCEPT ![f] = "look"]
            /\ gitFaults < MaxGitFaults /\ gitFaults' = gitFaults + 1
            /\ unlisted' = [unlisted EXCEPT ![f] = unlisted[f] \cup {l}]
      /\ \/ /\ work' = [work EXCEPT ![l] = {Header}]
            /\ erased' = [erased EXCEPT ![l] = erased[l] \cup (work[l] \ {Header})]
         \/ UNCHANGED <<work, erased>>
      /\ UNCHANGED <<staged, head, remote, behind, holder, script, writes, elsewhere>>
  BY DEF MakeList, MadeAnew, GivesUpList, ListDone, SaveGoesOn, GitFault
<1>2. /\ l \in Listing /\ next \in SaveStepNames
      /\ \/ saving[f] = "readme" /\ l = ListOf.readme
         \/ saving[f] = "index" /\ l = ListOf.index
  BY <1>1, ListAtHand
<1> HIDE DEF l, next
<1>0. /\ FilesTypes /\ l \in RepoFile /\ Topic \subseteq RepoFile /\ Listing \subseteq RepoFile
      /\ \A t \in Topic : t # l
  BY <1>2, FilesFacts, ListFacts
<1>3. /\ work' \in TreeOfFiles /\ erased' \in [Listing -> SUBSET Fact]
      /\ \A t \in Topic : work'[t] = work[t]
      /\ \A p \in Listing : work[p] \subseteq work'[p] \cup erased'[p] /\ erased[p] \subseteq erased'[p]
  <2>1. CASE UNCHANGED <<work, erased>>
    BY <1>0, <2>1 DEF FilesTypes
  <2>2. CASE /\ work' = [work EXCEPT ![l] = {Header}]
             /\ erased' = [erased EXCEPT ![l] = erased[l] \cup (work[l] \ {Header})]
    <3>1. /\ work' \in TreeOfFiles /\ work'[l] = {Header}
          /\ \A p \in RepoFile : p # l => work'[p] = work[p]
      BY <1>0, <2>2 DEF FilesTypes, TreeOfFiles
    <3>2. work[l] \subseteq Fact \cup {Header}
      BY <1>0 DEF FilesTypes, TreeOfFiles
    <3>3. /\ erased' \in [Listing -> SUBSET Fact] /\ erased'[l] = erased[l] \cup (work[l] \ {Header})
          /\ \A p \in Listing : p # l => erased'[p] = erased[p]
      BY <1>0, <1>2, <2>2, <3>2 DEF FilesTypes
    <3> QED
      BY <1>0, <3>1, <3>3
  <2> QED
    BY <1>1, <2>1, <2>2
<1>4. /\ saving' \in [Fact -> SaveStepNames \cup {"new", "saved", "failed"}]
      /\ listing' \in [Fact -> {"look", "make", "append"}]
      /\ unlisted' \in [Fact -> SUBSET Listing] /\ gitFaults' \in 0 .. MaxGitFaults
      /\ \A g \in Fact : unlisted[g] \subseteq unlisted'[g]
      /\ \A g \in Fact : g # f => saving'[g] = saving[g]
      /\ \/ saving'[f] = saving[f]
         \/ saving'[f] = next /\ l \in unlisted'[f]
  <2>1. CASE UNCHANGED <<saving, unlisted, gitFaults>> /\ listing' = [listing EXCEPT ![f] = "append"]
    BY <1>0, <2>1 DEF FilesTypes
  <2>2. CASE /\ saving' = [saving EXCEPT ![f] = next] /\ listing' = [listing EXCEPT ![f] = "look"]
             /\ gitFaults < MaxGitFaults /\ gitFaults' = gitFaults + 1
             /\ unlisted' = [unlisted EXCEPT ![f] = unlisted[f] \cup {l}]
    BY <1>0, <1>2, <2>2, FilesAssumption DEF FilesTypes
  <2> QED
    BY <1>1, <2>1, <2>2
<1>5. FilesTypes'
  BY <1>0, <1>1, <1>3, <1>4 DEF FilesTypes
<1> QED
  BY <1>1, <1>2, <1>3, <1>4, <1>5, ListsChange DEF next

LEMMA AppendToListKeeps ==
  ASSUME FilesInv, NEW f \in Fact, AppendToList(f)
  PROVE  FilesInv'
<1> DEFINE l == ListOf[saving[f]]
           next == StepAfter(saving[f])
<1>1. /\ saving[f] \in {"readme", "index"}
      /\ saving' = [saving EXCEPT ![f] = next] /\ listing' = [listing EXCEPT ![f] = "look"]
      /\ \/ work' = [work EXCEPT ![l] = work[l] \cup {f}] /\ UNCHANGED <<unlisted, gitFaults>>
         \/ /\ gitFaults < MaxGitFaults /\ gitFaults' = gitFaults + 1
            /\ unlisted' = [unlisted EXCEPT ![f] = unlisted[f] \cup {l}]
            /\ UNCHANGED work
      /\ UNCHANGED <<staged, head, remote, behind, holder, script, writes, erased, elsewhere>>
  BY DEF AppendToList, GivesUpList, ListDone, SaveGoesOn, GitFault
<1>2. /\ l \in Listing /\ next \in SaveStepNames
      /\ \/ saving[f] = "readme" /\ l = ListOf.readme
         \/ saving[f] = "index" /\ l = ListOf.index
  BY <1>1, ListAtHand
<1> HIDE DEF l, next
<1>0. /\ FilesTypes /\ l \in RepoFile /\ Topic \subseteq RepoFile /\ Listing \subseteq RepoFile
      /\ \A t \in Topic : t # l
  BY <1>2, FilesFacts, ListFacts
<1>3. /\ work' \in TreeOfFiles /\ unlisted' \in [Fact -> SUBSET Listing] /\ gitFaults' \in 0 .. MaxGitFaults
      /\ \A t \in Topic : work'[t] = work[t]
      /\ \A p \in Listing : work[p] \subseteq work'[p]
      /\ \A g \in Fact : unlisted[g] \subseteq unlisted'[g]
      /\ f \in work'[l] \/ l \in unlisted'[f]
  <2>1. CASE work' = [work EXCEPT ![l] = work[l] \cup {f}] /\ UNCHANGED <<unlisted, gitFaults>>
    BY <1>0, <2>1 DEF FilesTypes, TreeOfFiles
  <2>2. CASE /\ gitFaults < MaxGitFaults /\ gitFaults' = gitFaults + 1
             /\ unlisted' = [unlisted EXCEPT ![f] = unlisted[f] \cup {l}]
             /\ UNCHANGED work
    BY <1>0, <1>2, <2>2, FilesAssumption DEF FilesTypes
  <2> QED
    BY <1>1, <2>1, <2>2
<1>4. /\ saving' \in [Fact -> SaveStepNames \cup {"new", "saved", "failed"}]
      /\ listing' \in [Fact -> {"look", "make", "append"}]
      /\ \A g \in Fact : g # f => saving'[g] = saving[g]
      /\ saving'[f] = next
  BY <1>0, <1>1, <1>2 DEF FilesTypes
<1>5. FilesTypes'
  BY <1>0, <1>1, <1>3, <1>4 DEF FilesTypes
<1>6. \A p \in Listing : work[p] \subseteq work'[p] \cup erased'[p] /\ erased[p] \subseteq erased'[p]
  BY <1>1, <1>3
<1> QED
  BY <1>1, <1>2, <1>3, <1>4, <1>5, <1>6, ListsChange DEF next

\* A file taken into a tree from another that has all that is in it.
LEMMA FileTaken ==
  ASSUME NEW w, NEW tree \in TreeOfFiles, NEW source \in TreeOfFiles, Within(w, tree, source, erased),
         OnlyWritten(w, tree), OnlyWritten(w, source), NEW p \in RepoFile
  PROVE  LET taken == [tree EXCEPT ![p] = source[p]] IN
         /\ taken \in TreeOfFiles /\ taken[p] = source[p]
         /\ \A q \in RepoFile : q # p => taken[q] = tree[q]
         /\ OnlyWritten(w, taken) /\ Within(w, taken, source, erased) /\ Within(w, tree, taken, erased)
<1> DEFINE taken == [tree EXCEPT ![p] = source[p]]
<1>1. /\ taken \in TreeOfFiles /\ taken[p] = source[p]
      /\ \A q \in RepoFile : q # p => taken[q] = tree[q]
  BY DEF TreeOfFiles
<1> HIDE DEF taken
<1>2. OnlyWritten(w, taken)
  BY <1>1, ListFacts DEF OnlyWritten
<1>3. ASSUME NEW g \in Fact
      PROVE  /\ Covers(w, taken, g) => Covers(w, source, g)
             /\ Covers(w, tree, g) => Covers(w, taken, g)
  <2>1. TopicOf[g] \in RepoFile /\ Covers(w, tree, g) => Covers(w, source, g)
    BY ListFacts DEF Within, Grows
  <2>0. TopicOf[g] \in RepoFile
    BY ListFacts
  <2>2. CASE TopicOf[g] = p
    BY <1>1, <2>1, <2>0, <2>2 DEF Covers
  <2>3. CASE TopicOf[g] # p
    <3>1. taken[TopicOf[g]] = tree[TopicOf[g]]
      BY <1>1, <2>0, <2>3
    <3>2. Covers(w, taken, g) <=> Covers(w, tree, g)
      BY <3>1 DEF Covers
    <3> QED
      BY <2>0, <2>1, <3>2
  <2> QED
    BY <2>2, <2>3
<1>4. ASSUME NEW l \in Listing
      PROVE  taken[l] \subseteq source[l] \cup erased[l] /\ tree[l] \subseteq taken[l] \cup erased[l]
  <2>1. l \in RepoFile /\ tree[l] \subseteq source[l] \cup erased[l]
    BY ListFacts DEF Within, Grows
  <2> QED
    BY <1>1, <2>1
<1>5. Within(w, taken, source, erased) /\ Within(w, tree, taken, erased)
  BY <1>3, <1>4 DEF Within, Grows
<1> QED
  BY <1>1, <1>2, <1>5 DEF taken

LEMMA GitAddKeeps ==
  ASSUME FilesInv, NEW f \in Fact, GitAdd(f)
  PROVE  FilesInv'
<1> DEFINE p == PartOf(f)[saving[f]]
<1>1. /\ saving[f] \in {"add_fact", "add_readme", "add_index"}
      /\ saving' = [saving EXCEPT ![f] = StepAfter(saving[f])]
      /\ staged' = [staged EXCEPT ![p] = work[p]]
      /\ UNCHANGED <<work, head, remote, behind, listing, script, writes, unlisted, erased,
                     elsewhere, gitFaults, holder>>
  BY DEF GitAdd, SaveGoesOn
<1>2. /\ saving[f] = "add_fact" => p = TopicOf[f]
      /\ saving[f] = "add_readme" => p = ListOf.readme
      /\ saving[f] = "add_index" => p = ListOf.index
      /\ p \in RepoFile
  BY <1>1, ListFacts
<1> HIDE DEF p
<1>3. saving'[f] = StepAfter(saving[f]) /\ \A g \in Fact : g # f => saving'[g] = saving[g]
  BY <1>1, FilesFacts
<1>0. /\ Within(writes, staged, work, erased) /\ OnlyWritten(writes, staged) /\ OnlyWritten(writes, work)
      /\ staged \in TreeOfFiles /\ work \in TreeOfFiles
  BY FilesFacts
<1> DEFINE taken == [staged EXCEPT ![p] = work[p]]
<1>11. /\ taken \in TreeOfFiles /\ taken[p] = work[p]
       /\ \A q \in RepoFile : q # p => taken[q] = staged[q]
       /\ OnlyWritten(writes, taken) /\ Within(writes, taken, work, erased) /\ Within(writes, staged, taken, erased)
  BY <1>0, <1>2, FileTaken
<1>12. staged' = taken
  BY <1>1
<1> HIDE DEF taken
<1>4. /\ staged' \in TreeOfFiles /\ staged'[p] = work[p]
      /\ \A q \in RepoFile : q # p => staged'[q] = staged[q]
      /\ OnlyWritten(writes, staged') /\ Within(writes, staged', work, erased) /\ Within(writes, staged, staged', erased)
  BY <1>11, <1>12
<1>5. FilesTypes'
  <2>1. StepAfter(saving[f]) \in SaveStepNames
    BY <1>1, StepFacts DEF SaveStepNames
  <2>2. saving' \in [Fact -> SaveStepNames \cup {"new", "saved", "failed"}]
    BY <1>1, <2>1 DEF FilesInv, FilesTypes
  <2> QED
    BY <1>1, <1>4, <2>2 DEF FilesInv, FilesTypes
<1>6. Within(writes, head, staged', erased)
  BY <1>4, FilesFacts, GrowsTransitive DEF Within
<1>7. SaveInv(f)'
  <2>1. SaveInv(f) /\ ListOf.readme \in Listing /\ ListOf.index \in Listing
    BY FilesFacts, ListFacts
  <2>2. /\ Covers(writes', work', f) <=> Covers(writes, work, f)
        /\ \A l \in Listing : Named(work, f, l)' <=> Named(work, f, l)
        /\ Covers(writes, staged, f) => Covers(writes', staged', f)
        /\ \A l \in Listing : Named(staged, f, l) => Named(staged, f, l)'
    BY <1>1, <1>4 DEF Within, Grows, Named
  <2>3. CASE saving[f] = "add_fact"
    <3>1. saving'[f] = "add_readme"
      BY <1>3, <2>3, StepFacts
    <3>2. Covers(writes', staged', f)
      <4>1. Covers(writes, work, f) /\ staged'[TopicOf[f]] = work[TopicOf[f]]
        BY <1>2, <1>4, <2>1, <2>3 DEF SaveInv
      <4> QED
        BY <1>1, <4>1 DEF Covers
    <3> QED
      BY <2>1, <2>2, <2>3, <3>1, <3>2 DEF SaveInv
  <2>4. CASE saving[f] = "add_readme"
    <3>1. saving'[f] = "add_index"
      BY <1>3, <2>4, StepFacts
    <3>2. Named(staged, f, ListOf.readme)'
      <4>1. Named(work, f, ListOf.readme) /\ staged'[ListOf.readme] = work[ListOf.readme]
        BY <1>2, <1>4, <2>1, <2>4 DEF SaveInv
      <4> QED
        BY <1>1, <4>1 DEF Named
    <3> QED
      BY <2>1, <2>2, <2>4, <3>1, <3>2 DEF SaveInv
  <2>5. CASE saving[f] = "add_index"
    <3>1. saving'[f] = "commit"
      BY <1>3, <2>5, StepFacts
    <3>2. Named(staged, f, ListOf.index)'
      <4>1. Named(work, f, ListOf.index) /\ staged'[ListOf.index] = work[ListOf.index]
        BY <1>2, <1>4, <2>1, <2>5 DEF SaveInv
      <4> QED
        BY <1>1, <4>1 DEF Named
    <3> QED
      BY <2>1, <2>2, <2>5, <3>1, <3>2 DEF SaveInv
  <2> QED
    BY <1>1, <2>3, <2>4, <2>5
<1>8. /\ Within(writes, work, work', erased) /\ Within(writes, head, head', erased) /\ Within(writes, remote, remote', erased)
  BY <1>1, WithinItself
<1>9. /\ OnlyWritten(writes, work') /\ OnlyWritten(writes, head') /\ OnlyWritten(writes, remote')
      /\ Within(writes, staged', work', erased) /\ Within(writes, head', staged', erased) /\ Within(writes, remote', head', erased)
      /\ UNCHANGED <<writes, erased>>
  BY <1>1, <1>4, <1>6, FilesFacts
<1>10. /\ \A g \in Fact : SaveInv(g)' \/ g \notin {f}
       /\ \A g \in Fact \ {f} : /\ unlisted[g] \subseteq unlisted'[g]
                                /\ saving'[g] = saving[g] \/ saving'[g] = "failed"
       /\ {f} \subseteq Fact
  BY <1>1, <1>3, <1>7
<1> QED
  BY <1>4, <1>5, <1>8, <1>9, <1>10, TreesChange

LEMMA ListMissingKeeps ==
  ASSUME FilesInv, NEW f \in Fact, ListMissing(f)
  PROVE  FilesInv'
<1>1. /\ saving' = [saving EXCEPT ![f] = "failed"] /\ holder' = [holder EXCEPT ![ReaderOf[f]] = NoSave]
      /\ UNCHANGED <<work, staged, head, remote, behind, listing, script, writes, unlisted, erased,
                     elsewhere, gitFaults>>
  BY DEF ListMissing, SaveReturns
<1>2. FilesTypes'
  BY <1>1 DEF FilesInv, FilesTypes
<1>3. \A g \in Fact : saving'[g] = saving[g] \/ saving'[g] = "failed"
  BY <1>1 DEF FilesInv, FilesTypes
<1> QED
  BY <1>1, <1>2, <1>3, OnlyFailures

LEMMA SaveFailsKeeps ==
  ASSUME FilesInv, NEW f \in Fact, SaveFails(f)
  PROVE  FilesInv'
<1>1. /\ saving' = [saving EXCEPT ![f] = "failed"] /\ holder' = [holder EXCEPT ![ReaderOf[f]] = NoSave]
      /\ gitFaults < MaxGitFaults /\ gitFaults' = gitFaults + 1
      /\ UNCHANGED <<work, staged, head, remote, behind, listing, script, writes, unlisted, erased,
                     elsewhere>>
  BY DEF SaveFails, SaveReturns, GitFault
<1>2. FilesTypes'
  <2>1. gitFaults' \in 0 .. MaxGitFaults
    BY <1>1, FilesAssumption DEF FilesInv, FilesTypes
  <2>2. /\ saving' \in [Fact -> SaveStepNames \cup {"new", "saved", "failed"}]
        /\ holder' \in [Reader -> Fact \cup {NoSave}]
    BY <1>1 DEF FilesInv, FilesTypes
  <2> QED
    BY <1>1, <2>1, <2>2 DEF FilesInv, FilesTypes
<1>3. \A g \in Fact : saving'[g] = saving[g] \/ saving'[g] = "failed"
  BY <1>1 DEF FilesInv, FilesTypes
<1> QED
  BY <1>1, <1>2, <1>3, OnlyFailures

LEMMA SavesLostKeeps == FilesInv /\ SavesLost => FilesInv'
<1> SUFFICES ASSUME FilesInv, SavesLost PROVE FilesInv'
  OBVIOUS
<1>1. /\ saving' = [f \in Fact |-> IF saving[f] \in ToSet(SaveSteps) THEN "failed" ELSE saving[f]]
      /\ listing' = [f \in Fact |-> "look"] /\ holder' = [r \in Reader |-> NoSave]
      /\ gitFaults < MaxGitFaults /\ gitFaults' = gitFaults + 1
      /\ UNCHANGED <<work, staged, head, remote, behind, script, writes, unlisted, erased, elsewhere>>
  BY DEF SavesLost, GitFault
<1>2. FilesTypes'
  <2>1. saving' \in [Fact -> SaveStepNames \cup {"new", "saved", "failed"}]
    BY <1>1 DEF FilesInv, FilesTypes
  <2>2. gitFaults' \in 0 .. MaxGitFaults /\ holder' \in [Reader -> Fact \cup {NoSave}]
    BY <1>1, FilesAssumption DEF FilesInv, FilesTypes
  <2>3. listing' \in [Fact -> {"look", "make", "append"}]
    BY <1>1
  <2> QED
    BY <1>1, <2>1, <2>2, <2>3 DEF FilesInv, FilesTypes
<1>3. \A g \in Fact : saving'[g] = saving[g] \/ saving'[g] = "failed"
  BY <1>1
<1> QED
  BY <1>1, <1>2, <1>3, OnlyFailures

\* The pulls, and the pushes of others, change no tree and no save.
LEMMA OthersKeep ==
  ASSUME FilesInv, PushedElsewhere \/ \E r \in Reader : Pull(r)
  PROVE  FilesInv'
<1>1. /\ UNCHANGED <<work, staged, head, remote, saving, listing, holder, script, writes, unlisted,
                     erased, gitFaults>>
      /\ elsewhere' \in 0 .. MaxElsewhere
  BY FilesAssumption DEF PushedElsewhere, Pull, Somewhere, FilesInv, FilesTypes
<1>2. behind' \in BOOLEAN
  BY Zenon DEF PushedElsewhere, Pull
<1>3. FilesTypes'
  BY <1>1, <1>2 DEF FilesInv, FilesTypes
<1> QED
  BY <1>1, <1>3, OnlyFailures

LEMMA GitCommitKeeps ==
  ASSUME FilesInv, NEW f \in Fact, GitCommit(f)
  PROVE  FilesInv'
<1>1. /\ saving[f] = "commit" /\ head' = staged
      /\ \/ saving' = [saving EXCEPT ![f] = "failed"] /\ holder' = [holder EXCEPT ![ReaderOf[f]] = NoSave]
         \/ saving' = [saving EXCEPT ![f] = "push"] /\ holder' = holder
      /\ UNCHANGED <<work, staged, remote, behind, listing, script, writes, unlisted, erased,
                     elsewhere, gitFaults>>
  BY StepFacts DEF GitCommit, SaveReturns, SaveGoesOn
<1>2. /\ saving'[f] \in {"failed", "push"} /\ \A g \in Fact : g # f => saving'[g] = saving[g]
  BY <1>1, FilesFacts
<1>3. FilesTypes'
  <2>1. saving' \in [Fact -> SaveStepNames \cup {"new", "saved", "failed"}]
    BY <1>1 DEF FilesInv, FilesTypes, SaveStepNames
  <2>2. holder' \in [Reader -> Fact \cup {NoSave}]
    BY <1>1 DEF FilesInv, FilesTypes
  <2> QED
    BY <1>1, <2>1, <2>2 DEF FilesInv, FilesTypes
<1>4. /\ Within(writes, head, head', erased) /\ OnlyWritten(writes, head') /\ Within(writes, head', staged, erased)
  BY <1>1, FilesFacts, WithinItself
<1>5. Within(writes, remote, head', erased)
  BY <1>4, FilesFacts, GrowsTransitive DEF Within
<1>6. SaveInv(f)'
  <2>1. SaveInv(f) /\ ListOf.readme \in Listing /\ ListOf.index \in Listing
        /\ \A l \in Listing : l = ListOf.readme \/ l = ListOf.index
    BY FilesFacts, ListFacts
  <2>2. /\ Covers(writes', work', f) <=> Covers(writes, work, f)
        /\ \A l : Named(work, f, l)' <=> Named(work, f, l)
        /\ Covers(writes', staged', f) <=> Covers(writes, staged, f)
        /\ \A l : Named(staged, f, l)' <=> Named(staged, f, l)
        /\ Covers(writes', head', f) <=> Covers(writes, staged, f)
        /\ \A l : Named(head, f, l)' <=> Named(staged, f, l)
    BY <1>1 DEF Named
  <2> QED
    BY <1>1, <1>2, <2>1, <2>2 DEF SaveInv
<1>7. /\ Within(writes, work, work', erased) /\ Within(writes, staged, staged', erased) /\ Within(writes, remote, remote', erased)
  BY <1>1, WithinItself
<1>8. /\ OnlyWritten(writes, work') /\ OnlyWritten(writes, staged') /\ OnlyWritten(writes, remote')
      /\ Within(writes, staged', work', erased) /\ Within(writes, head', staged', erased) /\ Within(writes, remote', head', erased)
      /\ UNCHANGED <<writes, erased>>
  BY <1>1, <1>4, <1>5, FilesFacts
<1>9. /\ \A g \in Fact : SaveInv(g)' \/ g \notin {f}
      /\ \A g \in Fact \ {f} : /\ unlisted[g] \subseteq unlisted'[g]
                               /\ saving'[g] = saving[g] \/ saving'[g] = "failed"
      /\ {f} \subseteq Fact
  BY <1>1, <1>2, <1>6
<1> QED
  BY <1>3, <1>4, <1>7, <1>8, <1>9, TreesChange

LEMMA GitPushKeeps ==
  ASSUME FilesInv, NEW f \in Fact, GitPush(f)
  PROVE  FilesInv'
<1>1. /\ saving[f] = "push" /\ holder' = [holder EXCEPT ![ReaderOf[f]] = NoSave]
      /\ UNCHANGED <<work, staged, head, behind, listing, script, writes, unlisted, erased,
                     elsewhere, gitFaults>>
  BY DEF GitPush, SaveReturns
<1>2. \/ remote' = remote /\ saving' = [saving EXCEPT ![f] = "failed"]
      \/ remote' = head /\ saving' = [saving EXCEPT ![f] = "saved"]
  BY DEF GitPush, SaveReturns
<1>3. \A g \in Fact : g # f => saving'[g] = saving[g]
  BY <1>2, FilesFacts
<1>4. FilesTypes'
  <2>1. saving' \in [Fact -> SaveStepNames \cup {"new", "saved", "failed"}]
    BY <1>2 DEF FilesInv, FilesTypes
  <2>2. holder' \in [Reader -> Fact \cup {NoSave}]
    BY <1>1 DEF FilesInv, FilesTypes
  <2>3. remote' \in TreeOfFiles
    BY <1>2, FilesFacts
  <2> QED
    BY <1>1, <2>1, <2>2, <2>3 DEF FilesInv, FilesTypes
<1>5. /\ Within(writes, remote, remote', erased) /\ OnlyWritten(writes, remote') /\ Within(writes, remote', head, erased)
  BY <1>2, FilesFacts, WithinItself
<1>6. SaveInv(f)'
  <2>1. CASE saving' = [saving EXCEPT ![f] = "failed"]
    BY <2>1, FilesFacts DEF SaveInv
  <2>2. CASE remote' = head /\ saving' = [saving EXCEPT ![f] = "saved"]
    <3>1. SaveInv(f) /\ ListOf.readme \in Listing /\ ListOf.index \in Listing
      BY FilesFacts, ListFacts
    <3>2. /\ Covers(writes', work', f) <=> Covers(writes, work, f)
          /\ \A l : Named(work, f, l)' <=> Named(work, f, l)
          /\ Covers(writes', staged', f) <=> Covers(writes, staged, f)
          /\ \A l : Named(staged, f, l)' <=> Named(staged, f, l)
          /\ Covers(writes', head', f) <=> Covers(writes, head, f)
          /\ \A l : Named(head, f, l)' <=> Named(head, f, l)
          /\ Covers(writes', remote', f) <=> Covers(writes, head, f)
          /\ \A l : Named(remote, f, l)' <=> Named(head, f, l)
      BY <1>1, <2>2 DEF Named
    <3>3. saving'[f] = "saved"
      BY <2>2, FilesFacts
    <3> QED
      BY <1>1, <3>1, <3>2, <3>3 DEF SaveInv
  <2> QED
    BY <1>2, <2>1, <2>2
<1>7. /\ Within(writes, work, work', erased) /\ Within(writes, staged, staged', erased) /\ Within(writes, head, head', erased)
  BY <1>1, WithinItself
<1>8. /\ OnlyWritten(writes, work') /\ OnlyWritten(writes, staged') /\ OnlyWritten(writes, head')
      /\ Within(writes, staged', work', erased) /\ Within(writes, head', staged', erased) /\ Within(writes, remote', head', erased)
      /\ UNCHANGED <<writes, erased>>
  BY <1>1, <1>5, FilesFacts
<1>9. /\ \A g \in Fact : SaveInv(g)' \/ g \notin {f}
      /\ \A g \in Fact \ {f} : /\ unlisted[g] \subseteq unlisted'[g]
                               /\ saving'[g] = saving[g] \/ saving'[g] = "failed"
      /\ {f} \subseteq Fact
  BY <1>1, <1>3, <1>6
<1> QED
  BY <1>4, <1>5, <1>7, <1>8, <1>9, TreesChange

LEMMA ScriptKeeps ==
  ASSUME FilesInv, ScriptAdds \/ ScriptCommits \/ ScriptPushes
  PROVE  FilesInv'
<1>1. /\ UNCHANGED <<work, saving, listing, holder, writes, unlisted, erased, gitFaults, behind>>
      /\ \/ staged' = work /\ head' = head /\ remote' = remote
         \/ staged' = staged /\ head' = staged /\ remote' = remote
         \/ staged' = staged /\ head' = head /\ remote' = head
         \/ staged' = staged /\ head' = head /\ remote' = remote
      /\ script' \in {"idle", "commit", "push"}
  BY DEF ScriptAdds, ScriptCommits, ScriptPushes
<1>2. elsewhere' \in 0 .. MaxElsewhere
  BY FilesAssumption DEF ScriptAdds, ScriptCommits, ScriptPushes, Somewhere, FilesInv, FilesTypes
<1>3. staged' \in TreeOfFiles /\ head' \in TreeOfFiles /\ remote' \in TreeOfFiles
  BY <1>1, FilesFacts
<1>4. FilesTypes'
  BY <1>1, <1>2, <1>3 DEF FilesInv, FilesTypes
<1>5. /\ Within(writes, staged, staged', erased) /\ Within(writes, head, head', erased) /\ Within(writes, remote, remote', erased)
      /\ OnlyWritten(writes, staged') /\ OnlyWritten(writes, head') /\ OnlyWritten(writes, remote')
  BY <1>1, FilesFacts, WithinItself
<1>6. /\ Within(writes, staged', work, erased) /\ Within(writes, head, staged', erased) /\ Within(writes, remote, head', erased)
      /\ Within(writes, work, work', erased)
  <2>1. /\ Within(writes, head, staged', erased) /\ Within(writes, remote, head', erased)
    BY <1>5, FilesFacts, GrowsTransitive DEF Within
  <2> QED
    BY <1>1, <2>1, FilesFacts, WithinItself
<1>7. Within(writes, head', staged', erased) /\ Within(writes, remote', head', erased)
  BY <1>1, <1>6, FilesFacts, WithinItself
<1>8. /\ OnlyWritten(writes, work') /\ Within(writes, staged', work', erased) /\ UNCHANGED <<writes,
                                                                                             erased>>
  BY <1>1, <1>6, FilesFacts
<1> DEFINE none == {}
<1>9. /\ \A g \in Fact : SaveInv(g)' \/ g \notin none
      /\ \A g \in Fact \ none : /\ unlisted[g] \subseteq unlisted'[g]
                                /\ saving'[g] = saving[g] \/ saving'[g] = "failed"
      /\ none \subseteq Fact
  BY <1>1
<1> HIDE DEF none
<1> QED
  BY <1>4, <1>5, <1>6, <1>7, <1>8, <1>9, TreesChange

\* Every step keeps the invariant.
LEMMA FilesStep == FilesInv /\ [FilesNext]_fileVars => FilesInv'
<1> SUFFICES ASSUME FilesInv, [FilesNext]_fileVars PROVE FilesInv'
  OBVIOUS
<1>1. ASSUME NEW f \in Fact,
             \/ SaveFact(f) \/ WriteFact(f) \/ LookForList(f) \/ MakeList(f) \/ AppendToList(f)
             \/ GitAdd(f) \/ ListMissing(f)
             \/ GitCommit(f) \/ GitPush(f) \/ SaveFails(f)
      PROVE  FilesInv'
  BY <1>1, SaveFactKeeps, WriteFactKeeps, LookForListKeeps, MakeListKeeps, AppendToListKeeps,
     GitAddKeeps, ListMissingKeeps,
     GitCommitKeeps, GitPushKeeps, SaveFailsKeeps
<1>2. CASE PushedElsewhere \/ \E r \in Reader : Pull(r)
  BY <1>2, OthersKeep
<1>3. CASE ScriptAdds \/ ScriptCommits \/ ScriptPushes
  BY <1>3, ScriptKeeps
<1>4. CASE SavesLost
  BY <1>4, SavesLostKeeps
<1>5. CASE UNCHANGED fileVars
  <2>1. FilesTypes'
    BY <1>5 DEF fileVars, FilesInv, FilesTypes
  <2> QED
    BY <1>5, <2>1, OnlyFailures DEF fileVars
<1> QED
  BY <1>1, <1>2, <1>3, <1>4, <1>5 DEF FilesNext

\* What the remote has the last commit has, what that has is staged, and what is
\* staged is in the files, but for what was erased with a list that was made anew;
\* and each save has done what its steps so far do.
THEOREM FilesAreConsistent == FilesSpec => []FilesInv
<1>1. FilesInit => FilesInv
  BY FilesInitInv
<1>2. FilesInv /\ [FilesNext]_fileVars => FilesInv'
  BY FilesStep
<1> QED
  BY <1>1, <1>2, PTL DEF FilesSpec

\* The trees, the saves and the locks keep the types the reader gives them, and no
\* fact is written twice.
THEOREM FilesTypeCorrect == FilesSpec => []FilesTypeOK
<1>1. FilesInv => FilesTypeOK
  <2> SUFFICES ASSUME FilesInv PROVE FilesTypeOK
    OBVIOUS
  <2>1. writes \in Seq(Fact) /\ DOMAIN writes = 1 .. Len(writes)
    BY DEF FilesInv, FilesTypes
  <2>2. IsInjective(writes)
    BY <2>1 DEF FilesInv, IsInjective
  <2>3. ToSet(writes) \subseteq Fact
    BY <2>1 DEF ToSet
  <2>4. {work, staged, head, remote} \subseteq TreeOfFiles
    BY DEF FilesInv, FilesTypes
  <2>5. saving \in [Fact -> ToSet(SaveSteps) \cup {"new", "saved", "failed"}]
    BY SaveStepSet DEF FilesInv, FilesTypes
  <2> QED
    BY <2>2, <2>3, <2>4, <2>5 DEF FilesInv, FilesTypes, FilesTypeOK
<1> QED
  BY <1>1, FilesAreConsistent, PTL

\* A fact whose SaveFact returned without an error is in the remote, or a later
\* one of the same name is, and the lists it was appended to name it unless another
\* save made them anew, whatever the saves of the other platforms, kb-gen-run.sh,
\* failed commands and crashes did in between.
THEOREM SavedFactsReachTheRemote == FilesSpec => []SavedFactsArrive
<1>1. ASSUME FilesInv PROVE SavedFactsArrive
  <2> SUFFICES ASSUME NEW f \in Fact, saving[f] = "saved"
               PROVE  /\ \E g \in remote[TopicOf[f]] : WrittenAt(g) >= WrittenAt(f)
                      /\ \A l \in Listing \ unlisted[f] : f \in remote[l] \/ f \in erased[l]
    BY DEF SavedFactsArrive
  <2>1. Covers(writes, remote, f) /\ \A l \in Listing : Named(remote, f, l)
    BY <1>1 DEF FilesInv, SaveInv
  <2>2. PICK g \in remote[TopicOf[f]] : WrittenBefore(writes, f, g)
    BY <2>1 DEF Covers
  <2>3. PICK i \in 1 .. Len(writes), j \in 1 .. Len(writes) : i <= j /\ writes[i] = f /\ writes[j] = g
    BY <2>2 DEF WrittenBefore
  <2>4. \A k, m \in 1 .. Len(writes) : writes[k] = writes[m] => k = m
    BY <1>1 DEF FilesInv
  <2>5. ASSUME NEW h, NEW k \in 1 .. Len(writes), writes[k] = h
        PROVE  WrittenAt(h) = k
    <3>1. WrittenAt(h) \in 1 .. Len(writes) /\ writes[WrittenAt(h)] = h
      BY <2>5 DEF WrittenAt
    <3> QED
      BY <2>4, <2>5, <3>1
  <2>6. WrittenAt(f) = i /\ WrittenAt(g) = j
    BY <2>3, <2>5
  <2>7. WrittenAt(g) >= WrittenAt(f)
    BY <2>3, <2>6
  <2> QED
    BY <2>1, <2>2, <2>7 DEF Named
<1> QED
  BY <1>1, FilesAreConsistent, PTL

-----------------------------------------------------------------------------
(*****************************************************************************)
(* The components beside each other.                                         *)
(*****************************************************************************)

\* A step of the composition is, for each component, a step of it or none.
LEMMA StepOfEach ==
  [Next]_<<part, jobsVars, clientVars, botVars, chatVars, workVars, discordVars, driveVars,
           notionVars, fileVars>> =>
         /\ [JobsNext]_jobsVars
         /\ [ClientNext]_clientVars
         /\ [BotNext]_botVars
         /\ [ChatNext]_chatVars
         /\ [WorkNext]_workVars
         /\ [DiscordNext]_discordVars
         /\ [DriveNext]_driveVars
         /\ [NotionNext]_notionVars
         /\ [FilesNext]_fileVars
<1> SUFFICES ASSUME [Next]_<<part, jobsVars, clientVars, botVars, chatVars, workVars, discordVars,
                             driveVars, notionVars, fileVars>>
             PROVE  /\ [JobsNext]_jobsVars /\ [ClientNext]_clientVars /\ [BotNext]_botVars
                    /\ [ChatNext]_chatVars /\ [WorkNext]_workVars /\ [DiscordNext]_discordVars
                    /\ [DriveNext]_driveVars /\ [NotionNext]_notionVars /\ [FilesNext]_fileVars
  OBVIOUS
<1>1. CASE Only("jobs") /\ JobsNext
  BY <1>1 DEF Only
<1>2. CASE Only("client") /\ ClientNext
  BY <1>2 DEF Only
<1>3. CASE Only("bot") /\ BotNext
  BY <1>3 DEF Only
<1>4. CASE Only("chat") /\ ChatNext
  BY <1>4 DEF Only
<1>5. CASE Only("work") /\ WorkNext
  BY <1>5 DEF Only
<1>6. CASE Only("discord") /\ DiscordNext
  BY <1>6 DEF Only
<1>7. CASE Only("drive") /\ DriveNext
  BY <1>7 DEF Only
<1>8. CASE Only("notion") /\ NotionNext
  BY <1>8 DEF Only
<1>9. CASE Only("files") /\ FilesNext
  BY <1>9 DEF Only
<1>10. CASE UNCHANGED <<part, jobsVars, clientVars, botVars, chatVars, workVars, discordVars, driveVars,
                        notionVars, fileVars>>
  BY <1>10
<1> QED
  BY <1>1, <1>2, <1>3, <1>4, <1>5, <1>6, <1>7, <1>8, <1>9, <1>10 DEF Next

\* A behaviour of the composition is a behaviour of every component, so what is
\* proved of a component alone holds of it there.
THEOREM EachRunsAsItself ==
  Spec => /\ JobsSpec
          /\ ClientSpec
          /\ BotSpec
          /\ ChatSpec
          /\ WorkSpec
          /\ DiscordSpec
          /\ DriveSpec
          /\ NotionSpec
          /\ FilesSpec
<1>1. Init => JobsInit /\ ClientInit /\ BotInit /\ ChatInit /\ WorkInit
               /\ DiscordInit /\ DriveInit /\ NotionInit /\ FilesInit
  BY DEF Init
<1> QED
  BY <1>1, StepOfEach, PTL DEF Spec, JobsSpec, ClientSpec, BotSpec, ChatSpec, WorkSpec, DiscordSpec,
     DriveSpec, NotionSpec, FilesSpec

\* The state of every component keeps its types beside the others.
THEOREM ServicesTypeCorrect == Spec => []ServicesTypeOK
<1>1. JobsTypeOK /\ ClientTypeOK /\ BotTypeOK /\ ChatTypeOK /\ WorkTypeOK
      /\ DiscordTypeOK /\ DriveTypeOK /\ NotionTypeOK /\ FilesTypeOK
      => ServicesTypeOK
  BY DEF ServicesTypeOK
<1> QED
  BY <1>1, EachRunsAsItself, JobsTypeCorrect, ClientTypeCorrect, BotTypeCorrect, ChatTypeCorrect,
     WorkTypeCorrect, DiscordTypeCorrect, DriveTypeCorrect, NotionTypeCorrect, FilesTypeCorrect, PTL

=============================================================================
