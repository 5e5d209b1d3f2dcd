--------------------------- MODULE KnowledgeFiles ---------------------------
(* The checkout of the knowledge repository (internal/kbrepo/reader.go).     *)
(* SaveFact writes a fact to a file named after the day and the topic,       *)
(* appends it to two lists, and adds, commits and pushes the three files     *)
(* with one git command each; Pull rebases the checkout before a question is *)
(* answered. A Reader's mutex keeps its own saves and pulls apart, but each  *)
(* platform has a Reader of its own, and kb-gen-run.sh commits and pushes    *)
(* whatever it finds in the same checkout.                                   *)
(*                                                                           *)
(* A tree gives for every file what is in it: the fact written last for a    *)
(* topic, the header and all that was appended for a list; a file with       *)
(* nothing in it does not exist. The first save makes a list that it does    *)
(* not find, in three steps that no lock the Readers share keeps together.   *)
(* That the checks of `args[1]` in SaveFact never hold (it is "-C") is kept: *)
(* nothing is reset.                                                         *)
EXTENDS Naturals, SequencesExt

CONSTANTS
  Fact,
  Topic,         \* file names: the day and the slug of a topic
  TopicOf,       \* [Fact -> Topic]
  Reader,        \* one per platform
  ReaderOf,      \* [Fact -> Reader]
  MaxElsewhere,  \* bound: pushes from other clones and runs of kb-gen-run.sh
  MaxGitFaults   \* bound: commands and writes that fail, crashes

Listing == {"user-provided/README.md", "indexes/user-provided.md"}
NoSave == "nobody"
Header == "header"

ASSUME FilesAssumption ==
  /\ Topic \cap Listing = {} /\ NoSave \notin Fact /\ Header \notin Fact
  /\ TopicOf \in [Fact -> Topic] /\ ReaderOf \in [Fact -> Reader]
  /\ MaxElsewhere \in Nat /\ MaxGitFaults \in Nat

VARIABLES
  work, staged, head,  \* the trees of the checkout: files, index, last commit
  remote,              \* and of the remote's main
  behind,              \* the remote has commits the checkout has not
  saving,              \* [Fact -> the next step of its SaveFact, or its result]
  listing,             \* [Fact -> what its save does next with a list]
  holder,              \* [Reader -> the fact whose save holds r.mu, if any]
  script,              \* the next step of kb-gen-run.sh
  writes,              \* the facts in the order in which they were written
  unlisted,            \* [Fact -> the lists it could not be appended to]
  erased,              \* [list -> the facts lost from it as it was made anew]
  elsewhere, gitFaults

fileVars == <<work, staged, head, remote, behind, saving, listing, holder, script,
              writes, unlisted, erased, elsewhere, gitFaults>>

RepoFile == Topic \cup Listing
TreeOfFiles == [RepoFile -> SUBSET (Fact \cup {Header})]

SaveSteps == <<"write", "readme", "index", "add_fact", "add_readme", "add_index", "commit", "push">>

FilesTypeOK ==
  /\ {work, staged, head, remote} \subseteq TreeOfFiles
  /\ behind \in BOOLEAN
  /\ saving \in [Fact -> ToSet(SaveSteps) \cup {"new", "saved", "failed"}]
  /\ listing \in [Fact -> {"look", "make", "append"}]
  /\ holder \in [Reader -> Fact \cup {NoSave}]
  /\ script \in {"idle", "commit", "push"}
  /\ IsInjective(writes) /\ ToSet(writes) \subseteq Fact
  /\ unlisted \in [Fact -> SUBSET Listing] /\ erased \in [Listing -> SUBSET Fact]
  /\ elsewhere \in 0 .. MaxElsewhere /\ gitFaults \in 0 .. MaxGitFaults

\* The lists that were made before, and no facts.
OnlyLists(made) == [p \in RepoFile |-> IF p \in made THEN {Header} ELSE {}]

FilesInit ==
  /\ \E made \in SUBSET Listing : work = OnlyLists(made)
  /\ staged = work /\ head = work /\ remote = work
  /\ behind = FALSE
  /\ saving = [f \in Fact |-> "new"]
  /\ listing = [f \in Fact |-> "look"]
  /\ holder = [r \in Reader |-> NoSave]
  /\ script = "idle"
  /\ writes = <<>>
  /\ unlisted = [f \in Fact |-> {}]
  /\ erased = [l \in Listing |-> {}]
  /\ elsewhere = 0 /\ gitFaults = 0

GitFault == gitFaults < MaxGitFaults /\ gitFaults' = gitFaults + 1
Somewhere == elsewhere < MaxElsewhere /\ elsewhere' = elsewhere + 1

-----------------------------------------------------------------------------
(* SaveFact *)

\* As a bug would have it: a list is written and not added.
ForgetsReadme(s) ==
  IF s = "add_fact" THEN "add_index"
  ELSE SaveSteps[CHOOSE i \in 2 .. Len(SaveSteps) : SaveSteps[i - 1] = s]

StepAfter(s) == SaveSteps[CHOOSE i \in 2 .. Len(SaveSteps) : SaveSteps[i - 1] = s]

SaveGoesOn(f) ==
  /\ saving' = [saving EXCEPT ![f] = StepAfter(@)]
  /\ UNCHANGED holder

SaveReturns(f, result) ==
  /\ saving' = [saving EXCEPT ![f] = result]
  /\ holder' = [holder EXCEPT ![ReaderOf[f]] = NoSave]

SaveFact(f) ==
  /\ saving[f] = "new"
  /\ holder[ReaderOf[f]] = NoSave
  /\ saving' = [saving EXCEPT ![f] = "write"]
  /\ holder' = [holder EXCEPT ![ReaderOf[f]] = f]
  /\ UNCHANGED <<work, staged, head, remote, behind, listing, script, writes, unlisted, erased,
                 elsewhere, gitFaults>>

\* A fact told the same day under a name with the same slug is overwritten.
WriteFact(f) ==
  /\ saving[f] = "write"
  /\ work' = [work EXCEPT ![TopicOf[f]] = {f}]
  /\ writes' = Append(writes, f)
  /\ SaveGoesOn(f)
  /\ UNCHANGED <<staged, head, remote, behind, listing, script, unlisted, erased, elsewhere,
                 gitFaults>>

ListOf == [readme |-> "user-provided/README.md", index |-> "indexes/user-provided.md"]

\* os.Stat: a list that is not there is to be made.
LookForList(f) ==
  /\ saving[f] \in {"readme", "index"} /\ listing[f] = "look"
  /\ listing' = [listing EXCEPT ![f] = IF work[ListOf[saving[f]]] = {} THEN "make" ELSE "append"]
  /\ UNCHANGED <<work, staged, head, remote, behind, saving, holder, script, writes, unlisted, erased,
                 elsewhere, gitFaults>>

\* A list that cannot be made, opened or appended to is only worth a warning.
GivesUpList(f, l) ==
  /\ GitFault
  /\ unlisted' = [unlisted EXCEPT ![f] = @ \cup {l}]

ListDone(f) ==
  /\ listing' = [listing EXCEPT ![f] = "look"]
  /\ SaveGoesOn(f)

\* os.WriteFile truncates what another save has made and filled meanwhile. That
\* the header follows in a second call makes no difference to the facts.
MadeAnew(l) ==
  /\ work' = [work EXCEPT ![l] = {Header}]
  /\ erased' = [erased EXCEPT ![l] = @ \cup (work[l] \ {Header})]

MakeList(f) ==
  /\ saving[f] \in {"readme", "index"} /\ listing[f] = "make"
  /\ LET l == ListOf[saving[f]] IN
       \/ /\ MadeAnew(l)
          /\ listing' = [listing EXCEPT ![f] = "append"]
          /\ UNCHANGED <<saving, holder, unlisted, gitFaults>>
       \/ /\ GivesUpList(f, l) /\ ListDone(f)
          /\ MadeAnew(l) \/ UNCHANGED <<work, erased>>
  /\ UNCHANGED <<staged, head, remote, behind, script, writes, elsewhere>>

AppendToList(f) ==
  /\ saving[f] \in {"readme", "index"} /\ listing[f] = "append"
  /\ LET l == ListOf[saving[f]] IN
       \/ /\ work' = [work EXCEPT ![l] = @ \cup {f}]
          /\ UNCHANGED <<unlisted, gitFaults>>
       \/ GivesUpList(f, l) /\ UNCHANGED work
  /\ ListDone(f)
  /\ UNCHANGED <<staged, head, remote, behind, script, writes, erased, elsewhere>>

PartOf(f) ==
  [add_fact |-> TopicOf[f], add_readme |-> ListOf.readme, add_index |-> ListOf.index]

GitAdd(f) ==
  /\ saving[f] \in {"add_fact", "add_readme", "add_index"}
  /\ LET p == PartOf(f)[saving[f]] IN staged' = [staged EXCEPT ![p] = work[p]]
  /\ SaveGoesOn(f)
  /\ UNCHANGED <<work, head, remote, behind, listing, script, writes, unlisted, erased, elsewhere,
                 gitFaults>>

\* git add refuses a list that is not there because it could not be made.
ListMissing(f) ==
  /\ saving[f] \in {"add_readme", "add_index"}
  /\ work[PartOf(f)[saving[f]]] = {}
  /\ SaveReturns(f, "failed")
  /\ UNCHANGED <<work, staged, head, remote, behind, listing, script, writes, unlisted, erased,
                 elsewhere, gitFaults>>

\* git commit takes all that is staged, and fails where nothing is.
GitCommit(f) ==
  /\ saving[f] = "commit"
  /\ head' = staged
  /\ IF staged = head THEN SaveReturns(f, "failed") ELSE SaveGoesOn(f)
  /\ UNCHANGED <<work, staged, remote, behind, listing, script, writes, unlisted, erased,
                 elsewhere, gitFaults>>

\* git push sends every commit the remote lacks. It is refused when the remote
\* has others; the commit stays, and the next push that succeeds sends it.
GitPush(f) ==
  /\ saving[f] = "push"
  /\ remote' = IF behind THEN remote ELSE head
  /\ SaveReturns(f, IF behind THEN "failed" ELSE "saved")
  /\ UNCHANGED <<work, staged, head, behind, listing, script, writes, unlisted, erased, elsewhere,
                 gitFaults>>

\* A write or a git command fails, which one does too that finds the index of
\* the checkout locked by another: SaveFact returns. What was done stays.
SaveFails(f) ==
  /\ saving[f] \in ToSet(SaveSteps) \ {"readme", "index"}
  /\ GitFault
  /\ SaveReturns(f, "failed")
  /\ UNCHANGED <<work, staged, head, remote, behind, listing, script, writes, unlisted, erased,
                 elsewhere>>

-----------------------------------------------------------------------------
(* The others *)

TrackedFile(p) == staged[p] # {} \/ head[p] # {}
CleanCheckout == staged = head /\ \A p \in RepoFile : TrackedFile(p) => work[p] = head[p]

\* git pull --rebase refuses a checkout with changes and puts the commits it
\* has on top of the others', which change other files.
Pull(r) ==
  /\ holder[r] = NoSave
  /\ behind /\ CleanCheckout
  /\ behind' = FALSE
  /\ UNCHANGED <<work, staged, head, remote, saving, listing, holder, script, writes, unlisted,
                 erased, elsewhere, gitFaults>>

PushedElsewhere ==
  /\ Somewhere
  /\ behind' = TRUE
  /\ UNCHANGED <<work, staged, head, remote, saving, listing, holder, script, writes, unlisted,
                 erased, gitFaults>>

\* kb-gen-run.sh: git add -A; git commit; git push, whatever becomes of each.
ScriptAdds ==
  /\ script = "idle"
  /\ Somewhere
  /\ staged' = work
  /\ script' = "commit"
  /\ UNCHANGED <<work, head, remote, behind, saving, listing, holder, writes, unlisted, erased,
                 gitFaults>>

ScriptCommits ==
  /\ script = "commit"
  /\ head' = staged
  /\ script' = "push"
  /\ UNCHANGED <<work, staged, remote, behind, saving, listing, holder, writes, unlisted, erased,
                 elsewhere, gitFaults>>

ScriptPushes ==
  /\ script = "push"
  /\ remote' = IF behind THEN remote ELSE head
  /\ script' = "idle"
  /\ UNCHANGED <<work, staged, head, behind, saving, listing, holder, writes, unlisted, erased,
                 elsewhere, gitFaults>>

\* The program ends in the middle of its saves; the files stay as they are.
SavesLost ==
  /\ GitFault
  /\ saving' = [f \in Fact |-> IF saving[f] \in ToSet(SaveSteps) THEN "failed" ELSE saving[f]]
  /\ listing' = [f \in Fact |-> "look"]
  /\ holder' = [r \in Reader |-> NoSave]
  /\ UNCHANGED <<work, staged, head, remote, behind, script, writes, unlisted, erased, elsewhere>>

FilesNext ==
  \/ \E f \in Fact : \/ SaveFact(f) \/ WriteFact(f)
                     \/ LookForList(f) \/ MakeList(f) \/ AppendToList(f)
                     \/ GitAdd(f) \/ ListMissing(f) \/ GitCommit(f) \/ GitPush(f) \/ SaveFails(f)
  \/ \E r \in Reader : Pull(r)
  \/ PushedElsewhere \/ ScriptAdds \/ ScriptCommits \/ ScriptPushes \/ SavesLost

FilesSpec == FilesInit /\ [][FilesNext]_fileVars

-----------------------------------------------------------------------------
(* Properties *)

WrittenAt(f) == CHOOSE i \in 1 .. Len(writes) : writes[i] = f

\* A fact whose SaveFact returned without an error is in the remote: its file
\* holds it, or a fact written later under the same name, and the lists it was
\* appended to name it, unless another save made the list anew. This holds
\* although the saves of two platforms and a run of kb-gen-run.sh stage, commit
\* and push in each other's midst, after failed commands and crashes, and with
\* commits that wait for a later push.
SavedFactsArrive ==
  \A f \in Fact : saving[f] = "saved" =>
    /\ \E g \in remote[TopicOf[f]] : WrittenAt(g) >= WrittenAt(f)
    /\ \A l \in Listing \ unlisted[f] : f \in remote[l] \/ f \in erased[l]
=============================================================================
