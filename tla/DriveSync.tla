----------------------------- MODULE DriveSync -----------------------------
(***************************************************************************)
(* How files of Google Drive reach the knowledge base (internal/google).   *)
(* The first sync lists every file and then asks for the token from which   *)
(* the next ones read the list of changes.  A file is fetched when its turn  *)
(* comes and held after that; the scheduler's sync and one the API starts  *)
(* run beside each other.  Versions of a file and positions in Drive's       *)
(* change list are numbers, and a token is the position it stands after.     *)
(* A file of a type that nothing reads is one whose contents never arrive.   *)
(* Removals, which a sync skips, and the calendars, which are read whole      *)
(* each time, are left out, and so are the pages of the first listing: a     *)
(* file that changes between two of them is one that changes before the      *)
(* token is taken.                                                           *)
(***************************************************************************)
EXTENDS Naturals, FiniteSets, Sequences

CONSTANTS
    DriveFile,
    DriveRun,      \* the syncs that may run at once
    ChangePage,    \* changes in a page (100)
    MaxChanges,    \* how often a file is made or changed
    MaxDriveFaults \* how often a request or an indexing fails

ASSUME DriveAssumption ==
    /\ ChangePage \in Nat \ {0}
    /\ MaxChanges \in Nat /\ MaxDriveFaults \in Nat

VARIABLES
    changes,    \* Drive's change list: the files, in order
    held,       \* file -> how many of its changes the document's text includes
    token,      \* sync_state.cursor
    haveToken,  \* the cursor is not empty
    run,        \* sync -> what it does
    driveFaults,
    unseen      \* ghost: files one of the known causes leaves out of date

driveVars == <<changes, held, token, haveToken, run, driveFaults, unseen>>

Changed(f) == {i \in DOMAIN changes : changes[i] = f}
Version(f) == Cardinality(Changed(f))

Resting == [at |-> "rest", from |-> 0, have |-> FALSE, todo |-> {}, file |-> {}, got |-> 0, more |-> FALSE]

DriveTypeOK ==
    /\ changes \in Seq(DriveFile)
    /\ held \in [DriveFile -> 0..MaxChanges]
    /\ token \in 0..MaxChanges
    /\ haveToken \in BOOLEAN
    /\ \A s \in DriveRun : run[s].at \in {"rest", "changes", "files", "token", "state"}
    /\ \A s \in DriveRun : run[s].todo \cup run[s].file \subseteq DriveFile
    /\ driveFaults \in 0..MaxDriveFaults
    /\ unseen \subseteq DriveFile

DriveInit ==
    /\ changes = <<>>
    /\ held = [f \in DriveFile |-> 0]
    /\ token = 0 /\ haveToken = FALSE
    /\ run = [s \in DriveRun |-> Resting]
    /\ driveFaults = 0
    /\ unseen = {}

DriveFault == driveFaults < MaxDriveFaults /\ driveFaults' = driveFaults + 1

(* Somebody makes a file or changes it. *)
FileChanges(f) ==
    /\ Len(changes) < MaxChanges
    /\ changes' = Append(changes, f)
    /\ UNCHANGED <<held, token, haveToken, run, driveFaults, unseen>>

(* The state is read; without a token every file is listed. *)
SyncDrive(s) ==
    /\ run[s].at = "rest"
    /\ run' = [run EXCEPT ![s] =
          IF haveToken
          THEN [Resting EXCEPT !.at = "changes", !.from = token, !.have = TRUE]
          ELSE [Resting EXCEPT !.at = "files", !.todo = {f \in DriveFile : Version(f) > 0}]]
    /\ UNCHANGED <<changes, held, token, haveToken, driveFaults, unseen>>

(* Changes.List: a page of the files changed after a token, and the next token. *)
Upto(from) == IF Len(changes) - from > ChangePage THEN from + ChangePage ELSE Len(changes)

NextFrom(from) == Upto(from)
NewestFrom(from) == Len(changes)
AfterChanges(from) == NextFrom(from)

ListChanges(s) ==
    /\ run[s].at = "changes"
    /\ LET from == run[s].from IN
       run' = [run EXCEPT ![s].at = "files",
                          ![s].todo = {changes[i] : i \in (from + 1)..Upto(from)},
                          ![s].from = AfterChanges(from),
                          ![s].more = Upto(from) < Len(changes)]
    /\ UNCHANGED <<changes, held, token, haveToken, driveFaults, unseen>>

(* A failed list ends the sync, and the token stays where it was. *)
ListFails(s) ==
    /\ run[s].at = "changes" \/ (run[s].at = "files" /\ ~run[s].have)
    /\ DriveFault
    /\ run' = [run EXCEPT ![s] = Resting]
    /\ UNCHANGED <<changes, held, token, haveToken, unseen>>

(* fileToDocument fetches what the file holds now, *)
FetchFile(s, f) ==
    /\ run[s].at = "files" /\ run[s].file = {} /\ f \in run[s].todo
    /\ run' = [run EXCEPT ![s].todo = @ \ {f}, ![s].file = {f}, ![s].got = Version(f)]
    /\ UNCHANGED <<changes, held, token, haveToken, driveFaults, unseen>>

(* or, when the export, the download or the extraction fails, takes the file's
   description instead of its contents, and nobody is told. *)
ContentsFail(s, f) ==
    /\ run[s].at = "files" /\ run[s].file = {} /\ f \in run[s].todo
    /\ DriveFault
    /\ run' = [run EXCEPT ![s].todo = @ \ {f}, ![s].file = {f}, ![s].got = 0]
    /\ unseen' = unseen \cup {f}
    /\ UNCHANGED <<changes, held, token, haveToken>>

StoreFile(s, f) ==
    /\ run[s].at = "files" /\ f \in run[s].file
    /\ run' = [run EXCEPT ![s].file = {}, ![s].got = 0]
    /\ held' = [held EXCEPT ![f] = run[s].got]
    /\ unseen' = IF run[s].got < held[f] THEN unseen \cup {f}
                 ELSE IF run[s].got = Version(f) THEN unseen \ {f} ELSE unseen
    /\ UNCHANGED <<changes, token, haveToken, driveFaults>>

(* A file that cannot be indexed is left out until it changes again. *)
StoreFails(s, f) ==
    /\ run[s].at = "files" /\ f \in run[s].file
    /\ DriveFault
    /\ run' = [run EXCEPT ![s].file = {}, ![s].got = 0]
    /\ unseen' = unseen \cup {f}
    /\ UNCHANGED <<changes, held, token, haveToken>>

FilesDone(s) ==
    /\ run[s].at = "files" /\ run[s].todo = {} /\ run[s].file = {}
    /\ run' = [run EXCEPT ![s].at = IF ~run[s].have THEN "token"
                                    ELSE IF run[s].more THEN "changes" ELSE "state"]
    /\ UNCHANGED <<changes, held, token, haveToken, driveFaults, unseen>>

(* What changed since it was fetched is behind the token. *)
GetStartPageToken(s) ==
    /\ run[s].at = "token"
    /\ \/ /\ run' = [run EXCEPT ![s].at = "state", ![s].from = Len(changes), ![s].have = TRUE]
          /\ unseen' = unseen \cup {f \in DriveFile : held[f] < Version(f)}
          /\ UNCHANGED driveFaults
       \/ /\ DriveFault
          /\ run' = [run EXCEPT ![s].at = "state"]
          /\ UNCHANGED unseen
    /\ UNCHANGED <<changes, held, token, haveToken>>

SetDriveState(s) ==
    /\ run[s].at = "state"
    /\ \/ /\ token' = run[s].from
          /\ haveToken' = run[s].have
          /\ UNCHANGED driveFaults
       \/ DriveFault /\ UNCHANGED <<token, haveToken>>
    /\ run' = [run EXCEPT ![s] = Resting]
    /\ UNCHANGED <<changes, held, unseen>>

DriveNext ==
    \/ \E f \in DriveFile : FileChanges(f)
    \/ \E s \in DriveRun :
          \/ SyncDrive(s) \/ ListChanges(s) \/ ListFails(s) \/ FilesDone(s)
          \/ GetStartPageToken(s) \/ SetDriveState(s)
          \/ \E f \in DriveFile :
                FetchFile(s, f) \/ ContentsFail(s, f) \/ StoreFile(s, f) \/ StoreFails(s, f)

DriveSpec == DriveInit /\ [][DriveNext]_driveVars

-----------------------------------------------------------------------------
(* Every change behind the stored token is in the knowledge base, also while
   syncs run, or one of the known causes left its file out of date: its contents
   could not be fetched, so that the document holds its description alone; it
   could not be indexed; it changed between the first listing and the token taken
   after it; or of two syncs at once the one that had fetched it earlier stored
   it last.  In particular a sync that fails half-way through the pages of
   changes, and one that stores an older token over a newer, lose nothing. *)
NothingBehindTheToken ==
    haveToken =>
       \A f \in DriveFile \ unseen :
          \A i \in Changed(f) : i <= token => held[f] >= Cardinality({j \in Changed(f) : j <= i})
=============================================================================
