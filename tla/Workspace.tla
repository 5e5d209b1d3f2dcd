----------------------------- MODULE Workspace -----------------------------
(***************************************************************************)
(* The tools that change the company's Google Workspace and Notion         *)
(* (internal/tools/google_writer.go and notion_writer.go), called by       *)
(* several conversations at once.  A tool is one call of a service, or a    *)
(* read followed by a write built from what was read, or a write followed   *)
(* by calls that only finish the work.  No tool locks anything and no write *)
(* names the version it was built from, so whatever another conversation    *)
(* does between the two calls is not seen.  A service performs a call, or    *)
(* refuses it, or performs it and the answer does not arrive; the language   *)
(* model gets the error of a failed tool and may ask for the same again.     *)
(* upload_to_drive without a file's name uploads every attached file, one    *)
(* call each, and answers with what became of each of them.                  *)
(***************************************************************************)
EXTENDS Naturals, FiniteSets, SequencesExt

CONSTANTS
    Request,      \* what conversations ask for, one tool each
    MayAsk,       \* [Request -> SUBSET WorkKind]: the tools each may be
    Attached,     \* the files attached to a message
    MaxTries,     \* how often the model asks for the same again
    MaxWorkFaults \* how often a service fails or its answer is lost

None == "none"

ASSUME WorkAssumption ==
    /\ None \notin Request
    /\ MaxTries \in Nat \ {0} /\ MaxWorkFaults \in Nat

VARIABLES
    asked,       \* request -> the tool, "none" before
    stage,        \* request -> how far the tool is
    saw,         \* request -> what its first call returned
    tries,       \* request -> how often the tool was called
    slides,      \* the slides of a presentation, in order
    doc,         \* the texts of a document, in order
    entry,       \* an event and a task, each with its fields
    folder,      \* the folders a file is in
    workFaults,
    performed,   \* ghost: request -> changes made for it
    unanswered,  \* ghost: request -> changes whose answer was lost
    intended,    \* ghost: the entries, had every edit changed only its fields
    overlapped,  \* ghost: the entries somebody wrote on an outdated copy
    ahead,       \* ghost: request -> the texts it read, if still the whole document
    toUpload,    \* request -> the attached files it has still to upload
    reported,    \* request -> the files its answer so far reports as uploaded
    uploads,     \* ghost: request -> file -> how often it was uploaded
    lostUploads, \* ghost: request -> file -> uploads reported as an error
    spoiled      \* ghost: request -> file -> uploads reported beside an error

uploadVars == <<toUpload, reported, uploads, lostUploads, spoiled>>
shared == <<slides, doc, entry, folder, intended, overlapped>>
workVars == <<asked, stage, saw, tries, slides, doc, entry, folder, workFaults,
              performed, unanswered, intended, overlapped, ahead, uploadVars>>

Entry == {"event", "task"}
Field == {"title", "when", "guests"}

(* One call, no answer but the new object's link; upload_to_drive with the
   name of one attached file. *)
FilesMade == {"create_google_doc", "create_drive_folder", "upload_to_drive"}
FilesChanged == {"delete_drive_file", "rename_drive_file"}
SheetsWritten == {"edit_google_sheet", "append_google_sheet"}
FilesCopied == {"copy_drive_file"}
AccessGiven == {"clear_google_sheet", "share_drive_file"}
TabsAdded == {"add_sheet_tab"}
EventsMade == {"create_calendar_event"}
EventsDeleted == {"delete_calendar_event"}
TasksMade == {"create_task"}
TasksDeleted == {"delete_task"}
PagesMade == {"create_notion_page"}
MailSent == {"send_email"}
OneCall == FilesMade \cup FilesChanged \cup SheetsWritten \cup FilesCopied
           \cup AccessGiven \cup TabsAdded \cup EventsMade \cup EventsDeleted
           \cup TasksMade \cup TasksDeleted \cup PagesMade \cup MailSent

(* One call that changes nothing. *)
DriveRead == {"search_drive", "get_drive_file_info", "read_google_doc",
              "read_google_sheet"}
SlidesRead == {"read_google_slides"}
FoldersRead == {"list_drive_folder", "get_sheet_metadata"}
CalendarRead == {"list_calendar_events", "list_calendars"}
TasksRead == {"list_tasks", "list_task_lists"}
ReadOnly == DriveRead \cup SlidesRead \cup FoldersRead \cup CalendarRead \cup TasksRead

(* A change, then calls whose failure is only logged. *)
MadeThenFilled == {"create_google_sheet", "create_google_slides", "update_notion_page"}

(* Arguments the tool itself refuses before any call. *)
CheckedFirst == SheetsWritten \cup MailSent \cup PagesMade
                \cup {"update_notion_page", "upload_to_drive", "upload_all_to_drive"}

WorkKind == OneCall \cup ReadOnly \cup MadeThenFilled
            \cup {"append_to_google_doc", "edit_google_doc", "add_slide", "delete_slide",
                  "move_drive_file", "export_as_pdf", "edit_calendar_event",
                  "add_event_attendees", "edit_task", "upload_all_to_drive"}

Text(r) == <<r, tries[r]>>
Blank == [title |-> None, when |-> None, guests |-> {}]

ASSUME AskAssumption == MayAsk \in [Request -> SUBSET WorkKind]

WorkTypeOK ==
    /\ asked \in [Request -> WorkKind \cup {None}]
    /\ stage \in [Request -> {"idle", "asked", "read", "filling", "uploading", "ok", "failed"}]
    /\ tries \in [Request -> 0..MaxTries]
    /\ entry \in [Entry -> [title : Request \cup {None}, when : Request \cup {None},
                            guests : SUBSET Request]]
    /\ intended \in [Entry -> [title : Request \cup {None}, when : Request \cup {None},
                               guests : SUBSET Request]]
    /\ overlapped \subseteq Entry
    /\ workFaults \in 0..MaxWorkFaults
    /\ \A r \in Request : unanswered[r] <= performed[r]
    /\ toUpload \in [Request -> SUBSET Attached]
    /\ reported \in [Request -> SUBSET Attached]

WorkInit ==
    /\ asked = [r \in Request |-> None]
    /\ stage = [r \in Request |-> "idle"]
    /\ saw = [r \in Request |-> None]
    /\ tries = [r \in Request |-> 0]
    /\ slides = <<<<None, 1>>, <<None, 2>>>>
    /\ doc = <<<<None, 1>>>>
    /\ entry = [e \in Entry |-> Blank]
    /\ folder = {None}
    /\ workFaults = 0
    /\ performed = [r \in Request |-> 0]
    /\ unanswered = [r \in Request |-> 0]
    /\ intended = entry
    /\ overlapped = {}
    /\ ahead = [r \in Request |-> {}]
    /\ toUpload = [r \in Request |-> {}]
    /\ reported = [r \in Request |-> {}]
    /\ uploads = [r \in Request |-> [f \in Attached |-> 0]]
    /\ lostUploads = uploads
    /\ spoiled = uploads

(* The model asks for a tool; after an error it may ask for the same again. *)
AskTool(r) ==
    /\ \/ stage[r] = "idle" /\ \E k \in MayAsk[r] : asked' = [asked EXCEPT ![r] = k]
       \/ stage[r] = "failed" /\ tries[r] < MaxTries /\ asked' = asked
    /\ stage' = [stage EXCEPT ![r] = "asked"]
    /\ tries' = [tries EXCEPT ![r] = @ + 1]
    /\ saw' = [saw EXCEPT ![r] = None]
    /\ UNCHANGED <<shared, workFaults, performed, unanswered, ahead>>

Asks(r, kinds) == stage[r] = "asked" /\ asked[r] \in kinds

Ends(r, how) == stage' = [stage EXCEPT ![r] = how]

(* What becomes of a writing call: done, refused, or done and not answered. *)
Outcome(r, out, next) ==
    /\ Ends(r, IF out = "done" THEN next ELSE "failed")
    /\ performed' = [performed EXCEPT ![r] = IF out = "refused" THEN @ ELSE @ + 1]
    /\ unanswered' = [unanswered EXCEPT ![r] = IF out = "lost" THEN @ + 1 ELSE @]
    /\ out = "done" \/ workFaults < MaxWorkFaults
    /\ workFaults' = IF out = "done" THEN workFaults ELSE workFaults + 1
    /\ UNCHANGED <<asked, tries, saw>>

Outcomes == {"done", "refused", "lost"}
Performs == {"done", "lost"}

(* Bad data, a recipient outside the domain, a bad page id, no attached file or
   none of that name: an error first. *)
RefuseArguments(r) ==
    /\ Asks(r, CheckedFirst)
    /\ Ends(r, "failed")
    /\ UNCHANGED <<asked, saw, tries, shared, workFaults, performed, unanswered, ahead>>

WriteOnce(r) ==
    /\ Asks(r, OneCall)
    /\ \E out \in Outcomes : Outcome(r, out, "ok")
    /\ UNCHANGED <<shared, ahead>>

Look(r) ==
    /\ Asks(r, ReadOnly)
    /\ \/ Ends(r, "ok") /\ UNCHANGED workFaults
       \/ Ends(r, "failed") /\ workFaults < MaxWorkFaults /\ workFaults' = workFaults + 1
    /\ UNCHANGED <<asked, saw, tries, shared, performed, unanswered, ahead>>

MakeThenFill(r) ==
    /\ Asks(r, MadeThenFilled)
    /\ \E out \in Outcomes : Outcome(r, out, "filling")
    /\ UNCHANGED <<shared, ahead>>

(* The first rows, the title of the first slide, the page's link: when these
   calls fail the tool still answers with the object it made. *)
FillFailureReported(r) ==
    /\ stage[r] = "filling"
    /\ \/ Ends(r, "ok") /\ UNCHANGED workFaults
       \/ Ends(r, "failed") /\ workFaults < MaxWorkFaults /\ workFaults' = workFaults + 1
    /\ UNCHANGED <<asked, saw, tries, shared, performed, unanswered, ahead>>

Fill(r) ==
    /\ stage[r] = "filling"
    /\ \/ UNCHANGED workFaults
       \/ workFaults < MaxWorkFaults /\ workFaults' = workFaults + 1
    /\ Ends(r, "ok")
    /\ UNCHANGED <<asked, saw, tries, shared, performed, unanswered, ahead>>

(* The read of a tool that reads before it writes. *)
ReadBefore(r, kinds, what) ==
    /\ Asks(r, kinds)
    /\ \/ Ends(r, "read") /\ saw' = [saw EXCEPT ![r] = what] /\ UNCHANGED workFaults
       \/ Ends(r, "failed") /\ workFaults < MaxWorkFaults /\ workFaults' = workFaults + 1
          /\ UNCHANGED saw
    /\ UNCHANGED <<asked, tries, shared, performed, unanswered>>

Reads(r) ==
    \/ /\ ReadBefore(r, {"append_to_google_doc"}, Len(doc))
       /\ ahead' = [ahead EXCEPT ![r] = ToSet(doc)]
    \/ /\ \/ slides # <<>> /\ ReadBefore(r, {"delete_slide"}, Last(slides))
          \/ ReadBefore(r, {"move_drive_file"}, folder)
          \/ ReadBefore(r, {"export_as_pdf"}, None)
          \/ ReadBefore(r, {"edit_calendar_event", "add_event_attendees"}, entry["event"])
          \/ ReadBefore(r, {"edit_task"}, entry["task"])
       /\ UNCHANGED ahead

Wrote(r, kind, out) ==
    /\ stage[r] = "read"
    /\ asked[r] = kind
    /\ Outcome(r, out, "ok")

(* The service itself refuses what no longer fits. *)
Outdated(r) ==
    /\ stage[r] = "read"
    /\ \/ asked[r] = "append_to_google_doc" /\ saw[r] > Len(doc)
       \/ asked[r] = "delete_slide" /\ saw[r] \notin ToSet(slides)
    /\ Ends(r, "failed")
    /\ UNCHANGED <<asked, saw, tries, shared, workFaults, performed, unanswered, ahead>>

(* Ghost: what the others read of the document no longer tells them its end. *)
ReadsOutdated(r) ==
    [q \in Request |-> IF q # r /\ stage[q] = "read" THEN {} ELSE ahead[q]]

InsertedAtTop(r) == InsertAt(doc, 1, Text(r))
Inserted(r) == InsertAt(doc, saw[r] + 1, Text(r))

AppendDoc(r) ==
    /\ stage[r] = "read" /\ asked[r] = "append_to_google_doc" /\ saw[r] <= Len(doc)
    /\ \E out \in Outcomes :
          /\ Wrote(r, "append_to_google_doc", out)
          /\ doc' = IF out \in Performs THEN Inserted(r) ELSE doc
          /\ ahead' = IF out \in Performs THEN ReadsOutdated(r) ELSE ahead
    /\ UNCHANGED <<slides, entry, folder, intended, overlapped>>

UpdateDocContent(r) ==
    /\ Asks(r, {"edit_google_doc"})
    /\ \E out \in Outcomes :
          /\ Outcome(r, out, "ok")
          /\ doc' = IF out \in Performs THEN <<Text(r)>> ELSE doc
          /\ ahead' = IF out \in Performs THEN ReadsOutdated(r) ELSE ahead
    /\ UNCHANGED <<slides, entry, folder, intended, overlapped>>

AddSlide(r) ==
    /\ Asks(r, {"add_slide"})
    /\ \E out \in Outcomes :
          /\ Outcome(r, out, "ok")
          /\ slides' = IF out \in Performs THEN Append(slides, Text(r)) ELSE slides
    /\ UNCHANGED <<doc, entry, folder, intended, overlapped, ahead>>

DeleteSlide(r) ==
    /\ stage[r] = "read" /\ asked[r] = "delete_slide" /\ saw[r] \in ToSet(slides)
    /\ \E out \in Outcomes :
          /\ Wrote(r, "delete_slide", out)
          /\ slides' = IF out \in Performs THEN Remove(slides, saw[r]) ELSE slides
    /\ UNCHANGED <<doc, entry, folder, intended, overlapped, ahead>>

NoSlideLeft(r) ==
    /\ Asks(r, {"delete_slide"}) /\ slides = <<>>
    /\ Ends(r, "failed")
    /\ UNCHANGED <<asked, saw, tries, shared, workFaults, performed, unanswered, ahead>>

MoveFile(r) ==
    /\ \E out \in Outcomes :
          /\ Wrote(r, "move_drive_file", out)
          /\ folder' = IF out \in Performs THEN (folder \ saw[r]) \cup {r} ELSE folder
    /\ UNCHANGED <<slides, doc, entry, intended, overlapped, ahead>>

ExportPDF(r) ==
    /\ \E out \in Outcomes : Wrote(r, "export_as_pdf", out)
    /\ UNCHANGED <<shared, ahead>>

(* The copy read, the given fields changed in it, and the whole sent back. *)
With(copy, fields, r) ==
    [f \in Field |-> IF f \notin fields THEN copy[f] ELSE IF f = "guests" THEN {r} ELSE r]

GivenFieldsOnly(copy, fields, r) == With(Blank, fields, r)
Sent(copy, fields, r) == With(copy, fields, r)

WriteEntry(r, kind, e, whole, meant) ==
    /\ \E out \in Outcomes :
          /\ Wrote(r, kind, out)
          /\ IF out \in Performs
             THEN /\ entry' = [entry EXCEPT ![e] = whole]
                  /\ intended' = [intended EXCEPT ![e] = meant]
                  /\ overlapped' = IF saw[r] = entry[e] THEN overlapped ELSE overlapped \cup {e}
             ELSE UNCHANGED <<entry, intended, overlapped>>
    /\ UNCHANGED <<slides, doc, folder, ahead>>

EditEvent(r) ==
    \E fields \in SUBSET Field :
       WriteEntry(r, "edit_calendar_event", "event",
                  Sent(saw[r], fields, r), With(intended["event"], fields, r))

AddAttendees(r) ==
    WriteEntry(r, "add_event_attendees", "event",
               [saw[r] EXCEPT !.guests = @ \cup {r}],
               [intended["event"] EXCEPT !.guests = @ \cup {r}])

EditTask(r) ==
    \E fields \in SUBSET {"title", "when"} :
       WriteEntry(r, "edit_task", "task",
                  Sent(saw[r], fields, r), With(intended["task"], fields, r))

(* upload_to_drive without a name: the attached files in any order (a Go map). *)
StartUploads(r) ==
    /\ Asks(r, {"upload_all_to_drive"})
    /\ Attached # {}
    /\ Ends(r, "uploading")
    /\ toUpload' = [toUpload EXCEPT ![r] = Attached]
    /\ reported' = [reported EXCEPT ![r] = {}]
    /\ UNCHANGED <<workFaults, uploads, lostUploads, spoiled>>

OneMore(count, r, f) == [count EXCEPT ![r][f] = @ + 1]

(* The loop keeps the error of one file for the answer and goes on. *)
UploadFile(r) ==
    /\ stage[r] = "uploading"
    /\ \E f \in toUpload[r], out \in Outcomes :
          /\ toUpload' = [toUpload EXCEPT ![r] = @ \ {f}]
          /\ reported' = IF out = "done" THEN [reported EXCEPT ![r] = @ \cup {f}] ELSE reported
          /\ uploads' = IF out \in Performs THEN OneMore(uploads, r, f) ELSE uploads
          /\ lostUploads' = IF out = "lost" THEN OneMore(lostUploads, r, f) ELSE lostUploads
          /\ out = "done" \/ workFaults < MaxWorkFaults
          /\ workFaults' = IF out = "done" THEN workFaults ELSE workFaults + 1
    /\ UNCHANGED <<stage, spoiled>>

(* The answer is no error of the tool, whatever it says of the files; when it
   reports an error of one of them, the model may ask for the same again. *)
UploadsEnd(r) ==
    /\ stage[r] = "uploading"
    /\ toUpload[r] = {}
    /\ \/ reported[r] = Attached /\ Ends(r, "ok") /\ UNCHANGED spoiled
       \/ /\ reported[r] # Attached
          /\ Ends(r, "failed")
          /\ spoiled' = [spoiled EXCEPT ![r] =
                            [f \in Attached |-> IF f \in reported[r] THEN @[f] + 1 ELSE @[f]]]
    /\ UNCHANGED <<workFaults, toUpload, reported, uploads, lostUploads>>

UploadsAll(r) ==
    /\ StartUploads(r) \/ UploadFile(r) \/ UploadsEnd(r)
    /\ UNCHANGED <<asked, saw, tries, shared, performed, unanswered, ahead>>

UsesTool(r) ==
    \/ AskTool(r) \/ RefuseArguments(r) \/ WriteOnce(r) \/ Look(r) \/ MakeThenFill(r)
    \/ Fill(r) \/ Reads(r) \/ Outdated(r) \/ AppendDoc(r) \/ UpdateDocContent(r)
    \/ AddSlide(r) \/ DeleteSlide(r) \/ NoSlideLeft(r) \/ MoveFile(r) \/ ExportPDF(r)
    \/ EditEvent(r) \/ AddAttendees(r) \/ EditTask(r)

WorkNext ==
    \E r \in Request :
       \/ UploadsAll(r)
       \/ UsesTool(r) /\ UNCHANGED uploadVars

WorkSpec == WorkInit /\ [][WorkNext]_workVars

-----------------------------------------------------------------------------
(* Asking again after an error repeats no change, unless the answer to the
   change was lost on the way: a tool that has made its object or sent its
   text does not report an error for what comes after (CreateSheet's rows,
   CreateSlides' title, AppendToPage's link), and every check of the arguments
   comes before the call (SendEmail validates all recipients first).  Of the
   files uploaded in one answer, one is uploaded again only after its own upload
   was reported as an error, or as done beside the error of another file. *)
ChangesAreNotRepeated ==
    \A r \in Request :
       /\ performed[r] <= 1 + unanswered[r]
       /\ \A f \in Attached : uploads[r][f] <= 1 + lostUploads[r][f] + spoiled[r][f]

(* Events and tasks are written whole, so an edit could undo what others set.
   As long as no two edits of one entry overlapped, it holds exactly what the
   edits performed on it, in their order, were told to change ("only non-empty
   fields are updated"). *)
EditsKeepOtherFields ==
    \A e \in Entry : e \in overlapped \/ entry[e] = intended[e]

(* AppendDoc inserts at the end it read.  Unless somebody wrote into the
   document between its read and its write, its text comes after every text it
   read, and later appends and replacements do not move it before them. *)
AppendedTextsFollow ==
    \A i, j \in DOMAIN doc : \A r \in Request :
       doc[i] = Text(r) /\ asked[r] = "append_to_google_doc" /\ doc[j] \in ahead[r] => j < i
=============================================================================
