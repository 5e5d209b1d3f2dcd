------------------------------- MODULE ToolTable -------------------------------
(***************************************************************************)
(* The built-in tools (internal/tools/executor.go), as two tables kept at  *)
(* two ends of one file: the arguments a tool declares to the model as     *)
(* required, and those without which dispatch refuses the call.  Both are  *)
(* given by the service that must be configured.  Optional arguments and   *)
(* descriptions are left out.                                              *)
(***************************************************************************)
\* These tools, each with these arguments.
Args(tools, args) == tools \X {args}

Tools(table) == {row[1] : row \in table}

ArgsOf(table, tool) == UNION {row[2] : row \in {r \in table : r[1] = tool}}

-----------------------------------------------------------------------------
(* Declarations. *)

DeclaresFiles ==
  Args({"create_google_doc"}, {"title", "content"}) \cup Args({"create_drive_folder"}, {"name"}) \cup
  Args({"upload_to_drive"}, {}) \cup Args({"rename_drive_file"}, {"file_id", "new_name"}) \cup
  Args({"delete_drive_file", "get_drive_file_info", "read_google_doc"}, {"file_id"}) \cup
  Args({"edit_google_doc"}, {"file_id", "content"}) \cup Args({"search_drive"}, {"query"})

DeclaresSheetsAndSlides ==
  Args({"read_google_sheet", "read_google_slides", "add_slide"}, {"file_id"}) \cup
  Args({"create_google_sheet", "create_google_slides"}, {"title"}) \cup
  Args({"edit_google_sheet"}, {"file_id", "range", "data"}) \cup
  Args({"append_google_sheet"}, {"file_id", "data"})

DeclaresMoreFiles ==
  Args({"move_drive_file"}, {"file_id", "new_folder_id"}) \cup
  Args({"list_drive_folder"}, {"folder_id"}) \cup
  Args({"copy_drive_file", "get_sheet_metadata", "delete_slide"}, {"file_id"}) \cup
  Args({"append_to_google_doc"}, {"file_id", "content"}) \cup
  Args({"clear_google_sheet"}, {"file_id", "range"}) \cup
  Args({"share_drive_file"}, {"file_id", "email"})

DeclaresEvents ==
  Args({"add_sheet_tab"}, {"file_id", "tab_name"}) \cup Args({"export_as_pdf"}, {"file_id"}) \cup
  Args({"create_calendar_event"}, {"summary", "start_time", "end_time"}) \cup
  Args({"edit_calendar_event", "delete_calendar_event"}, {"event_id"})

DeclaresTasks ==
  Args({"list_calendar_events", "list_calendars"}, {}) \cup
  Args({"add_event_attendees"}, {"event_id", "attendees"}) \cup
  Args({"create_task"}, {"title"}) \cup Args({"edit_task", "delete_task"}, {"task_id"})

DeclaresLists ==
  Args({"list_tasks", "list_task_lists"}, {}) \cup Args({"send_email"}, {"to", "subject", "body"})

DeclaresNotion ==
  Args({"create_notion_page"}, {"title", "content"}) \cup
  Args({"update_notion_page"}, {"page_id", "content"})

DeclaresScreenshot == Args({"screenshot_url"}, {"url"})

DeclaresMessages ==
  Args({"schedule_message"}, {"channel", "message", "send_at"}) \cup
  Args({"create_recurring_job"}, {"channel", "message", "cron_expression"}) \cup
  Args({"list_scheduled_jobs"}, {}) \cup Args({"cancel_scheduled_job"}, {"job_id"}) \cup
  Args({"send_message"}, {"channel", "message"})

DeclaresAttach == Args({"attach_file"}, {"file_name", "content"})

DeclaresSearch ==
  Args({"search_knowledge_base"}, {"query"}) \cup Args({"read_knowledge_base_document"}, {"id"})

Declares ==
  [google |-> DeclaresFiles \cup DeclaresSheetsAndSlides \cup DeclaresMoreFiles \cup DeclaresEvents \cup
              DeclaresTasks \cup DeclaresLists,
   notion |-> DeclaresNotion, screenshots |-> DeclaresScreenshot, schedules |-> DeclaresMessages,
   always |-> DeclaresAttach, search |-> DeclaresSearch]

-----------------------------------------------------------------------------
(* Dispatch. *)

NeedsFiles ==
  Args({"create_google_doc"}, {"title"}) \cup Args({"create_drive_folder"}, {"name"}) \cup
  Args({"upload_to_drive"}, {}) \cup Args({"rename_drive_file"}, {"file_id", "new_name"}) \cup
  Args({"delete_drive_file", "edit_google_doc"}, {"file_id"}) \cup Args({"search_drive"}, {"query"})

NeedsSheets ==
  Args({"get_drive_file_info", "read_google_doc", "read_google_sheet", "read_google_slides"},
       {"file_id"}) \cup
  Args({"create_google_sheet", "create_google_slides"}, {"title"}) \cup
  Args({"edit_google_sheet"}, {"file_id", "range", "data"}) \cup
  Args({"append_google_sheet"}, {"file_id", "data"})

NeedsMoreFiles ==
  Args({"move_drive_file"}, {"file_id", "new_folder_id"}) \cup
  Args({"list_drive_folder"}, {"folder_id"}) \cup
  Args({"add_slide", "copy_drive_file", "get_sheet_metadata", "delete_slide"}, {"file_id"}) \cup
  Args({"append_to_google_doc"}, {"file_id", "content"}) \cup
  Args({"clear_google_sheet"}, {"file_id", "range"}) \cup
  Args({"share_drive_file"}, {"file_id", "email"})

\* An event's end asked for under another name than the declared one.
NeedsEventsMisnamed ==
  Args({"add_sheet_tab"}, {"file_id", "tab_name"}) \cup Args({"export_as_pdf"}, {"file_id"}) \cup
  Args({"create_calendar_event"}, {"summary", "start_time", "end"}) \cup
  Args({"edit_calendar_event", "delete_calendar_event"}, {"event_id"}) \cup
  Args({"list_calendar_events"}, {})

NeedsEvents ==
  Args({"add_sheet_tab"}, {"file_id", "tab_name"}) \cup Args({"export_as_pdf"}, {"file_id"}) \cup
  Args({"create_calendar_event"}, {"summary", "start_time", "end_time"}) \cup
  Args({"edit_calendar_event", "delete_calendar_event"}, {"event_id"}) \cup
  Args({"list_calendar_events"}, {})

NeedsTasks ==
  Args({"add_event_attendees"}, {"event_id", "attendees"}) \cup Args({"create_task"}, {"title"}) \cup
  Args({"edit_task", "delete_task"}, {"task_id"}) \cup
  Args({"list_calendars", "list_tasks", "list_task_lists"}, {}) \cup
  Args({"send_email"}, {"to", "subject", "body"})

NeedsNotion == Args({"create_notion_page"}, {"title"}) \cup Args({"update_notion_page"}, {"page_id"})

NeedsScreenshot == Args({"screenshot_url"}, {"url"})

NeedsMessages ==
  Args({"schedule_message"}, {"channel", "message", "send_at"}) \cup
  Args({"create_recurring_job"}, {"channel", "message", "cron_expression"}) \cup
  Args({"list_scheduled_jobs"}, {}) \cup Args({"cancel_scheduled_job"}, {"job_id"}) \cup
  Args({"send_message"}, {"channel", "message"})

NeedsAttach == Args({"attach_file"}, {"file_name", "content"})

NeedsSearch ==
  Args({"search_knowledge_base"}, {"query"}) \cup Args({"read_knowledge_base_document"}, {"id"})

Needs ==
  [google |-> NeedsFiles \cup NeedsSheets \cup NeedsMoreFiles \cup NeedsEvents \cup NeedsTasks,
   notion |-> NeedsNotion, screenshots |-> NeedsScreenshot, schedules |-> NeedsMessages,
   always |-> NeedsAttach, search |-> NeedsSearch]

-----------------------------------------------------------------------------

Services == DOMAIN Declares

\* The built-in tools that are offered when these services are configured.
OfferedTools(configured) ==
  UNION {Tools(Declares[s]) : s \in Services \cap (configured \cup {"always"})}

\* The names the dispatcher knows, whatever is configured.
KnownTools == UNION {Tools(Needs[s]) : s \in Services}

ServiceFor(tool) == CHOOSE s \in Services : tool \in Tools(Needs[s])

DeclaredArgs(tool) == ArgsOf(UNION {Declares[s] : s \in Services}, tool)

\* A call is refused without its service, the sender of an email among them,
\* without one of the arguments it needs, or, to upload, without files attached
\* to the message.  How many files one reply takes is not a matter of arguments.
Refused(tool, args, configured, files) ==
  \/ ServiceFor(tool) \notin configured \cup {"always"}
  \/ tool = "send_email" /\ "sender" \notin configured
  \/ tool = "upload_to_drive" /\ ~ files
  \/ ~ (ArgsOf(Needs[ServiceFor(tool)], tool) \subseteq args)

=============================================================================
