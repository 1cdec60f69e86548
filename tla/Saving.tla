----------------------------------- MODULE Saving -----------------------------------
(* What becomes of a person's work: the studio's history of edits, its saving,    *)
(* the sending out of a finished video, and the searches of Discover.  These      *)
(* parts share no variable: each behaviour is about one of them, which `screen`   *)
(* names, and what is fair is asked of that one alone.                            *)
EXTENDS Editor

CONSTANTS
    Docs, Contents, Titles, Blank, NoDoc, NoSave, MaxMounts, MaxChanges, MaxVersion,
                                        \* see Autosave
    Targets, File, MaxFrames, MaxKeys,  \* see Posting
    Terms, Kept, MaxTickets             \* see Search

VARIABLES
    screen,     \* the part of the client this behaviour is about
    save_doc, save_present, save_title, save_version, save_saved, save_status,
    save_dragging, save_mount, save_mounted, save_timer, save_flight, save_server,
    save_changes, save_seen, save_acked, save_crossed, save_overwrote,
    send_form, send_opened, send_chosen, send_phase, send_frames, send_aborted, send_to,
    send_key, send_posts, send_answer, send_files, send_told,
    seek_query, seek_platform, seek_results, seek_notice, seek_latest, seek_asked,
    seek_inflight, seek_cache, seek_answers, seek_history, seek_stored, seek_strayed

saveVars == <<save_doc, save_present, save_title, save_version, save_saved, save_status,
    save_dragging, save_mount, save_mounted, save_timer, save_flight,
    save_server, save_changes, save_seen, save_acked, save_crossed,
    save_overwrote>>
save == INSTANCE Autosave WITH
    doc <- save_doc, present <- save_present, title <- save_title,
    version <- save_version, saved <- save_saved, status <- save_status,
    dragging <- save_dragging, mount <- save_mount, mounted <- save_mounted,
    timer <- save_timer, flight <- save_flight, server <- save_server,
    changes <- save_changes, seen <- save_seen, acked <- save_acked,
    crossed <- save_crossed, overwrote <- save_overwrote

sendVars == <<send_form, send_opened, send_chosen, send_phase, send_frames,
    send_aborted, send_to, send_key, send_posts, send_answer, send_files,
    send_told>>
send == INSTANCE Posting WITH
    Platforms <- Targets, form <- send_form, opened <- send_opened, chosen <- send_chosen,
    phase <- send_phase, frames <- send_frames, aborted <- send_aborted, to <- send_to,
    key <- send_key, posts <- send_posts, answer <- send_answer, files <- send_files,
    told <- send_told

seekVars == <<seek_query, seek_platform, seek_results, seek_notice, seek_latest,
    seek_asked, seek_inflight, seek_cache, seek_answers, seek_history,
    seek_stored, seek_strayed>>
seek == INSTANCE Search WITH
    query <- seek_query,
    platform <- seek_platform, results <- seek_results, notice <- seek_notice,
    latest <- seek_latest, asked <- seek_asked, inflight <- seek_inflight,
    cache <- seek_cache, answers <- seek_answers, history <- seek_history,
    stored <- seek_stored, strayed <- seek_strayed

-----------------------------------------------------------------------------
(* What the parts take for granted of their parameters; the history's is in Editor. *)

\* The mark of no project is none, and that of no save is none.
SaveAssumption ==
    /\ NoDoc \notin Docs /\ NoSave \notin save!Save
    /\ MaxMounts \in Nat /\ MaxChanges \in Nat /\ MaxVersion \in Nat \ {0}

\* A video has a frame, and a dialog a key.
SendAssumption == MaxFrames \in Nat \ {0} /\ MaxKeys \in Nat \ {0}

\* No term is a link.
SeekAssumption == "post" \notin Terms /\ Kept \in Nat /\ MaxTickets \in Nat

ASSUME PartsAssumption == SaveAssumption /\ SendAssumption /\ SeekAssumption

-----------------------------------------------------------------------------
Screens == {"editor", "autosave", "posting", "search"}

SavingInit ==
    /\ screen \in Screens
    /\ Init
    /\ save!Init /\ send!Init /\ seek!Init

SavingNext ==
    /\ UNCHANGED screen
    /\ \/ screen = "editor" /\ Next
          /\ UNCHANGED <<saveVars, sendVars, seekVars>>
       \/ screen = "autosave" /\ save!Next
          /\ UNCHANGED <<vars, sendVars, seekVars>>
       \/ screen = "posting" /\ send!Next
          /\ UNCHANGED <<vars, saveVars, seekVars>>
       \/ screen = "search" /\ seek!Next
          /\ UNCHANGED <<vars, saveVars, sendVars>>

SavingVars == <<screen, vars, saveVars, sendVars, seekVars>>
SavingSpec == SavingInit /\ [][SavingNext]_SavingVars

\* Where a part begins matters to its own screen only, and a project opened first is as
\* good as any other.
First == CHOOSE o \in save!Objects : TRUE
Start ==
    /\ SavingInit
    /\ save_present = First /\ (screen # "posting" => send_form = "export")

FairSaving ==
    /\ Start /\ [][SavingNext]_SavingVars
    /\ WF_saveVars(screen = "autosave" /\ save!EndDrag)
    /\ \A m \in save!Mounts : WF_saveVars(screen = "autosave" /\ save!Flush(m))
    /\ \A m \in save!Mounts :
           WF_saveVars(screen = "autosave" /\ (save!Store(m) \/ save!NotStored(m)))
    /\ \A m \in save!Mounts : WF_saveVars(screen = "autosave" /\ save!Answer(m))
    /\ WF_sendVars(screen = "posting" /\ send!Work)
    /\ WF_seekVars(screen = "search" /\ seek!Answers)

-----------------------------------------------------------------------------
\* What no part's variables are ever outside of.
AllTypes ==
    CASE screen = "editor"  -> TypeOK      [] screen = "autosave" -> save!TypeOK
      [] screen = "posting" -> send!TypeOK [] screen = "search"   -> seek!TypeOK

\* Autosave: use-autosave.ts:10, "Saves a moment after the last change", of a drag.
DragsGetSaved == save!DragsGetSaved

\* Work is not lost, and not sent out twice.  "Saved" is said only of what the server
\* has; a save replaces no version this page has not seen, unless its project was left
\* while one was on its way; pressing Post again after a lost answer posts nothing more.
WorkIsKept ==
    /\ screen = "autosave" => save!SavedMeansStored /\ save!OverwritesOnlyAfterCrossing
    /\ screen = "posting" => send!AtMostOneUntold

\* The newest search is what is shown.  The results are of it, whatever order the answers
\* come in, and the toggle shows their platform; no search is asked and paid for again in
\* the session, but one whose answer came too late to be shown; the history is on the
\* device as on screen.
NewestSearchIsShown ==
    screen = "search" =>
        /\ seek!ResultsAreOfTheNewest /\ seek!ToggleAgrees
        /\ seek!OnlyLateAnswersArePaidAgain /\ seek!HistoryIsStored

\* What was begun ends.  An edit that is scheduled is stored, or the header says that it
\* is not, or a save of its screen was rejected, which nobody is told of; Cancel while
\* frames are drawn ends an export, and its dialog does not stay busy, unless a wait of
\* the export is never over; a search is answered.
WhatIsBegunEnds ==
    /\ save!ScheduledGetsStored
    /\ send!CancelWhileDrawingStops
    /\ send!ExportEnds
    /\ seek!SearchEnds

\* Bounds: the second of the two projects is saved once, and one search follows a toggle
\* or a link that left an answer on its way.
Enough ==
    /\ \A d \in Docs \ {First[1]} : save_server[d].version < MaxVersion
    /\ seek_strayed => seek_latest <= 2

\* Bound: the run that asks about drags looks at the saving alone.
SavingAlone == screen = "autosave"

=============================================================================
