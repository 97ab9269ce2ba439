-------------------------- MODULE DiagnosticsExport --------------------------
(***************************************************************************)
(* What a diagnostic log may contain and who is told: the command line of  *)
(* the session, the choices of the Diagnostic Logs dialog, the threads     *)
(* that record while they change, the export of a bundle, a crash, and the *)
(* restart with detailed logging (app/diagnostics_dialog.rs, and the       *)
(* configuration, setters and export of infrastructure/diagnostics/mod.rs, *)
(* infrastructure/diagnostics/crash.rs).                                   *)
(***************************************************************************)
EXTENDS Naturals, Sequences, FiniteSets

CONSTANTS
    CommandLines,   \* the command lines the program is started with
    MaxClicks       \* bound: commands given in the dialog

Levels == {"info", "debug", "trace"}

Directories == {"dirA", "dirB"}
LevelArguments == {"diagnostic", "debug", "trace", "sensitive", "minidump"}

\* The last of a kind of arguments prevails.
LastOf(line, kind, default) ==
    LET given == {i \in DOMAIN line : line[i] \in kind}
        last == CHOOSE i \in given : \A j \in given : j <= i
    IN  IF given = {} THEN default ELSE line[last]
Given(line, argument) == \E i \in DOMAIN line : line[i] = argument

\* DiagnosticConfig::parse: anything else is ignored.
Parse(line) ==
    LET last == LastOf(line, LevelArguments, "none") IN
    [level |-> IF last = "none" THEN "info" ELSE IF last = "debug" THEN "debug" ELSE "trace",
     sensitive |-> Given(line, "sensitive"),
     minidump |-> Given(line, "minidump"),
     dir |-> LastOf(line, Directories, "default"),
     session |-> LastOf(line, {"session0", "session1"}, "session1")]

\* is_diagnostic_argument
IsDiagnostic(argument) ==
    argument \in {"diagnostic", "debug", "trace", "bad-level", "sensitive", "minidump",
                  "dirA", "dirB", "relative-dir", "session0", "session1"}

VARIABLES
    arguments,      \* the command line of this process
    directory,      \* whether there is a session directory
    level, sensitive, ever, minidump,   \* SharedState
    dumps,          \* crash::MINIDUMP_ENABLED
    stores,         \* what the UI thread has still to store, in order
    shown,          \* what the dialog's check boxes show
    enabled,        \* the dialog's enabled buttons
    dialog,         \* "closed", "open", or the prompt above it
    clicks,
    exporting,      \* export_in_progress
    thread,         \* where the export thread is
    bundle,         \* what the export has collected so far
    posted,         \* PWM_DIAGNOSTIC_EXPORT_COMPLETE is queued
    warned,         \* the user was warned for this export
    building,       \* the record another thread builds
    private,        \* the log holds sensitive fields
    artifact,       \* another session holds a crash artifact
    late,           \* history: content that came after the warning was decided, and
                    \* whether the other sessions could not be read then
    ended           \* how the process ended, with its dump or its replacement

runtime == <<level, sensitive, ever, minidump, dumps, stores>>
ui == <<shown, enabled, dialog, clicks, exporting>>
export == <<thread, bundle, posted, warned>>
world == <<building, private, artifact, late>>
vars == <<arguments, directory, runtime, ui, export, world, ended>>

Buttons == {"export", "restart", "folder"}
Status == [detailed |-> level # "info", sensitive |-> sensitive, minidump |-> minidump]
NoBundle == [private |-> FALSE, crash |-> FALSE, told |-> FALSE, torn |-> FALSE]
Running == ended.how = "no"
Idle == Running /\ dialog = "open" /\ stores = <<>> /\ clicks < MaxClicks

Init ==
    /\ arguments \in CommandLines /\ directory \in BOOLEAN
    /\ LET c == Parse(arguments) IN
        /\ level = c.level /\ sensitive = c.sensitive /\ ever = c.sensitive
        /\ minidump = c.minidump
        /\ dumps = (directory /\ c.minidump)
    /\ stores = <<>> /\ dialog = "closed" /\ clicks = 0
    /\ shown = Status /\ enabled = Buttons /\ exporting = FALSE
    /\ thread = "none" /\ bundle = NoBundle /\ posted = FALSE /\ warned = FALSE
    /\ building = "none" /\ private = FALSE
    /\ artifact = FALSE /\ late = [private |-> FALSE, crash |-> FALSE, unread |-> FALSE]
    /\ ended = [how |-> "no", dump |-> FALSE, next |-> <<>>]

-----------------------------------------------------------------------------
(* The setters: one atomic store after the other.                          *)

SetSensitive(on) == <<[at |-> "sensitive", to |-> on]>> \o
    IF on THEN <<[at |-> "ever", to |-> TRUE], [at |-> "level", to |-> "trace"]>> ELSE <<>>
SetMinidump(on) == <<[at |-> "minidump", to |-> on]>> \o
    (IF on THEN <<[at |-> "level", to |-> "trace"]>> ELSE <<>>) \o <<[at |-> "dumps", to |-> on]>>
SetDetailed(on) == <<[at |-> "level", to |-> IF on THEN "trace" ELSE "info"]>>

Store ==
    LET s == Head(stores)
        Stored(name, old) == IF s.at = name THEN s.to ELSE old IN
    /\ Running /\ stores # <<>>
    /\ sensitive' = Stored("sensitive", sensitive)
    /\ ever' = Stored("ever", ever)
    /\ level' = Stored("level", level)
    /\ minidump' = Stored("minidump", minidump)
    /\ dumps' = Stored("dumps", dumps)
    /\ late' = [late EXCEPT !.private = @ \/ (s.at = "sensitive" /\ s.to /\ exporting)]
    /\ stores' = Tail(stores)
    \* refresh_dialog_state, after the last store
    /\ IF Len(stores) = 1
       THEN /\ shown' = [detailed |-> level' # "info", sensitive |-> sensitive',
                         minidump |-> minidump']
            /\ enabled' = IF directory THEN enabled \union {"export", "folder"}
                          ELSE enabled \ {"export", "folder"}
       ELSE UNCHANGED <<shown, enabled>>
    /\ UNCHANGED <<arguments, directory, dialog, clicks, exporting, export, building,
                   private, artifact, ended>>

-----------------------------------------------------------------------------
(* The dialog.  A check box flips what it shows.                           *)

Open ==
    /\ Running /\ dialog = "closed" /\ clicks < MaxClicks
    /\ dialog' = "open" /\ clicks' = clicks + 1 /\ exporting' = FALSE
    /\ shown' = Status
    /\ enabled' = IF directory THEN Buttons ELSE Buttons \ {"export", "folder"}
    /\ UNCHANGED <<arguments, directory, runtime, export, world, ended>>

Toggle(box) ==
    /\ Idle
    /\ clicks' = clicks + 1
    /\ stores' = CASE box = "sensitive" -> SetSensitive(~shown.sensitive)
                   [] box = "minidump" -> SetMinidump(~shown.minidump)
                   [] box = "detailed" ->
                        IF shown.detailed
                        THEN SetSensitive(FALSE) \o SetMinidump(FALSE) \o SetDetailed(FALSE)
                        ELSE SetDetailed(TRUE)
    /\ UNCHANGED <<arguments, directory, level, sensitive, ever, minidump, dumps, shown,
                   enabled, dialog, exporting, export, world, ended>>

\* Mutant of Cancel: the dialog closes under the export.
CancelAnytime ==
    /\ Idle
    /\ dialog' = "closed" /\ clicks' = clicks + 1
    /\ UNCHANGED <<arguments, directory, runtime, shown, enabled, exporting, export, world,
                   ended>>

\* Escape or the close box: not during an export.
Cancel ==
    /\ Idle /\ ~exporting
    /\ dialog' = "closed" /\ clicks' = clicks + 1
    /\ UNCHANGED <<arguments, directory, runtime, shown, enabled, exporting, export, world,
                   ended>>

\* detailed_restart_arguments: the choices of this moment, the old directory.
Kept(line) == {i \in DOMAIN line : line[i] \in Directories \union {"relative-dir"}
                                       \/ ~IsDiagnostic(line[i])}

\* The k-th of a set of places.
Nth(places, k) == CHOOSE i \in places : Cardinality({j \in places : j < i}) = k - 1

RestartArguments ==
    [k \in 1..Cardinality(Kept(arguments)) |-> arguments[Nth(Kept(arguments), k)]]
    \o <<"trace">>
    \o (IF sensitive THEN <<"sensitive">> ELSE <<>>)
    \o (IF minidump THEN <<"minidump">> ELSE <<>>) \o <<"session0">>

\* The button ends the dialog; the main window starts the replacement and is
\* destroyed, or reports that it could not be started.
Restart ==
    /\ Idle /\ "restart" \in enabled
    /\ dialog' = "closed" /\ clicks' = clicks + 1
    /\ \/ ended' = [ended EXCEPT !.how = "restarted", !.next = RestartArguments]
       \/ UNCHANGED ended
    /\ UNCHANGED <<arguments, directory, runtime, shown, enabled, exporting, export, world>>

\* Mutant of NeedsWarning: the present choice decides.
NeedsWarningNow(unread) == sensitive \/ (artifact /\ ~unread)

\* export_requires_privacy_warning: directories that cannot be read, which another
\* process may have open to delete them, are taken for ones without a crash.
NeedsWarning(unread) == ever \/ (artifact /\ ~unread)

ClickExport ==
    /\ Idle /\ "export" \in enabled /\ ~exporting
    /\ clicks' = clicks + 1
    /\ \E unread \in BOOLEAN :
         /\ dialog' = IF NeedsWarning(unread) THEN "warning" ELSE "saving"
         /\ late' = [private |-> FALSE, crash |-> FALSE, unread |-> unread]
    /\ warned' = FALSE
    /\ UNCHANGED <<arguments, directory, runtime, shown, enabled, exporting, thread, bundle,
                   posted, building, private, artifact, ended>>

AnswerWarning ==
    /\ Running /\ dialog = "warning"
    /\ \/ dialog' = "saving" /\ warned' = TRUE
       \/ dialog' = "open" /\ UNCHANGED warned
    /\ UNCHANGED <<arguments, directory, runtime, shown, enabled, clicks, exporting, thread,
                   bundle, posted, world, ended>>

\* The save dialog is cancelled or fails, or the thread cannot be started.
NoExport ==
    /\ Running /\ dialog = "saving"
    /\ dialog' = "open"
    /\ UNCHANGED <<arguments, directory, runtime, shown, enabled, clicks, exporting, export,
                   world, ended>>

BeginExport ==
    /\ Running /\ dialog = "saving"
    /\ dialog' = "open" /\ exporting' = TRUE /\ enabled' = {}
    /\ thread' = "collect" /\ bundle' = NoBundle
    /\ UNCHANGED <<arguments, directory, runtime, shown, clicks, posted, warned, world, ended>>

CompleteExport ==
    /\ Running /\ posted /\ dialog = "open" /\ stores = <<>>
    /\ posted' = FALSE /\ exporting' = FALSE /\ enabled' = Buttons
    /\ UNCHANGED <<arguments, directory, runtime, shown, dialog, clicks, thread, bundle,
                   warned, world, ended>>

-----------------------------------------------------------------------------
(* The export thread (export_bundle).                                      *)

\* The lanes are flushed; the lengths of the files are taken, so that what is
\* written later is not part of the bundle.
Collect ==
    /\ Running /\ thread = "collect"
    /\ \/ /\ thread' = "status"
          /\ bundle' = [bundle EXCEPT !.private = private, !.crash = artifact]
       \/ thread' = "post" /\ UNCHANGED bundle      \* an error: no bundle
    /\ UNCHANGED <<arguments, directory, runtime, ui, posted, warned, world, ended>>

\* The manifest's statement about sensitive fields is read after the files.
ReadStatus ==
    /\ Running /\ thread = "status"
    /\ bundle' = [bundle EXCEPT !.told = ever, !.torn = stores # <<>>]
    /\ thread' \in {"written", "post"}              \* the archive may fail
    /\ UNCHANGED <<arguments, directory, runtime, ui, posted, warned, world, ended>>

Post ==
    /\ Running /\ thread \in {"written", "post"}
    /\ thread' = "none" /\ posted' = TRUE
    /\ UNCHANGED <<arguments, directory, runtime, ui, bundle, warned, world, ended>>

-----------------------------------------------------------------------------
(* The other threads and processes.                                        *)

\* build_record leaves sensitive fields out unless `sensitive` is set then.
BuildRecord ==
    /\ Running /\ building = "none" /\ ~private
    /\ building' = IF sensitive THEN "private" ELSE "redacted"
    /\ UNCHANGED <<arguments, directory, runtime, ui, export, private, artifact, late, ended>>

\* The record is sent and written; only its private content matters.
WriteRecord ==
    /\ Running /\ building # "none"
    /\ building' = "none" /\ private' = (private \/ (building = "private" /\ directory))
    /\ UNCHANGED <<arguments, directory, runtime, ui, export, artifact, late, ended>>

\* Another instance crashes and leaves its record.
OtherCrash ==
    /\ Running /\ directory /\ ~artifact
    /\ artifact' = TRUE
    /\ late' = [late EXCEPT !.crash = dialog \in {"warning", "saving"} \/ exporting]
    /\ UNCHANGED <<arguments, directory, runtime, ui, export, building, private, ended>>

\* unhandled_exception_filter: the crash record, and the dump if it is enabled.
Crash ==
    /\ Running
    /\ ended' = [ended EXCEPT !.how = "crashed", !.dump = directory /\ dumps]
    /\ UNCHANGED <<arguments, directory, runtime, ui, export, world>>

Next == \/ Store \/ Open \/ Cancel \/ Restart
        \/ \E box \in {"detailed", "sensitive", "minidump"} : Toggle(box)
        \/ ClickExport \/ AnswerWarning \/ NoExport \/ BeginExport \/ CompleteExport
        \/ Collect \/ ReadStatus \/ Post
        \/ BuildRecord \/ WriteRecord \/ OtherCrash \/ Crash

Spec == Init /\ [][Next]_vars

-----------------------------------------------------------------------------
\* A bundle with sensitive fields of which the user was not warned got them after
\* the warning was decided: sensitive logging was switched on while the export ran
\* (the check boxes stay enabled).  One with a crash artifact got it in that time
\* from another process, or the sessions could not be read when the warning was
\* decided (begin_export, export_requires_privacy_warning).
OnlyLateContentIsUnwarned ==
    (thread = "written" /\ ~warned) =>
      /\ bundle.private => late.private
      /\ bundle.crash => late.crash \/ late.unread

\* No crash artifact that was there when the warning was decided leaves without
\* one.  False: export_contains_crash_artifact takes a failed reading for none.
CrashesAreAnnounced ==
    (thread = "written" /\ ~warned /\ bundle.crash) => late.crash

\* The manifest of a bundle with sensitive fields says that they were enabled,
\* unless it was read between two stores of a setter (export_bundle,
\* set_sensitive).
ManifestTellsPrivate ==
    (thread = "written" /\ bundle.private /\ ~bundle.torn) => bundle.told

\* While an export thread runs or its message is under way the dialog is there
\* to receive it and no second export starts (diagnostics_dialog_proc: Cancel is
\* ignored, the buttons are disabled, and a refresh enables only two of them).
DialogOutlivesTheExport ==
    Running /\ (thread # "none" \/ posted) =>
      /\ exporting /\ dialog = "open"
      /\ ~(thread # "none" /\ posted)

\* A crash leaves a memory dump only if the user has asked for dumps, and the
\* choice that is shown is the one the exception filter sees (set_minidump,
\* crash::install).
DumpOnlyWhenAsked ==
    stores = <<>> => (dumps \/ ended.dump => minidump)

\* Sensitive fields and dumps are choices of detailed logging: with basic logging
\* neither is on, whatever the order of clicks and arguments.
PrivateMeansDetailed ==
    stores = <<>> => (sensitive \/ minidump => level # "info")

\* The replacement process starts with detailed logging, with the choices of the
\* dialog and in the directory of this one (detailed_restart_arguments, parse).
RestartKeepsTheChoices ==
    ended.how = "restarted" =>
      LET c == Parse(ended.next) IN
        /\ c.level = "trace" /\ c.sensitive = sensitive /\ c.minidump = minidump
        /\ c.dir = Parse(arguments).dir
=============================================================================
