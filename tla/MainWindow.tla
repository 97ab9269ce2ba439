----------------------------- MODULE MainWindow -----------------------------
(***************************************************************************)
(* The main window (src/app): startup and its failures, switching pages,   *)
(* the page-owned menus, the no-title mode, the update timer, the status   *)
(* bar while a menu is tracked, the tray icon and the ordered shutdown.    *)
(*                                                                         *)
(* Everything runs on the UI thread, one handler at a time; what is hard   *)
(* is that handlers arrive in any order between the posted startup         *)
(* messages, and that the Win32 calls they make can fail half-way.         *)
(* Handlers built of shared steps (update_menu_states, size_active_page)   *)
(* are operators on the record ui of what the window shows.                *)
(*                                                                         *)
(* faults counts the failing calls but those of the tray icon, which the   *)
(* shell may refuse at any time.  Taken to succeed is SetMenu with a null  *)
(* menu on the live window, whose result the code ignores.                 *)
(***************************************************************************)
EXTENDS Naturals, Sequences

CONSTANTS
    PageCount,      \* PageId::COUNT
    AlwaysNormal,   \* pages with MinimumSizePolicy::AlwaysNormal
    Processes,      \* the page that WM_FINDPROC opens
    Intervals,      \* timer intervals of the update speeds; 0 is paused
    Usages,         \* CPU usages told apart in tray and status bar
    MaxFaults       \* bound: failures of Win32 calls

Pages == 0..PageCount - 1

ASSUME MainWindowAssumption ==
    /\ PageCount \in Nat \ {0} /\ AlwaysNormal \subseteq Pages /\ Processes \in Pages
    /\ Intervals \subseteq Nat /\ 0 \in Usages /\ MaxFaults \in Nat

NoMenu == PageCount                     \* a null HMENU
Layouts == {"template", "framed", "borderless"}
Options == [noTitle : BOOLEAN, onTop : BOOLEAN, interval : Intervals]
Windows == [page : Pages,               \* options.current_page
            tab : Pages,                \* selection of the tab control
            shown : SUBSET Pages,       \* visible page dialogs
            menu : Pages \union {NoMenu},       \* GetMenu(main_hwnd)
            current : Pages \union {NoMenu},    \* MenuController::current_menu
            opts : Options,
            marks : [Pages -> Options],         \* check marks of the pages' menus
            applied : [Pages -> BOOLEAN],       \* no_title as the pages know it
            layout : [Pages -> Layouts]]        \* how each page was sized last

Phases == {"pages", "activate", "timer", "show", "running", "failed", "closed"}
DeferredInit == PageCount               \* PWM_DEFERREDINIT; a page stands for its prewarm

VARIABLES
    phase,          \* where run_main and on_init_dialog are
    created,        \* the first pages whose dialog and menu exist
    ui,
    posted,         \* posted startup messages, in order
    timer,          \* interval of the live timer; 0 is none
    timerId,        \* App::timer_id; 0 is none
    idNamesTimer,   \* whether KillTimer finds the timer by what SetTimer returned
    usage,          \* RuntimeStatsController
    statusText,     \* usage in the status bar
    tracking,       \* MenuController::tracking
    icons,          \* TrayController: its icons are loaded
    registered,     \* TrayController::registered
    trayError,      \* TrayController::last_error
    tray,           \* the shell shows our icon
    faults

timerVars == <<timer, timerId, idNamesTimer>>
statusVars == <<usage, statusText, tracking>>
trayVars == <<icons, registered, trayError, tray>>
vars == <<phase, created, ui, posted, timerVars, statusVars, trayVars, faults>>

Init ==
    \E o \in Options, p \in Pages :
        /\ phase = "pages" /\ created = 0 /\ posted = <<>>
        /\ ui = [page |-> p, tab |-> 0, shown |-> {}, menu |-> NoMenu,
                 current |-> NoMenu, opts |-> o, marks |-> [q \in Pages |-> o],
                 applied |-> [q \in Pages |-> FALSE],
                 layout |-> [q \in Pages |-> "template"]]
        /\ timer = 0 /\ timerId = 0 /\ idNamesTimer \in BOOLEAN
        /\ usage = 0 /\ statusText = 0 /\ tracking = FALSE
        /\ icons = FALSE /\ registered = FALSE /\ trayError = FALSE /\ tray = FALSE
        /\ faults = 0

Fails == faults < MaxFaults /\ faults' = faults + 1

-----------------------------------------------------------------------------
(* Shared steps.                                                            *)

\* update_menu_states: the marks of the attached menu follow the options.
UpdateMenuStates(u) ==
    IF u.menu = NoMenu THEN u ELSE [u EXCEPT !.marks[u.menu] = u.opts]

\* apply_options_to_pages.
ApplyOptions(u) == [u EXCEPT !.applied = [q \in Pages |-> u.opts.noTitle]]

\* size_active_page, framed: the current menu is attached (or SetMenu fails,
\* unnoticed) and its states are derived again.
FrameMenu(u, set) ==
    IF u.current = NoMenu THEN u
    ELSE UpdateMenuStates(IF set THEN [u EXCEPT !.menu = u.current] ELSE u)

\* size_active_page: the page of the options is sized for the mode.
SizeActivePage(u, set) ==
    IF u.opts.noTitle
    THEN [u EXCEPT !.layout[u.page] = "borderless", !.menu = NoMenu]
    ELSE FrameMenu([u EXCEPT !.layout[u.page] = "framed"], set)

\* Whether a SetMenu in size_active_page succeeds.
MaySet(set) == IF set THEN UNCHANGED faults ELSE Fails

\* page_uses_normal_minimum.
UsesNormalMinimum(u, p) == ~u.opts.noTitle \/ p \in AlwaysNormal

\* DialogPage::activate of page p once SetMenu has succeeded or is not called.
PageActivate(u, p) ==
    [u EXCEPT !.menu = IF u.opts.noTitle THEN @ ELSE p,
              !.current = p, !.applied[p] = u.opts.noTitle]

\* Mutant of HidePrevious: the former page stays visible.
HideNothing(u) == {}

\* deactivate: the former page is hidden.
HidePrevious(u) == {u.page}

\* activate_page of page p, succeeding: the new page takes the menu, the former
\* is hidden, then the new one is sized and shown.
Activated(u, p, set) ==
    LET a == PageActivate(u, p)
        h == [a EXCEPT !.shown = @ \ (IF u.page = p THEN {} ELSE HidePrevious(u)),
                       !.page = p]
        s == SizeActivePage(UpdateMenuStates(h), set)
    IN  [s EXCEPT !.shown = @ \union {p}]

\* activate_page of page p, SetMenu failing: the former page is restored, but
\* only if it is another one.
NotActivated(u, p, set) ==
    IF u.page = p THEN u
    ELSE SizeActivePage(UpdateMenuStates([u EXCEPT !.tab = u.page]), set)

\* refresh_status_bar leaves the help text of a tracked menu alone.
RefreshStatusBar == statusText' = IF tracking THEN statusText ELSE usage'

-----------------------------------------------------------------------------
(* SetTimer and KillTimer as replace_update_timer calls them: for a window   *)
(* and id 0, SetTimer replaces the existing timer and returns some nonzero  *)
(* number (1 here); whether KillTimer finds the timer by that number is up  *)
(* to the system.                                                           *)

Killable == timer # 0 /\ idNamesTimer

\* replace_update_timer of an interval: succeeds.
TimerReplaced(i) ==
    \/ /\ i = 0 /\ timerId # 0 => Killable
       /\ timer' = 0 /\ timerId' = 0
    \/ /\ i # 0 /\ timerId = 0
       /\ timer' = i /\ timerId' = 1
    \/ /\ i # 0 /\ timerId # 0 /\ idNamesTimer
       /\ timer' = 0 /\ timerId' = 1

\* replace_update_timer of an interval: the old timer cannot be killed, and the
\* new one cannot be either, or SetTimer fails.
TimerNotReplaced(i) ==
    /\ \/ /\ timerId # 0
          /\ IF i = 0 THEN ~Killable /\ timer' = timer ELSE ~idNamesTimer /\ timer' = i
          /\ UNCHANGED faults
       \/ i # 0 /\ Fails /\ timer' = timer
    /\ UNCHANGED timerId

-----------------------------------------------------------------------------
(* TrayController::update_tray: the shell may refuse every call.  An icon that was once *)
(* added is lost when the shell restarts; nothing adds it again.            *)

TrayRefused == trayError' = TRUE /\ UNCHANGED <<registered, tray>>

\* Mutant of TrayAdded: a new icon is not recorded.
TrayAddedUnrecorded == tray' = TRUE /\ trayError' = FALSE /\ UNCHANGED registered

\* NIM_ADD succeeds.
TrayAdded == tray' = TRUE /\ trayError' = FALSE /\ registered' = TRUE

\* NIM_DELETE: not of an icon that was never added.
TrayRemoved ==
    \/ ~registered /\ UNCHANGED <<registered, trayError, tray>>
    \/ registered /\ tray /\ tray' = FALSE /\ trayError' = FALSE /\ registered' = FALSE
    \/ registered /\ TrayRefused

\* refresh_icon, NIM_MODIFY: not without icons, nor of an icon never added.
RefreshTrayIcon ==
    /\ UNCHANGED <<icons, registered, tray>>
    /\ IF icons THEN trayError' \in (IF registered /\ tray THEN BOOLEAN ELSE {TRUE})
                ELSE UNCHANGED trayError

-----------------------------------------------------------------------------
(* Startup: on_init_dialog and the rest of run_main.                        *)

StartupRest == UNCHANGED <<usage, statusText, tracking, trayVars, idNamesTimer>>

\* on_init_dialog: the next page is initialised and its tab inserted; after the
\* last, the options are applied and the tab of the saved page selected.
InitPage ==
    /\ phase = "pages" /\ created' = created + 1
    /\ IF created' < PageCount
         THEN UNCHANGED <<phase, ui>>
         ELSE /\ phase' = "activate"
              /\ ui' = [UpdateMenuStates(ApplyOptions(ui)) EXCEPT !.tab = ui.page]
    /\ UNCHANGED <<posted, timer, timerId, faults>> /\ StartupRest

\* on_init_dialog: the saved page is activated and everything sized.
InitActivate ==
    /\ phase = "activate" /\ phase' = "timer"
    /\ \E set \in BOOLEAN :
         MaySet(set) /\ ui' = SizeActivePage(Activated(ui, ui.page, set), set)
    /\ UNCHANGED <<created, posted, timer, timerId>> /\ StartupRest

\* on_init_dialog: the update timer.
InitTimer ==
    /\ phase = "timer" /\ phase' = "show"
    /\ TimerReplaced(ui.opts.interval)
    /\ UNCHANGED <<created, ui, posted, faults>> /\ StartupRest

\* Any step of on_init_dialog can fail; run_main then destroys the window.
InitFails ==
    /\ phase \in {"pages", "activate", "timer"} /\ Fails
    /\ phase' = "failed"
    /\ UNCHANGED <<created, ui, posted, timer, timerId>> /\ StartupRest

\* run_main: the window is shown; one prewarm message per page and the deferred
\* initialisation are posted, each of which may fail.
ShowMain ==
    /\ phase = "show" /\ phase' = "running"
    /\ \/ posted' = [i \in 1..PageCount + 1 |-> i - 1] /\ UNCHANGED faults
       \/ /\ Fails
          /\ \E lost \in Pages \union {DeferredInit} :
               posted' = [i \in 1..PageCount |-> IF i <= lost THEN i - 1 ELSE i]
    /\ UNCHANGED <<created, ui, timer, timerId>> /\ StartupRest

-----------------------------------------------------------------------------
(* Handlers of the running window.                                          *)

Handled(kept) == phase = "running" /\ UNCHANGED <<phase, created, idNamesTimer, kept>>

TakePosted(m) == posted # <<>> /\ Head(posted) = m /\ posted' = Tail(posted)

\* prewarm_page: a hidden page is sized and given the options.
PrewarmPage ==
    /\ Handled(<<timer, timerId, statusVars, trayVars, faults>>)
    /\ \E p \in Pages :
         /\ TakePosted(p)
         /\ ui' = IF p = ui.page THEN ui
                  ELSE [ui EXCEPT !.applied[p] = ui.opts.noTitle,
                                  !.layout[p] = IF ui.opts.noTitle THEN "borderless"
                                                                   ELSE "framed"]

\* PWM_DEFERREDINIT: the tray icons are loaded, and the first is added, unless
\* either fails.
DeferInit ==
    /\ Handled(<<ui, timer, timerId, statusVars, faults>>)
    /\ TakePosted(DeferredInit)
    /\ \/ icons' = TRUE /\ (TrayAdded \/ TrayRefused)
       \/ UNCHANGED trayVars

\* activate_page with the tab control already moved to page p: it fails before
\* anything else if the window cannot be given its minimum size.
ActivatePage(p) ==
    LET u == [ui EXCEPT !.tab = p]
    IN  \/ /\ \E set \in BOOLEAN : MaySet(set) /\ ui' = Activated(u, p, set)
           /\ RefreshTrayIcon /\ RefreshStatusBar
        \/ /\ UsesNormalMinimum(ui, p) /\ Fails
           /\ ui' = u /\ UNCHANGED <<statusText, trayVars>>
        \/ /\ ~ui.opts.noTitle /\ Fails
           /\ ui' = NotActivated(u, p, TRUE) /\ UNCHANGED <<statusText, trayVars>>

ActivationRest == Handled(<<posted, timer, timerId, usage, tracking>>)

\* on_notify TCN_SELCHANGE: the tab control has selected page p.
TabSelected == ActivationRest /\ \E p \in Pages : ActivatePage(p)

\* The tabs after and before a page's.
NeighbourTabs(p) == {(p + 1) % PageCount, IF p = 0 THEN PageCount - 1 ELSE p - 1}

\* switch_tabs.
SwitchTabs == ActivationRest /\ \E p \in NeighbourTabs(ui.page) : ActivatePage(p)

\* on_find_process.
FindProcess == ActivationRest /\ ActivatePage(Processes)

\* toggle_no_title_mode.
ToggleNoTitle ==
    /\ Handled(<<posted, timer, timerId, statusVars, trayVars>>)
    /\ \E set \in BOOLEAN :
         /\ MaySet(set)
         /\ ui' = SizeActivePage(UpdateMenuStates(ApplyOptions(
                     [ui EXCEPT !.opts.noTitle = ~@])), set)

\* on_size: the active page is sized again.
Resize ==
    /\ Handled(<<posted, timer, timerId, statusVars, trayVars>>)
    /\ \E set \in BOOLEAN : MaySet(set) /\ ui' = SizeActivePage(ui, set)

\* on_command IDM_ALWAYSONTOP, for the options that only change check marks; in
\* no-title mode it comes from the tray's menu.
ToggleOption ==
    /\ Handled(<<posted, timer, timerId, statusVars, trayVars, faults>>)
    /\ ui' = UpdateMenuStates([ui EXCEPT !.opts.onTop = ~@])

\* on_command IDM_HIGH..IDM_PAUSED.
SetSpeed ==
    /\ Handled(<<posted, statusVars, trayVars>>)
    /\ \E i \in Intervals :
         \/ /\ TimerReplaced(i) /\ UNCHANGED faults
            /\ ui' = UpdateMenuStates([ui EXCEPT !.opts.interval = i])
         \/ TimerNotReplaced(i) /\ UNCHANGED ui

\* apply_system_sample: statistics, status bar and tray icon.
SampleApplied ==
    /\ Handled(<<ui, posted, timer, timerId, tracking, faults>>)
    /\ usage' \in Usages /\ RefreshTrayIcon /\ RefreshStatusBar

\* The shell restarts and no longer shows our icon.
ShellRestarts ==
    /\ Handled(<<ui, posted, timer, timerId, statusVars, icons, registered, trayError, faults>>)
    /\ tray /\ tray' = FALSE

\* on_menu_select of an item: the status bar shows its help.
MenuItem ==
    /\ Handled(<<ui, posted, timer, timerId, usage, statusText, trayVars, faults>>)
    /\ tracking' = TRUE

\* Mutant of MenuLeft: the status bar keeps the text from before the menu.
MenuLeftAsIs == tracking' = FALSE /\ UNCHANGED statusText

\* Tracking ends before the status bar is refreshed.
MenuLeft == tracking' = FALSE /\ statusText' = usage

\* on_menu_select of a closed menu, a separator or the system menu.
MenuClosed ==
    /\ Handled(<<ui, posted, timer, timerId, usage, trayVars, faults>>)
    /\ MenuLeft

\* KillTimer, and the destruction of the window behind it, end every timer.
StopTimer == timer' = 0 /\ timerId' = 0

\* WM_DESTROY, from WM_CLOSE, WM_ENDSESSION, IDM_EXIT, a broken message loop or a
\* failed startup: shutdown.  The menu is detached before the pages destroy it.
Shutdown ==
    /\ phase \in {"running", "failed"} /\ phase' = "closed"
    /\ StopTimer
    /\ ui' = [ui EXCEPT !.shown = {}, !.current = NoMenu,
                        !.menu = IF ui.current = NoMenu THEN @ ELSE NoMenu]
    /\ created' = 0 /\ posted' = <<>>
    /\ TrayRemoved /\ icons' = FALSE
    /\ UNCHANGED <<statusVars, idNamesTimer, faults>>

-----------------------------------------------------------------------------
Next == InitPage \/ InitActivate \/ InitTimer \/ InitFails \/ ShowMain
        \/ PrewarmPage \/ DeferInit \/ TabSelected \/ SwitchTabs \/ FindProcess
        \/ ToggleNoTitle \/ Resize \/ ToggleOption \/ SetSpeed \/ SampleApplied
        \/ ShellRestarts \/ MenuItem \/ MenuClosed \/ Shutdown

Spec == Init /\ [][Next]_vars

-----------------------------------------------------------------------------
(* Properties.                                                              *)

\* Variables keep to their ranges; the message queue holds prewarm and startup
\* messages only.
TypeOK ==
    /\ phase \in Phases /\ created \in 0..PageCount /\ ui \in Windows
    /\ posted \in Seq(Pages \union {DeferredInit})
    /\ timer \in Intervals \union {0} /\ timerId \in {0, 1} /\ idNamesTimer \in BOOLEAN
    /\ usage \in Usages /\ statusText \in Usages /\ tracking \in BOOLEAN
    /\ icons \in BOOLEAN /\ registered \in BOOLEAN /\ tray \in BOOLEAN
    /\ trayError \in BOOLEAN
    /\ faults \in 0..MaxFaults

\* Whatever fails while pages are switched, one page is visible, the page of the
\* options (never a blank window, mod.rs:1038), sized for the mode and told of it,
\* also if it was prewarmed in the other mode.
ShownPageIsReady ==
    phase \in {"timer", "show", "running"} =>
        /\ ui.shown = {ui.page}
        /\ ui.layout[ui.page] = IF ui.opts.noTitle THEN "borderless" ELSE "framed"
        /\ ui.applied[ui.page] = ui.opts.noTitle

\* The menu bar never shows the menu of a page other than the current one, nor
\* any in no-title mode, nor one that its page has destroyed.
MenuOfThePage ==
    /\ ui.menu \in {NoMenu, ui.page}
    /\ ui.menu # NoMenu => ui.menu < created /\ ~ui.opts.noTitle
    /\ phase = "running" => ui.current = ui.page
    /\ phase = "running" /\ faults = 0 /\ ~ui.opts.noTitle => ui.menu = ui.page

\* The check marks of the menu shown are those of the options (mod.rs:1125: they
\* never diverge), although every page has a menu of its own and options change
\* while it is detached.
MenuTellsOptions == ui.menu # NoMenu => ui.marks[ui.menu] = ui.opts

\* Without a tracked menu the status bar shows the last statistics, also those
\* that arrived while a menu had it.
StatusBarCurrent == ~tracking => statusText = usage

\* The menu, its marks and the status bar are those of the page, the options and
\* the statistics as they are now (PageHost, update_menu_states,
\* refresh_status_bar).
ScreenTellsTheState ==
    TypeOK /\ MenuOfThePage /\ MenuTellsOptions /\ StatusBarCurrent

\* However startup or the session ended, shutdown releases what was acquired: no
\* timer, page or attached menu is left, and a tray icon only if the shell has
\* refused to remove it, which the controller knows and has recorded (update_tray);
\* no icon is left because it was lost track of.
AllReleased ==
    phase = "closed" =>
      /\ timer = 0 /\ created = 0 /\ ui.shown = {} /\ ui.menu = NoMenu
      /\ tray => registered /\ trayError

\* The update speed in the options, whose mark the menu shows, is the one the
\* timer runs at (mod.rs:1125: marks and behaviour do not diverge).
TimerFollowsOptions == phase = "running" => timer = ui.opts.interval
=============================================================================
