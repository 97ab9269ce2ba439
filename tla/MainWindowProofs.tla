--------------------------- MODULE MainWindowProofs ---------------------------
(***************************************************************************)
(* The main window shows what it should and gives everything back: for     *)
(* every number of pages, every set of intervals and usages, and any       *)
(* number of failures of Win32 calls.                                      *)
(*                                                                         *)
(* What a page switch or a change of mode leaves behind depends only on    *)
(* the record ui, so the two steps every handler is built of have a lemma  *)
(* each, SizedFits and ActivatedFits; the inductive invariant adds to the  *)
(* properties what holds between them and the startup phases.              *)
(***************************************************************************)
EXTENDS MainWindow, TLAPS

\* The window has a current page: from on_init_dialog's activation on.
Up == {"timer", "show", "running"}

\* One page is visible, the page of the options, sized for the mode and told.
Ready(u) ==
    /\ u.shown = {u.page}
    /\ u.layout[u.page] = IF u.opts.noTitle THEN "borderless" ELSE "framed"
    /\ u.applied[u.page] = u.opts.noTitle

\* What is attached is the page's menu, with the marks of the options, and
\* nothing in no-title mode.
MenuFits(u) ==
    /\ u.menu \in {NoMenu, u.page}
    /\ u.menu # NoMenu => ~u.opts.noTitle /\ u.marks[u.menu] = u.opts

\* What the startup phases say of the pages and of the current menu.
StartupInv ==
    /\ phase = "pages" => created < PageCount
    /\ phase \in {"activate"} \union Up => created = PageCount
    /\ phase \in {"pages", "activate"} =>
         ui.shown = {} /\ ui.menu = NoMenu /\ ui.current = NoMenu
    /\ phase \in Up => ui.current = ui.page /\ Ready(ui)
    /\ ui.current = NoMenu => ui.menu = NoMenu

\* An attached menu exists; it is only missing after a failure or by the mode.
MenuInv ==
    /\ MenuFits(ui)
    /\ ui.menu # NoMenu => ui.menu < created
    /\ phase \in Up /\ faults = 0 /\ ~ui.opts.noTitle => ui.menu = ui.page

\* The inductive invariant.  AllReleased needs that the controller knows of an
\* icon the shell shows, although it may know of one that is gone.
IInv == /\ TypeOK /\ StartupInv /\ MenuInv /\ StatusBarCurrent
        /\ (tray => registered) /\ AllReleased

-----------------------------------------------------------------------------
(* The shared steps.                                                        *)

\* Only layouts, marks and the attached menu may differ.
Keeps(v, u) ==
    /\ v.page = u.page /\ v.tab = u.tab /\ v.shown = u.shown
    /\ v.current = u.current /\ v.opts = u.opts /\ v.applied = u.applied

\* A null menu is no page's.
LEMMA NoMenuIsNoPage == NoMenu \notin Pages /\ 0 \in Pages
BY MainWindowAssumption DEF NoMenu, Pages

\* update_menu_states changes marks only, and those of the attached menu agree
\* with the options afterwards.
LEMMA MarksUpdated ==
  ASSUME NEW u \in Windows
  PROVE  LET m == UpdateMenuStates(u)
         IN  /\ m \in Windows
             /\ Keeps(m, u) /\ m.menu = u.menu /\ m.layout = u.layout
             /\ u.menu # NoMenu => m.marks[u.menu] = u.opts
<1>1. CASE u.menu = NoMenu
  BY <1>1 DEF UpdateMenuStates, Keeps
<1>2. CASE u.menu # NoMenu
  <2>1. u.menu \in Pages
    BY <1>2 DEF Windows
  <2>2. UpdateMenuStates(u) = [u EXCEPT !.marks[u.menu] = u.opts]
    BY <1>2 DEF UpdateMenuStates
  <2> QED
    BY <1>2, <2>1, <2>2 DEF Windows, Keeps
<1> QED BY <1>1, <1>2

\* size_active_page leaves the page sized for the mode and its own menu, or none,
\* attached; none at all in no-title mode, and the menu unless SetMenu fails.
LEMMA SizedFits ==
  ASSUME NEW u \in Windows, u.current = u.page, NEW set \in BOOLEAN,
         ~u.opts.noTitle => u.menu \in {NoMenu, u.page}
  PROVE  LET s == SizeActivePage(u, set)
         IN  /\ s \in Windows /\ MenuFits(s)
             /\ Keeps(s, u)
             /\ s.layout[u.page] = IF u.opts.noTitle THEN "borderless" ELSE "framed"
             /\ set /\ ~u.opts.noTitle => s.menu = u.page
<1>1. u.page \in Pages /\ u.opts \in Options /\ u.opts.noTitle \in BOOLEAN
  BY DEF Windows, Options
<1>2. CASE u.opts.noTitle
  <2>1. SizeActivePage(u, set) = [u EXCEPT !.layout[u.page] = "borderless", !.menu = NoMenu]
    BY <1>2 DEF SizeActivePage
  <2> DEFINE f == [u EXCEPT !.layout[u.page] = "borderless"]
  <2>0. f \in Windows /\ SizeActivePage(u, set) = [f EXCEPT !.menu = NoMenu]
    BY <1>1, <2>1 DEF Windows, Layouts
  <2> HIDE DEF f
  <2>2. SizeActivePage(u, set) \in Windows
    BY <2>0 DEF Windows
  <2>3. /\ Keeps(SizeActivePage(u, set), u) /\ SizeActivePage(u, set).menu = NoMenu
        /\ SizeActivePage(u, set).layout[u.page] = "borderless"
    BY <1>1, <2>1 DEF Windows, Keeps
  <2> QED
    BY <1>2, <2>2, <2>3 DEF MenuFits
<1>3. CASE ~u.opts.noTitle
  <2> DEFINE f == [u EXCEPT !.layout[u.page] = "framed"]
             g == IF set THEN [f EXCEPT !.menu = f.current] ELSE f
  <2>1. f \in Windows /\ f.current = u.page /\ f.page = u.page
    BY <1>1 DEF Windows, Layouts
  <2>2. SizeActivePage(u, set) = UpdateMenuStates(g)
    BY <1>1, <1>3, <2>1, NoMenuIsNoPage DEF SizeActivePage, FrameMenu
  <2>3. /\ g \in Windows /\ Keeps(g, u)
        /\ g.layout[u.page] = "framed" /\ g.menu \in {NoMenu, u.page}
        /\ set => g.menu = u.page
    BY <1>1, <1>3, <2>1 DEF Windows, Layouts, Keeps
  <2> HIDE DEF g
  <2>4. /\ UpdateMenuStates(g) \in Windows
        /\ Keeps(UpdateMenuStates(g), g) /\ UpdateMenuStates(g).menu = g.menu
        /\ UpdateMenuStates(g).layout = g.layout
        /\ g.menu # NoMenu => UpdateMenuStates(g).marks[g.menu] = g.opts
    BY <2>3, MarksUpdated
  <2> QED
    BY <1>3, <2>2, <2>3, <2>4 DEF MenuFits, Keeps
<1> QED BY <1>1, <1>2, <1>3

\* activate_page that succeeds: whatever was attached, the new page has the menu,
\* is alone visible and ready.
LEMMA ActivatedFits ==
  ASSUME NEW u \in Windows, u.shown \subseteq {u.page}, NEW p \in Pages, NEW set \in BOOLEAN
  PROVE  LET a == Activated(u, p, set)
         IN  /\ a \in Windows /\ Ready(a) /\ MenuFits(a)
             /\ a.page = p /\ a.current = p /\ a.opts = u.opts
             /\ set /\ ~u.opts.noTitle => a.menu = p
<1> DEFINE a == PageActivate(u, p)
           h == [a EXCEPT !.shown = @ \ (IF u.page = p THEN {} ELSE HidePrevious(u)),
                          !.page = p]
           m == UpdateMenuStates(h)
           s == SizeActivePage(m, set)
<1>1. u.page \in Pages /\ u.opts \in Options /\ u.opts.noTitle \in BOOLEAN
  BY DEF Windows, Options
<1>2. /\ a \in Windows /\ a.current = p /\ a.opts = u.opts /\ a.shown = u.shown
      /\ a.applied[p] = u.opts.noTitle
      /\ ~u.opts.noTitle => a.menu = p
  BY <1>1 DEF PageActivate, Windows
<1> HIDE DEF a
<1>3. /\ h \in Windows /\ h.current = p /\ h.opts = u.opts /\ h.page = p
      /\ h.shown \subseteq {p} /\ h.applied[p] = u.opts.noTitle
      /\ ~u.opts.noTitle => h.menu = p
  <2> DEFINE out == a.shown \ (IF u.page = p THEN {} ELSE HidePrevious(u))
  <2>1. out \in SUBSET Pages /\ out \subseteq {p}
    BY <1>2 DEF Windows, HidePrevious
  <2> HIDE DEF out
  <2>2. h = [[a EXCEPT !.shown = out] EXCEPT !.page = p]
    BY <1>2 DEF out, Windows
  <2>3. [a EXCEPT !.shown = out] \in Windows
    BY <1>2, <2>1 DEF Windows
  <2>4. h \in Windows
    BY <2>2, <2>3 DEF Windows
  <2>5. /\ h.current = a.current /\ h.opts = a.opts /\ h.page = p /\ h.shown = out
        /\ h.applied = a.applied /\ h.menu = a.menu
    BY <1>2, <2>2 DEF Windows
  <2> QED BY <1>2, <2>1, <2>4, <2>5
<1> HIDE DEF h
<1>4. m \in Windows /\ Keeps(m, h) /\ m.menu = h.menu
  BY <1>3, MarksUpdated
<1>5. /\ m.current = p /\ m.opts = u.opts /\ m.page = p
      /\ m.shown \subseteq {p} /\ m.applied[p] = u.opts.noTitle
      /\ ~u.opts.noTitle => m.menu = p
  BY <1>3, <1>4 DEF Keeps
<1> HIDE DEF m
<1>6. /\ s \in Windows /\ MenuFits(s) /\ Keeps(s, m)
      /\ s.layout[p] = IF u.opts.noTitle THEN "borderless" ELSE "framed"
      /\ set /\ ~u.opts.noTitle => s.menu = p
  BY <1>4, <1>5, SizedFits
<1> HIDE DEF s
<1>7. /\ s.current = p /\ s.opts = u.opts /\ s.page = p
      /\ s.shown \subseteq {p} /\ s.applied[p] = u.opts.noTitle
  BY <1>5, <1>6 DEF Keeps
<1>8. Activated(u, p, set) = [s EXCEPT !.shown = @ \union {p}]
  BY DEF Activated, s, m, h, a
<1>9. s.shown \union {p} = {p}
  BY <1>7
<1> QED
  BY <1>6, <1>7, <1>8, <1>9 DEF Windows, Ready, MenuFits

\* activate_page whose SetMenu fails: the page shown so far stays, and fits.
LEMMA NotActivatedFits ==
  ASSUME NEW u \in Windows, u.current = u.page, Ready(u), MenuFits(u), NEW p \in Pages
  PROVE  LET n == NotActivated(u, p, TRUE)
         IN  /\ n \in Windows /\ Ready(n) /\ MenuFits(n)
             /\ n.page = u.page /\ n.current = u.page /\ n.opts = u.opts
<1>1. CASE u.page = p
  BY <1>1 DEF NotActivated
<1>2. CASE u.page # p
  <2> DEFINE b == [u EXCEPT !.tab = u.page]
             m == UpdateMenuStates(b)
             s == SizeActivePage(m, TRUE)
  <2>1. u.page \in Pages
    BY DEF Windows
  <2>2. /\ b \in Windows /\ b.current = u.page /\ b.page = u.page /\ b.opts = u.opts
        /\ b.shown = u.shown /\ b.applied = u.applied /\ b.menu = u.menu
    BY <2>1 DEF Windows
  <2> HIDE DEF b
  <2>3. m \in Windows /\ Keeps(m, b) /\ m.menu = b.menu
    BY <2>2, MarksUpdated
  <2>4. /\ m.current = u.page /\ m.page = u.page /\ m.opts = u.opts /\ m.menu = u.menu
        /\ m.shown = u.shown /\ m.applied = u.applied
    BY <2>2, <2>3 DEF Keeps
  <2> HIDE DEF m
  <2>8. m.current = m.page /\ m.menu \in {NoMenu, m.page} /\ m \in Windows
    BY <2>3, <2>4 DEF MenuFits
  <2>9. /\ s \in Windows /\ MenuFits(s) /\ Keeps(s, m)
        /\ s.layout[m.page] = IF m.opts.noTitle THEN "borderless" ELSE "framed"
    BY <2>8, SizedFits
  <2> HIDE DEF s
  <2>5. /\ s \in Windows /\ MenuFits(s) /\ Keeps(s, m)
        /\ s.layout[u.page] = IF u.opts.noTitle THEN "borderless" ELSE "framed"
    BY <2>4, <2>9
  <2>6. NotActivated(u, p, TRUE) = s
    BY <1>2 DEF NotActivated, s, m, b
  <2>7. /\ s.current = u.page /\ s.page = u.page /\ s.opts = u.opts
        /\ s.shown = u.shown /\ s.applied = u.applied
    BY <2>4, <2>5 DEF Keeps
  <2> QED
    BY <2>5, <2>6, <2>7 DEF Ready
<1> QED BY <1>1, <1>2

-----------------------------------------------------------------------------
(* The handlers of the running window.                                      *)

\* A handler keeps the invariant if the window it leaves is ready and its menu
\* fits.
LEMMA RunningKept ==
  ASSUME IInv, phase = "running", phase' = phase, created' = created,
         ui' \in Windows, ui'.current = ui'.page, Ready(ui)', MenuFits(ui)',
         faults' = 0 /\ ~ui'.opts.noTitle => ui'.menu = ui'.page
  PROVE  StartupInv' /\ MenuInv' /\ AllReleased'
<1>1. ui'.page \in Pages /\ created = PageCount
  BY DEF IInv, StartupInv, Windows, Up
<1>2. ui'.current # NoMenu
  BY <1>1, NoMenuIsNoPage
<1>3. StartupInv'
  BY <1>1, <1>2 DEF StartupInv, Up
<1>4. ui'.menu # NoMenu => ui'.menu < PageCount
  BY <1>1, MainWindowAssumption DEF MenuFits, Pages, NoMenu
<1>5. MenuInv'
  BY <1>1, <1>4 DEF MenuInv
<1> QED
  BY <1>3, <1>5 DEF AllReleased

\* What a running window is before a handler.
LEMMA Running ==
  ASSUME IInv, phase = "running"
  PROVE  /\ ui \in Windows /\ ui.page \in Pages /\ ui.current = ui.page
         /\ Ready(ui) /\ MenuFits(ui) /\ ui.current # NoMenu
         /\ faults = 0 /\ ~ui.opts.noTitle => ui.menu = ui.page
         /\ faults \in Nat /\ ui.opts \in Options
BY NoMenuIsNoPage, MainWindowAssumption
   DEF IInv, StartupInv, MenuInv, TypeOK, Windows, Up, Pages

\* A step that fails is counted, one that does not leaves the count.
LEMMA FaultsCounted ==
  ASSUME TypeOK, NEW set \in BOOLEAN, MaySet(set)
  PROVE  faults' \in 0..MaxFaults /\ (faults' = 0 => set /\ faults = 0)
BY MainWindowAssumption DEF TypeOK, MaySet, Fails

\* activate_page, whichever way it ends: a page is shown, with its own menu.
LEMMA ActivationKeeps ==
  ASSUME IInv, phase = "running", phase' = phase, created' = created,
         NEW p \in Pages, ActivatePage(p), UNCHANGED <<usage, tracking>>
  PROVE  /\ StartupInv' /\ MenuInv' /\ AllReleased' /\ StatusBarCurrent'
         /\ ui' \in Windows /\ statusText' \in Usages /\ faults' \in 0..MaxFaults
<1> DEFINE u == [ui EXCEPT !.tab = p]
<1>1. /\ u \in Windows /\ u.shown = ui.shown /\ u.page = ui.page /\ u.current = ui.current
      /\ u.opts = ui.opts /\ u.menu = ui.menu /\ Ready(u) /\ MenuFits(u)
  <2>1. u \in Windows
    BY Running DEF Windows
  <2>2. /\ u.shown = ui.shown /\ u.page = ui.page /\ u.current = ui.current
        /\ u.opts = ui.opts /\ u.menu = ui.menu /\ u.marks = ui.marks
        /\ u.layout = ui.layout /\ u.applied = ui.applied
    BY Running DEF Windows
  <2> QED
    BY <2>1, <2>2, Running DEF Ready, MenuFits
<1> HIDE DEF u
<1>T. usage \in Usages /\ statusText \in Usages /\ faults \in 0..MaxFaults /\ MaxFaults \in Nat
      /\ StatusBarCurrent /\ TypeOK
  BY MainWindowAssumption DEF IInv, TypeOK
<1>2. CASE \E set \in BOOLEAN : MaySet(set) /\ ui' = Activated(u, p, set) /\ RefreshStatusBar
  <2>1. PICK set \in BOOLEAN : MaySet(set) /\ ui' = Activated(u, p, set)
    BY <1>2
  <2>2. faults' \in 0..MaxFaults /\ (faults' = 0 => set)
    BY <2>1, <1>T, FaultsCounted
  <2>3. /\ ui' \in Windows /\ Ready(ui') /\ MenuFits(ui') /\ ui'.page = p /\ ui'.current = p
        /\ ui'.opts = u.opts /\ (set /\ ~u.opts.noTitle => ui'.menu = p)
    BY <2>1, <1>1, Running, ActivatedFits DEF Ready
  <2>4. StartupInv' /\ MenuInv' /\ AllReleased'
    BY <2>2, <2>3, RunningKept DEF Ready, MenuFits
  <2>5. statusText' \in Usages /\ StatusBarCurrent'
    BY <1>2, <1>T DEF RefreshStatusBar, StatusBarCurrent
  <2> QED BY <2>2, <2>3, <2>4, <2>5
<1>3. CASE Fails /\ ui' = u /\ UNCHANGED statusText
  <2>1. faults' \in 0..MaxFaults /\ faults' # 0
    BY <1>3, <1>T DEF Fails
  <2>2. Ready(ui') /\ MenuFits(ui')
    BY <1>1, <1>3
  <2>3. StartupInv' /\ MenuInv' /\ AllReleased'
    BY <1>1, <1>3, <2>1, <2>2, Running, RunningKept DEF Ready, MenuFits
  <2> QED BY <1>1, <1>3, <1>T, <2>1, <2>3 DEF StatusBarCurrent
<1>4. CASE Fails /\ ui' = NotActivated(u, p, TRUE) /\ UNCHANGED statusText
  <2>1. faults' \in 0..MaxFaults /\ faults' # 0
    BY <1>4, <1>T DEF Fails
  <2>2. /\ ui' \in Windows /\ Ready(ui') /\ MenuFits(ui')
        /\ ui'.page = u.page /\ ui'.current = u.page
    BY <1>1, <1>4, Running, NotActivatedFits
  <2>3. StartupInv' /\ MenuInv' /\ AllReleased'
    BY <2>1, <2>2, RunningKept DEF Ready, MenuFits
  <2> QED BY <1>4, <1>T, <2>1, <2>2, <2>3 DEF StatusBarCurrent
<1> QED
  BY <1>2, <1>3, <1>4 DEF ActivatePage, u

\* Sizing a window whose options may just have changed, with the marks not yet
\* following them.
LEMMA SizingKeeps ==
  ASSUME IInv, phase = "running", phase' = phase, created' = created,
         NEW u \in Windows, u.current = u.page, u.menu \in {NoMenu, u.page},
         u.shown = {u.page}, u.applied[u.page] = u.opts.noTitle,
         NEW set \in BOOLEAN, MaySet(set), ui' = SizeActivePage(u, set)
  PROVE  /\ StartupInv' /\ MenuInv' /\ AllReleased'
         /\ ui' \in Windows /\ faults' \in 0..MaxFaults
<1>1. /\ ui' \in Windows /\ MenuFits(ui') /\ Keeps(ui', u)
      /\ ui'.layout[u.page] = IF u.opts.noTitle THEN "borderless" ELSE "framed"
      /\ (set /\ ~u.opts.noTitle => ui'.menu = u.page)
  BY SizedFits
<1>2. Ready(ui')
  BY <1>1 DEF Ready, Keeps
<1>3. faults' \in 0..MaxFaults /\ (faults' = 0 => set)
  BY FaultsCounted DEF IInv
<1>4. /\ ui'.current = ui'.page
      /\ (faults' = 0 /\ ~ui'.opts.noTitle => ui'.menu = ui'.page)
  BY <1>1, <1>3 DEF Keeps
<1> QED
  BY <1>1, <1>2, <1>3, <1>4, RunningKept DEF Ready, MenuFits

-----------------------------------------------------------------------------
(* The invariant.                                                           *)

LEMMA InitImpliesIInv == Init => IInv
<1> SUFFICES ASSUME Init PROVE IInv
  OBVIOUS
<1>1. PICK o \in Options, p \in Pages :
        ui = [page |-> p, tab |-> 0, shown |-> {}, menu |-> NoMenu,
              current |-> NoMenu, opts |-> o, marks |-> [q \in Pages |-> o],
              applied |-> [q \in Pages |-> FALSE],
              layout |-> [q \in Pages |-> "template"]]
  BY DEF Init
<1>2. ui \in Windows
  BY <1>1, NoMenuIsNoPage DEF Windows, Layouts
<1>3. ui.shown = {} /\ ui.menu = NoMenu /\ ui.current = NoMenu
  BY <1>1
<1>4. /\ phase = "pages" /\ created = 0 /\ posted = <<>>
      /\ timer = 0 /\ timerId = 0 /\ idNamesTimer \in BOOLEAN
      /\ usage = 0 /\ statusText = 0 /\ tracking = FALSE
      /\ icons = FALSE /\ registered = FALSE /\ trayError = FALSE /\ tray = FALSE
      /\ faults = 0
  BY DEF Init
<1>5. PageCount \in Nat /\ 0 < PageCount /\ MaxFaults \in Nat /\ 0 \in Usages
  BY MainWindowAssumption
<1>6. posted \in Seq(Pages \union {DeferredInit})
  BY <1>4
<1>7. TypeOK
  <2>1. created \in 0..PageCount /\ faults \in 0..MaxFaults
    BY <1>4, <1>5
  <2>2. phase \in Phases /\ timer \in Intervals \union {0} /\ timerId \in {0, 1}
    BY <1>4 DEF Phases
  <2>3. /\ usage \in Usages /\ statusText \in Usages /\ tracking \in BOOLEAN
        /\ icons \in BOOLEAN /\ registered \in BOOLEAN /\ tray \in BOOLEAN
        /\ trayError \in BOOLEAN
    BY <1>4, <1>5
  <2> QED
    BY <1>2, <1>4, <1>6, <2>1, <2>2, <2>3 DEF TypeOK
<1>8. StartupInv
  BY <1>3, <1>4, <1>5 DEF StartupInv, Up
<1>10. MenuInv
  BY <1>3, <1>4 DEF MenuInv, MenuFits, Up
<1>9. StatusBarCurrent /\ (tray => registered) /\ AllReleased
  BY <1>4 DEF StatusBarCurrent, AllReleased
<1> QED
  BY <1>7, <1>8, <1>9, <1>10 DEF IInv

\* replace_update_timer leaves a timer of some interval, or none.
LEMMA TimerTyped ==
  ASSUME TypeOK, NEW i \in Intervals, TimerReplaced(i) \/ TimerNotReplaced(i)
  PROVE  timer' \in Intervals \union {0} /\ timerId' \in {0, 1}
BY DEF TypeOK, TimerReplaced, TimerNotReplaced, Killable

\* Startup.
LEMMA StartupKeeps ==
  ASSUME IInv, InitPage \/ InitActivate \/ InitTimer \/ InitFails \/ ShowMain
  PROVE  IInv'
<1>0. /\ TypeOK /\ ui \in Windows /\ ui.page \in Pages /\ ui.opts.interval \in Intervals
      /\ faults \in Nat /\ PageCount \in Nat \ {0} /\ MaxFaults \in Nat
  BY MainWindowAssumption DEF IInv, TypeOK, Windows, Options
<1>S. UNCHANGED <<usage, statusText, tracking, trayVars>> => StatusBarCurrent' /\ (tray' => registered')
  BY DEF IInv, StatusBarCurrent, trayVars
<1>1. CASE InitPage
  <2>1. created' \in 1..PageCount /\ phase = "pages"
    BY <1>0, <1>1 DEF InitPage, IInv, StartupInv, TypeOK
  <2>2. ui.shown = {} /\ ui.menu = NoMenu /\ ui.current = NoMenu
    BY <2>1 DEF IInv, StartupInv
  <2>3. CASE created' < PageCount
    <3>1. UNCHANGED <<phase, ui>>
      BY <1>1, <2>3 DEF InitPage
    <3>2. TypeOK'
      BY <1>0, <1>1, <2>1, <3>1 DEF InitPage, StartupRest, TypeOK, trayVars
    <3> QED
      BY <1>1, <1>S, <2>1, <2>2, <2>3, <3>1, <3>2
         DEF InitPage, StartupRest, IInv, StartupInv, MenuInv, MenuFits, AllReleased, Up
  <2>4. CASE ~(created' < PageCount)
    <3> DEFINE a == ApplyOptions(ui)
    <3>1. phase' = "activate" /\ ui' = [UpdateMenuStates(a) EXCEPT !.tab = ui.page]
      BY <1>1, <2>4 DEF InitPage
    <3>2. a \in Windows /\ a.shown = {} /\ a.menu = NoMenu /\ a.current = NoMenu
      BY <1>0, <2>2 DEF ApplyOptions, Windows, Options
    <3> HIDE DEF a
    <3>3. UpdateMenuStates(a) = a
      BY <3>2 DEF UpdateMenuStates
    <3>4. ui' \in Windows /\ ui'.shown = {} /\ ui'.menu = NoMenu /\ ui'.current = NoMenu
      BY <1>0, <3>1, <3>2, <3>3 DEF Windows
    <3>5. TypeOK'
      BY <1>0, <1>1, <2>1, <3>1, <3>4 DEF InitPage, StartupRest, TypeOK, trayVars, Phases
    <3>6. created' = PageCount
      BY <1>0, <2>1, <2>4
    <3>7. StartupInv' /\ MenuInv' /\ AllReleased'
      BY <3>1, <3>4, <3>6 DEF StartupInv, MenuInv, MenuFits, AllReleased, Up
    <3> QED
      BY <1>1, <1>S, <3>5, <3>7 DEF InitPage, StartupRest, IInv
  <2> QED BY <2>3, <2>4
<1>2. CASE InitActivate
  <2>1. PICK set \in BOOLEAN :
          MaySet(set) /\ ui' = SizeActivePage(Activated(ui, ui.page, set), set)
    BY <1>2 DEF InitActivate
  <2> DEFINE a == Activated(ui, ui.page, set)
  <2>2. ui.shown = {} /\ created = PageCount
    BY <1>2 DEF InitActivate, IInv, StartupInv
  <2>3. /\ a \in Windows /\ Ready(a) /\ MenuFits(a) /\ a.page = ui.page /\ a.current = a.page
    BY <1>0, <2>2, ActivatedFits
  <2> HIDE DEF a
  <2>4. /\ ui' \in Windows /\ MenuFits(ui') /\ Keeps(ui', a)
        /\ ui'.layout[a.page] = IF a.opts.noTitle THEN "borderless" ELSE "framed"
        /\ (set /\ ~a.opts.noTitle => ui'.menu = a.page)
    BY <2>1, <2>3, SizedFits DEF a, MenuFits
  <2>5. Ready(ui') /\ ui'.current = ui'.page /\ ui'.page \in Pages
    BY <1>0, <2>3, <2>4 DEF Ready, Keeps
  <2>6. faults' \in 0..MaxFaults /\ (faults' = 0 => set)
    BY <1>0, <2>1, FaultsCounted
  <2>7. TypeOK'
    BY <1>0, <1>2, <2>4, <2>6 DEF InitActivate, StartupRest, TypeOK, trayVars, Phases
  <2>8. phase' = "timer" /\ created' = PageCount
    BY <1>2, <2>2 DEF InitActivate
  <2>9. StartupInv'
    BY <2>5, <2>8, NoMenuIsNoPage DEF StartupInv, Ready, Up
  <2>10. (ui'.menu # NoMenu => ui'.menu < PageCount)
    BY <1>0, <2>4, <2>5 DEF MenuFits, Pages
  <2>11. MenuInv'
    BY <2>3, <2>4, <2>6, <2>8, <2>10 DEF MenuInv, MenuFits, Keeps
  <2> QED
    BY <1>2, <1>S, <2>7, <2>8, <2>9, <2>11 DEF InitActivate, StartupRest, IInv, AllReleased
<1>3. CASE InitTimer
  <2>1. TypeOK'
    BY <1>0, <1>3, TimerTyped DEF InitTimer, StartupRest, TypeOK, trayVars, Phases
  <2>2. StartupInv' /\ MenuInv' /\ AllReleased'
    BY <1>3 DEF InitTimer, IInv, StartupInv, MenuInv, MenuFits, Ready, AllReleased, Up
  <2> QED BY <1>3, <1>S, <2>1, <2>2 DEF InitTimer, StartupRest, IInv
<1>4. CASE InitFails
  <2>1. TypeOK'
    BY <1>0, <1>4 DEF InitFails, StartupRest, Fails, TypeOK, trayVars, Phases
  <2>2. StartupInv' /\ MenuInv' /\ AllReleased'
    BY <1>4 DEF InitFails, IInv, StartupInv, MenuInv, MenuFits, Ready, AllReleased, Up
  <2> QED BY <1>4, <1>S, <2>1, <2>2 DEF InitFails, StartupRest, IInv
<1>5. CASE ShowMain
  <2>1. posted' \in Seq(Pages \union {DeferredInit}) /\ faults' \in 0..MaxFaults
    <3>1. CASE posted' = [i \in 1..PageCount + 1 |-> i - 1] /\ UNCHANGED faults
      <4>1. \A i \in 1..PageCount + 1 : i - 1 \in Pages \union {DeferredInit}
        BY <1>0 DEF Pages, DeferredInit
      <4> QED BY <1>0, <3>1, <4>1 DEF TypeOK
    <3>2. CASE /\ Fails
               /\ \E lost \in Pages \union {DeferredInit} :
                    posted' = [i \in 1..PageCount |-> IF i <= lost THEN i - 1 ELSE i]
      <4>1. PICK lost \in Pages \union {DeferredInit} :
              posted' = [i \in 1..PageCount |-> IF i <= lost THEN i - 1 ELSE i]
        BY <3>2
      <4>2. \A i \in 1..PageCount : (IF i <= lost THEN i - 1 ELSE i) \in Pages \union {DeferredInit}
        BY <1>0 DEF Pages, DeferredInit
      <4> QED BY <1>0, <3>2, <4>1, <4>2 DEF TypeOK, Fails
    <3> QED BY <1>5, <3>1, <3>2 DEF ShowMain
  <2>2. TypeOK'
    BY <1>0, <1>5, <2>1 DEF ShowMain, StartupRest, TypeOK, trayVars, Phases
  <2>3. faults' = 0 => faults = 0
    BY <1>0, <1>5 DEF ShowMain, Fails
  <2>4. StartupInv' /\ MenuInv' /\ AllReleased'
    BY <1>5, <2>3 DEF ShowMain, IInv, StartupInv, MenuInv, MenuFits, Ready, AllReleased, Up
  <2> QED BY <1>5, <1>S, <2>2, <2>4 DEF ShowMain, StartupRest, IInv
<1> QED BY <1>1, <1>2, <1>3, <1>4, <1>5

\* A step leaves no icon that the controller does not know of.
TrayKept ==
    /\ icons' \in BOOLEAN /\ registered' \in BOOLEAN /\ tray' \in BOOLEAN
    /\ trayError' \in BOOLEAN /\ (tray' => registered')

\* refresh_icon.
LEMMA TrayRefreshed ==
  ASSUME IInv, RefreshTrayIcon
  PROVE  TrayKept
BY DEF RefreshTrayIcon, IInv, TypeOK, TrayKept

\* Nothing happens to the icon.
LEMMA TraySame ==
  ASSUME IInv, UNCHANGED trayVars
  PROVE  TrayKept
<1>1. /\ icons' = icons /\ registered' = registered /\ trayError' = trayError /\ tray' = tray
  BY DEF trayVars
<1>2. /\ icons \in BOOLEAN /\ registered \in BOOLEAN /\ tray \in BOOLEAN
      /\ trayError \in BOOLEAN /\ (tray => registered)
  BY DEF IInv, TypeOK
<1> QED BY <1>1, <1>2 DEF TrayKept

\* Handlers that switch pages.
LEMMA SwitchingKeeps ==
  ASSUME IInv, TabSelected \/ SwitchTabs \/ FindProcess
  PROVE  IInv'
<1>1. /\ phase = "running" /\ phase' = phase /\ created' = created
      /\ UNCHANGED <<posted, timer, timerId, usage, tracking, idNamesTimer>>
  BY DEF TabSelected, SwitchTabs, FindProcess, ActivationRest, Handled
<1>2. PICK p \in Pages : ActivatePage(p)
  <2>1. ui.page \in Pages => NeighbourTabs(ui.page) \subseteq Pages
    BY MainWindowAssumption DEF NeighbourTabs, Pages
  <2>2. ui.page \in Pages
    BY <1>1, Running
  <2> QED
    BY <2>1, <2>2, MainWindowAssumption DEF TabSelected, SwitchTabs, FindProcess
<1>3. /\ StartupInv' /\ MenuInv' /\ AllReleased' /\ StatusBarCurrent'
      /\ ui' \in Windows /\ statusText' \in Usages /\ faults' \in 0..MaxFaults
  BY <1>1, <1>2, ActivationKeeps
<1>5. TrayKept
  <2>1. RefreshTrayIcon \/ UNCHANGED trayVars
    BY <1>2 DEF ActivatePage
  <2> QED BY <2>1, TrayRefreshed, TraySame
<1>4. TypeOK'
  BY <1>1, <1>3, <1>5 DEF IInv, TypeOK, TrayKept
<1> QED
  BY <1>1, <1>3, <1>4, <1>5 DEF IInv, TrayKept

\* Handlers that change the options or size the window.
LEMMA OptionsKeep ==
  ASSUME IInv, ToggleNoTitle \/ Resize \/ ToggleOption \/ SetSpeed
  PROVE  IInv'
<1>1. /\ phase = "running" /\ phase' = phase /\ created' = created
      /\ UNCHANGED <<posted, statusVars, trayVars, idNamesTimer>>
  BY DEF ToggleNoTitle, Resize, ToggleOption, SetSpeed, Handled
<1>2. /\ ui \in Windows /\ ui.page \in Pages /\ ui.current = ui.page /\ Ready(ui) /\ MenuFits(ui)
      /\ ui.opts \in Options /\ TypeOK /\ faults \in 0..MaxFaults /\ MaxFaults \in Nat
      /\ ui.menu \in {NoMenu, ui.page}
  BY <1>1, Running, MainWindowAssumption DEF IInv, TypeOK, MenuFits
<1>R. ASSUME StartupInv', MenuInv', AllReleased', ui' \in Windows, faults' \in 0..MaxFaults,
             timer' \in Intervals \union {0}, timerId' \in {0, 1}
      PROVE  IInv'
  <2>2. phase' \in Phases /\ created' \in 0..PageCount /\ ui' \in Windows
    BY <1>1, <1>2, <1>R DEF TypeOK
  <2>3. /\ posted' \in Seq(Pages \union {DeferredInit})
        /\ idNamesTimer' \in BOOLEAN /\ usage' \in Usages /\ statusText' \in Usages
        /\ tracking' \in BOOLEAN
    BY <1>1, <1>2 DEF TypeOK, statusVars
  <2>4. /\ icons' \in BOOLEAN /\ registered' \in BOOLEAN /\ tray' \in BOOLEAN
        /\ trayError' \in BOOLEAN
    BY <1>1, <1>2 DEF TypeOK, trayVars
  <2>1. TypeOK'
    BY <1>R, <2>2, <2>3, <2>4 DEF TypeOK
  <2> QED BY <1>1, <1>R, <2>1 DEF IInv, StatusBarCurrent, statusVars, trayVars
<1>T. timer \in Intervals \union {0} /\ timerId \in {0, 1}
  BY <1>2 DEF TypeOK
<1>M. ASSUME NEW o \in Options, o.noTitle = ui.opts.noTitle, UNCHANGED faults,
             ui' = UpdateMenuStates([ui EXCEPT !.opts = o])
      PROVE  StartupInv' /\ MenuInv' /\ AllReleased' /\ ui' \in Windows /\ faults' \in 0..MaxFaults
  <2> DEFINE u == [ui EXCEPT !.opts = o]
  <2>1. u \in Windows
    BY <1>2, <1>M DEF Windows
  <2>2. /\ u.page = ui.page /\ u.current = ui.current /\ u.menu = ui.menu /\ u.shown = ui.shown
        /\ u.layout = ui.layout /\ u.applied = ui.applied /\ u.opts = o
    BY <1>2, <1>M DEF Windows
  <2> HIDE DEF u
  <2>3. /\ ui' \in Windows /\ Keeps(ui', u) /\ ui'.menu = u.menu /\ ui'.layout = u.layout
        /\ (u.menu # NoMenu => ui'.marks[u.menu] = u.opts)
    BY <1>M, <2>1, MarksUpdated DEF u
  <2>4. /\ ui'.page = ui.page /\ ui'.current = ui.page /\ ui'.opts = o /\ ui'.shown = ui.shown
        /\ ui'.layout = ui.layout /\ ui'.applied = ui.applied /\ ui'.menu = ui.menu
    BY <1>2, <2>2, <2>3 DEF Keeps
  <2>5. Ready(ui') /\ MenuFits(ui')
    BY <1>2, <1>M, <2>2, <2>3, <2>4 DEF Ready, MenuFits
  <2>6. faults = 0 /\ ~ui.opts.noTitle => ui.menu = ui.page
    BY <1>1, Running
  <2>7. faults' = 0 /\ ~ui'.opts.noTitle => ui'.menu = ui'.page
    BY <1>M, <2>4, <2>6
  <2> QED
    BY <1>1, <1>2, <1>M, <2>3, <2>4, <2>5, <2>7, RunningKept DEF Ready, MenuFits
<1>3. CASE ToggleNoTitle
  <2> DEFINE b == [ui EXCEPT !.opts.noTitle = ~@]
             c == ApplyOptions(b)
             u == UpdateMenuStates(c)
  <2>1. PICK set \in BOOLEAN : MaySet(set) /\ ui' = SizeActivePage(u, set)
    BY <1>3 DEF ToggleNoTitle
  <2>2. b \in Windows
    BY <1>2 DEF Windows, Options
  <2>3. b.page = ui.page /\ b.current = ui.page /\ b.menu = ui.menu /\ b.shown = ui.shown
    BY <1>2 DEF Windows, Options
  <2>4. b.opts.noTitle \in BOOLEAN
    BY <2>2 DEF Windows, Options
  <2> HIDE DEF b
  <2>5. c \in Windows
    BY <2>2, <2>4 DEF ApplyOptions, Windows
  <2>6. /\ c.page = b.page /\ c.current = b.current /\ c.menu = b.menu /\ c.shown = b.shown
        /\ c.opts = b.opts /\ c.applied = [q \in Pages |-> b.opts.noTitle]
    BY <2>2 DEF ApplyOptions, Windows
  <2> HIDE DEF c
  <2>7. u \in Windows /\ Keeps(u, c) /\ u.menu = c.menu
    BY <2>5, MarksUpdated
  <2>8. /\ u.current = u.page /\ u.menu \in {NoMenu, u.page} /\ u.shown = {u.page}
        /\ u.applied[u.page] = u.opts.noTitle
    BY <1>2, <2>3, <2>6, <2>7 DEF Keeps, Ready
  <2> HIDE DEF u
  <2>9. StartupInv' /\ MenuInv' /\ AllReleased' /\ ui' \in Windows /\ faults' \in 0..MaxFaults
    BY <1>1, <2>1, <2>7, <2>8, SizingKeeps
  <2>10. UNCHANGED <<timer, timerId>>
    BY <1>3 DEF ToggleNoTitle, Handled
  <2> QED BY <1>R, <1>T, <2>9, <2>10
<1>4. CASE Resize
  <2>1. PICK set \in BOOLEAN : MaySet(set) /\ ui' = SizeActivePage(ui, set)
    BY <1>4 DEF Resize
  <2>2. StartupInv' /\ MenuInv' /\ AllReleased' /\ ui' \in Windows /\ faults' \in 0..MaxFaults
    BY <1>1, <1>2, <2>1, SizingKeeps DEF Ready
  <2>3. UNCHANGED <<timer, timerId>>
    BY <1>4 DEF Resize, Handled
  <2> QED BY <1>R, <1>T, <2>2, <2>3
<1>5. CASE ToggleOption
  <2> DEFINE o == [ui.opts EXCEPT !.onTop = ~@]
  <2>1. o \in Options /\ o.noTitle = ui.opts.noTitle
    BY <1>2 DEF Options
  <2>2. ui' = UpdateMenuStates([ui EXCEPT !.opts = o])
    BY <1>2, <1>5 DEF ToggleOption, Windows
  <2>3. UNCHANGED <<timer, timerId, faults>>
    BY <1>5 DEF ToggleOption, Handled
  <2> HIDE DEF o
  <2> QED BY <1>M, <1>R, <1>T, <2>1, <2>2, <2>3
<1>6. CASE SetSpeed
  <2>1. PICK i \in Intervals :
          \/ /\ TimerReplaced(i) /\ UNCHANGED faults
             /\ ui' = UpdateMenuStates([ui EXCEPT !.opts.interval = i])
          \/ TimerNotReplaced(i) /\ UNCHANGED ui
    BY <1>6 DEF SetSpeed
  <2>2. timer' \in Intervals \union {0} /\ timerId' \in {0, 1}
    BY <1>2, <2>1, TimerTyped
  <2>3. CASE TimerReplaced(i) /\ UNCHANGED faults /\ ui' = UpdateMenuStates([ui EXCEPT !.opts.interval = i])
    <3> DEFINE o == [ui.opts EXCEPT !.interval = i]
    <3>1. o \in Options /\ o.noTitle = ui.opts.noTitle
      BY <1>2 DEF Options
    <3>2. ui' = UpdateMenuStates([ui EXCEPT !.opts = o])
      BY <1>2, <2>3 DEF Windows
    <3> HIDE DEF o
    <3> QED BY <1>M, <1>R, <2>2, <2>3, <3>1, <3>2
  <2>4. CASE TimerNotReplaced(i) /\ UNCHANGED ui
    <3>1. faults' \in 0..MaxFaults /\ (faults' = 0 => faults = 0)
      BY <1>2, <2>4 DEF TimerNotReplaced, Fails
    <3>2. StartupInv' /\ MenuInv' /\ AllReleased'
      BY <1>1, <2>4, <3>1 DEF IInv, StartupInv, MenuInv, MenuFits, Ready, AllReleased, Up
    <3> QED BY <1>2, <1>R, <2>2, <2>4, <3>1, <3>2
  <2> QED BY <2>1, <2>3, <2>4
<1> QED BY <1>3, <1>4, <1>5, <1>6

\* Handlers that leave the menu alone: the prewarmed pages, the deferred
\* initialisation, samples and the help of menu items.
LEMMA OthersKeep ==
  ASSUME IInv, PrewarmPage \/ DeferInit \/ SampleApplied \/ ShellRestarts \/ MenuItem
               \/ MenuClosed
  PROVE  IInv'
<1>1. phase = "running" /\ phase' = phase /\ created' = created /\ UNCHANGED <<timer, timerId, idNamesTimer>>
  BY DEF PrewarmPage, DeferInit, SampleApplied, ShellRestarts, MenuItem, MenuClosed, Handled
<1>2. TypeOK /\ faults \in 0..MaxFaults /\ MaxFaults \in Nat /\ (tray => registered)
  BY MainWindowAssumption DEF IInv, TypeOK
<1>K. ASSUME UNCHANGED ui, faults' = 0 => faults = 0
      PROVE  StartupInv' /\ MenuInv' /\ AllReleased'
  BY <1>1, <1>K DEF IInv, StartupInv, MenuInv, MenuFits, Ready, AllReleased, Up
<1>P. ASSUME NEW m, TakePosted(m) PROVE posted' \in Seq(Pages \union {DeferredInit})
  BY <1>2, <1>P DEF TypeOK, TakePosted
<1>3. CASE PrewarmPage
  <2>1. PICK p \in Pages : /\ TakePosted(p)
                           /\ ui' = IF p = ui.page THEN ui
                                    ELSE [ui EXCEPT !.applied[p] = ui.opts.noTitle,
                                                    !.layout[p] = IF ui.opts.noTitle
                                                                    THEN "borderless" ELSE "framed"]
    BY <1>3 DEF PrewarmPage
  <2>2. UNCHANGED <<statusVars, trayVars, faults>>
    BY <1>3 DEF PrewarmPage, Handled
  <2>3. ui' \in Windows /\ StartupInv' /\ MenuInv' /\ AllReleased'
    <3>1. CASE p = ui.page
      BY <1>2, <1>K, <2>1, <2>2, <3>1 DEF TypeOK
    <3>2. CASE p # ui.page
      <4> DEFINE a == [ui EXCEPT !.applied[p] = ui.opts.noTitle]
                 l == IF ui.opts.noTitle THEN "borderless" ELSE "framed"
      <4>0. /\ ui \in Windows /\ ui.page \in Pages /\ ui.opts.noTitle \in BOOLEAN
            /\ Ready(ui) /\ MenuFits(ui)
        BY <1>1, Running DEF Options
      <4>1. /\ a \in Windows /\ a.page = ui.page /\ a.current = ui.current /\ a.menu = ui.menu
            /\ a.shown = ui.shown /\ a.opts = ui.opts /\ a.marks = ui.marks
            /\ a.applied[ui.page] = ui.applied[ui.page] /\ a.layout = ui.layout
        BY <3>2, <4>0 DEF Windows
      <4>2. ui' = [a EXCEPT !.layout[p] = l] /\ l \in Layouts
        BY <2>1, <3>2, <4>0 DEF Windows, Layouts
      <4> HIDE DEF a, l
      <4>3. ui' \in Windows
        BY <4>1, <4>2 DEF Windows
      <4>4. /\ ui'.page = ui.page /\ ui'.current = ui.current /\ ui'.menu = ui.menu
            /\ ui'.shown = ui.shown /\ ui'.opts = ui.opts /\ ui'.marks = ui.marks
            /\ ui'.applied[ui.page] = ui.applied[ui.page]
            /\ ui'.layout[ui.page] = ui.layout[ui.page]
        BY <3>2, <4>0, <4>1, <4>2 DEF Windows
      <4>5. Ready(ui') /\ MenuFits(ui')
        BY <4>0, <4>4 DEF Ready, MenuFits
      <4>6. ui'.current = ui'.page /\ (faults' = 0 /\ ~ui'.opts.noTitle => ui'.menu = ui'.page)
        BY <1>1, <2>2, <4>4, Running
      <4> QED BY <1>1, <4>3, <4>5, <4>6, RunningKept DEF Ready, MenuFits
    <3> QED BY <3>1, <3>2
  <2>4. TypeOK'
    BY <1>1, <1>2, <1>P, <2>1, <2>2, <2>3 DEF TypeOK, statusVars, trayVars
  <2> QED BY <2>2, <2>3, <2>4 DEF IInv, StatusBarCurrent, statusVars, trayVars
<1>4. CASE DeferInit
  <2>1. TakePosted(DeferredInit) /\ UNCHANGED <<ui, statusVars, faults>>
    BY <1>4 DEF DeferInit, Handled
  <2>2. TrayKept
    <3>1. CASE icons' = TRUE /\ TrayAdded
      BY <3>1 DEF TrayAdded, TrayKept
    <3>2. CASE icons' = TRUE /\ TrayRefused
      BY <3>2 DEF TrayRefused, IInv, TypeOK, TrayKept
    <3>3. CASE UNCHANGED trayVars
      BY <3>3, TraySame
    <3> QED BY <1>4, <3>1, <3>2, <3>3 DEF DeferInit
  <2>4. TypeOK'
    BY <1>1, <1>2, <1>P, <2>1, <2>2 DEF TypeOK, statusVars, TrayKept
  <2> QED BY <1>K, <2>1, <2>2, <2>4 DEF IInv, StatusBarCurrent, statusVars, TrayKept
<1>5. CASE SampleApplied \/ ShellRestarts \/ MenuItem \/ MenuClosed
  <2>1. UNCHANGED <<ui, posted, faults>>
    BY <1>5 DEF SampleApplied, ShellRestarts, MenuItem, MenuClosed, Handled
  <2>2. usage' \in Usages /\ statusText' \in Usages /\ tracking' \in BOOLEAN /\ StatusBarCurrent'
    BY <1>2, <1>5 DEF SampleApplied, ShellRestarts, MenuItem, MenuClosed, MenuLeft,
                      RefreshStatusBar, Handled, statusVars, TypeOK, IInv, StatusBarCurrent
  <2>4. TrayKept
    <3>1. CASE SampleApplied
      BY <3>1, TrayRefreshed DEF SampleApplied
    <3>2. CASE ShellRestarts
      BY <3>2 DEF ShellRestarts, Handled, IInv, TypeOK, TrayKept
    <3>3. CASE MenuItem \/ MenuClosed
      BY <3>3, TraySame DEF MenuItem, MenuClosed, Handled
    <3> QED BY <1>5, <3>1, <3>2, <3>3
  <2>3. TypeOK'
    BY <1>1, <1>2, <2>1, <2>2, <2>4 DEF TypeOK, TrayKept
  <2> QED BY <1>K, <2>1, <2>2, <2>3, <2>4 DEF IInv, TrayKept
<1> QED BY <1>3, <1>4, <1>5

\* WM_DESTROY: what was acquired is given back.
LEMMA ShutdownKeeps ==
  ASSUME IInv, Shutdown
  PROVE  IInv'
<1>1. /\ phase' = "closed" /\ timer' = 0 /\ timerId' = 0 /\ created' = 0 /\ posted' = <<>>
      /\ UNCHANGED <<statusVars, idNamesTimer, faults>> /\ icons' = FALSE
  BY DEF Shutdown, StopTimer
<1>2. /\ registered' \in BOOLEAN /\ trayError' \in BOOLEAN /\ tray' \in BOOLEAN
      /\ tray' => registered' /\ trayError'
  <2>1. TrayRemoved /\ registered \in BOOLEAN /\ tray \in BOOLEAN /\ trayError \in BOOLEAN
    BY DEF Shutdown, IInv, TypeOK
  <2>2. tray => registered
    BY DEF IInv
  <2>3. CASE ~registered /\ UNCHANGED <<registered, trayError, tray>>
    BY <2>1, <2>2, <2>3
  <2>4. CASE tray' = FALSE /\ trayError' = FALSE /\ registered' = FALSE
    BY <2>4
  <2>5. CASE registered /\ TrayRefused
    BY <2>1, <2>5 DEF TrayRefused
  <2> QED BY <2>1, <2>3, <2>4, <2>5 DEF TrayRemoved
<1>3. ui' \in Windows /\ ui'.shown = {} /\ ui'.current = NoMenu /\ ui'.menu = NoMenu
  <2>1. ui \in Windows /\ (ui.current = NoMenu => ui.menu = NoMenu)
    BY DEF IInv, TypeOK, StartupInv
  <2>2. ui' = [ui EXCEPT !.shown = {}, !.current = NoMenu, !.menu = NoMenu]
    BY <2>1 DEF Shutdown, Windows
  <2> QED BY <2>1, <2>2 DEF Windows
<1>4. posted' \in Seq(Pages \union {DeferredInit}) /\ created' \in 0..PageCount
  BY <1>1, MainWindowAssumption
<1>5. TypeOK'
  BY <1>1, <1>2, <1>3, <1>4 DEF IInv, TypeOK, Phases, statusVars
<1>6. StartupInv' /\ MenuInv' /\ AllReleased'
  BY <1>1, <1>2, <1>3 DEF StartupInv, MenuInv, MenuFits, AllReleased, Up
<1> QED BY <1>1, <1>2, <1>5, <1>6 DEF IInv, StatusBarCurrent, statusVars

\* Every step keeps the invariant.
LEMMA NextKeepsIInv == IInv /\ [Next]_vars => IInv'
<1> SUFFICES ASSUME IInv, [Next]_vars PROVE IInv'
  OBVIOUS
<1>1. CASE InitPage \/ InitActivate \/ InitTimer \/ InitFails \/ ShowMain
  BY <1>1, StartupKeeps
<1>2. CASE TabSelected \/ SwitchTabs \/ FindProcess
  BY <1>2, SwitchingKeeps
<1>3. CASE ToggleNoTitle \/ Resize \/ ToggleOption \/ SetSpeed
  BY <1>3, OptionsKeep
<1>4. CASE PrewarmPage \/ DeferInit \/ SampleApplied \/ ShellRestarts \/ MenuItem \/ MenuClosed
  BY <1>4, OthersKeep
<1>5. CASE Shutdown
  BY <1>5, ShutdownKeeps
<1>6. CASE UNCHANGED vars
  BY <1>6 DEF vars, timerVars, statusVars, trayVars, IInv, TypeOK, StartupInv, MenuInv, MenuFits,
              Ready, StatusBarCurrent, AllReleased
<1> QED
  BY <1>1, <1>2, <1>3, <1>4, <1>5, <1>6 DEF Next

\* The inductive invariant holds throughout.
THEOREM Invariance == Spec => []IInv
<1> QED BY InitImpliesIInv, NextKeepsIInv, PTL DEF Spec

-----------------------------------------------------------------------------
(* What it means for the user.                                              *)

\* Whatever fails while pages are switched, in any order of handlers and with any
\* number of failures, one page is visible, the page of the options, sized for the
\* mode and told of it (activate_page, prewarm_page, toggle_no_title_mode).
THEOREM OnePageIsReady == Spec => []ShownPageIsReady
<1>1. IInv => ShownPageIsReady
  BY DEF IInv, StartupInv, Ready, ShownPageIsReady, Up
<1> QED BY <1>1, Invariance, PTL

\* The menu bar shows the current page's menu with the marks of the options, or
\* none, and without a tracked menu the status bar shows the last statistics
\* (size_active_page, update_menu_states, refresh_status_bar).
THEOREM ScreenIsCurrent == Spec => []ScreenTellsTheState
<1>1. IInv => ScreenTellsTheState
  BY DEF IInv, StartupInv, MenuInv, MenuFits, Up, ScreenTellsTheState, MenuOfThePage,
         MenuTellsOptions
<1> QED BY <1>1, Invariance, PTL

\* After shutdown nothing acquired is left, however startup or the session ended,
\* but a tray icon whose removal the shell has refused, and the controller still
\* has it registered then, with the error recorded (shutdown, update_tray).
THEOREM NothingStays == Spec => []AllReleased
<1>1. IInv => AllReleased
  BY DEF IInv
<1> QED BY <1>1, Invariance, PTL
=============================================================================
