--------------------------- MODULE AddonsContents ---------------------------
(***************************************************************************)
(* The addons window: AddonsContentsWidget                                 *)
(* (src/src/modules/windows/addons/AddonsContentsWidget.cpp) holds a       *)
(* CategoriesTabWidget (src/src/ui/CategoriesTabWidget.cpp) whose only     *)
(* page is a user-scripts AddonsPage                                       *)
(* (src/src/modules/windows/addons/AddonsPage.cpp); three more tabs are    *)
(* added straight to the tab bar, with no page behind them.                *)
(*                                                                         *)
(* The page fills its list lazily: the first showEvent starts a 200 ms     *)
(* timer, and the timer event runs delayedLoad and reports the page as     *)
(* fully loaded.  Everything runs on the Qt GUI thread, so each handler is *)
(* one atomic step.  A tab's text is abstracted to the language it was     *)
(* translated into; a row of the list to its addon and its check box.      *)
(* The user-scripts page's delayedLoad() and save() are not in this        *)
(* repository: delayedLoad() calls addAddon() for each installed script,   *)
(* save() enables or disables each script as its row is checked.           *)
(***************************************************************************)
EXTENDS Naturals, Sequences

CONSTANTS
    Languages,       \* languages a translator can be installed for
    UserScriptsPage, \* the one CategoryPage of the window
    NoPage,          \* nullptr returned by getPage()
    MaxTimerId,      \* bound on the ids startTimer() hands out
    AddonOrder       \* the installed scripts, in the order they are listed

\* The scripts are listed once each: a user script is known by its name.
ASSUME AddonsAssumption ==
    /\ Languages # {}
    /\ UserScriptsPage # NoPage
    /\ MaxTimerId \in Nat \ {0}
    /\ AddonOrder \in Seq(STRING)
    /\ \A i, j \in 1..Len(AddonOrder) : AddonOrder[i] = AddonOrder[j] => i = j

\* Tab indexes: the page's tab, then "User Styles", "Dictionaries" and
\* "Translations", added with tabBar()->addTab().
TabIndexes == 0..3
ExtraTabs == 1..3
NoTimer == 0
Addons == {AddonOrder[i] : i \in 1..Len(AddonOrder)}
Row == [addon : Addons, checked : BOOLEAN]

VARIABLES
    language,      \* the installed translation
    tabText,       \* tab index -> language of its text
    headerLang,    \* language of the list's "Title"/"Version" headers
    pages,         \* CategoriesTabWidget::m_pages
    wasLoaded,     \* CategoryPage::m_wasLoaded
    loadingTimer,  \* AddonsPage::m_loadingTimer
    timers,        \* ids of the page's running Qt timers
    nextTimerId,   \* the id the next startTimer() returns
    isLoading,     \* AddonsPage::m_isLoading
    rows,          \* the rows of the page's QStandardItemModel
    enabled,       \* addon -> Addon::isEnabled()
    lastSignal,    \* the last loadingStateChanged() emitted
    saveEnabled    \* the save button's enabled state

vars == <<language, tabText, headerLang, pages, wasLoaded, loadingTimer,
          timers, nextTimerId, isLoading, rows, enabled, lastSignal,
          saveEnabled>>

LoadingStates == {"none", "ongoing", "finished"}

\* CategoriesTabWidget::getPage(index)
GetPage(index) ==
    IF index >= 0 /\ index < Len(pages) THEN pages[index + 1] ELSE NoPage

-----------------------------------------------------------------------------
(* Construction: the AddonsContentsWidget constructor adds the page with   *)
(* addPage(), which titles its tab, adds the three extra tabs, and leaves   *)
(* the AddonsPage constructor's m_isLoading = true, m_loadingTimer = 0.    *)
(* The save button starts disabled, as in AddonsContentsWidget.ui.         *)
Init ==
    /\ language \in Languages
    /\ tabText = [i \in TabIndexes |-> language]
    /\ headerLang = language
    /\ pages = <<UserScriptsPage>>
    /\ wasLoaded = FALSE
    /\ loadingTimer = NoTimer
    /\ timers = {}
    /\ nextTimerId = 1
    /\ isLoading = TRUE
    /\ rows = <<>>
    /\ enabled \in [Addons -> BOOLEAN]
    /\ lastSignal = "none"
    /\ saveEnabled = FALSE

\* Mutant of Load: the wasLoaded() check is dropped, so every showEvent
\* starts another load.
LoadNoGuard ==
    /\ nextTimerId <= MaxTimerId
    /\ lastSignal' = "ongoing"
    /\ loadingTimer' = nextTimerId
    /\ timers' = timers \cup {nextTimerId}
    /\ nextTimerId' = nextTimerId + 1
    /\ wasLoaded' = TRUE
    /\ UNCHANGED <<language, tabText, headerLang, pages, isLoading, rows,
                   enabled, saveEnabled>>

\* Mutant of Load: markAsLoaded() without startTimer().
LoadNoTimer ==
    /\ ~wasLoaded
    /\ nextTimerId <= MaxTimerId
    /\ lastSignal' = "ongoing"
    /\ wasLoaded' = TRUE
    /\ UNCHANGED <<language, tabText, headerLang, pages, loadingTimer, timers,
                   nextTimerId, isLoading, rows, enabled, saveEnabled>>

\* Mutant of Load: startTimer() without markAsLoaded().
LoadNoMark ==
    /\ ~wasLoaded
    /\ nextTimerId <= MaxTimerId
    /\ lastSignal' = "ongoing"
    /\ loadingTimer' = nextTimerId
    /\ timers' = timers \cup {nextTimerId}
    /\ nextTimerId' = nextTimerId + 1
    /\ UNCHANGED <<language, tabText, headerLang, pages, wasLoaded, isLoading,
                   rows, enabled, saveEnabled>>

\* CategoryPage::showEvent() calls AddonsPage::load(): the first time, emit
\* OngoingLoadingState, start the timer and markAsLoaded().
Load ==
    /\ ~wasLoaded
    /\ nextTimerId <= MaxTimerId
    /\ lastSignal' = "ongoing"
    /\ loadingTimer' = nextTimerId
    /\ timers' = timers \cup {nextTimerId}
    /\ nextTimerId' = nextTimerId + 1
    /\ wasLoaded' = TRUE
    /\ UNCHANGED <<language, tabText, headerLang, pages, isLoading, rows,
                   enabled, saveEnabled>>

\* delayedLoad(): AddonsPage::addAddon() appends one row per installed
\* script, checked when Addon::isEnabled().
ListedRows == [i \in 1..Len(AddonOrder) |->
                 [addon |-> AddonOrder[i], checked |-> enabled[AddonOrder[i]]]]

\* Mutant of TimerEvent: the timer is killed but m_loadingTimer is not
\* cleared.
TimerEventNoReset(t) ==
    /\ t \in timers
    /\ IF t = loadingTimer
       THEN /\ rows' = rows \o ListedRows
            /\ timers' = timers \ {t}
            /\ isLoading' = FALSE
            /\ lastSignal' = "finished"
            /\ UNCHANGED loadingTimer
       ELSE UNCHANGED <<rows, timers, loadingTimer, isLoading, lastSignal>>
    /\ UNCHANGED <<language, tabText, headerLang, pages, wasLoaded, nextTimerId,
                   enabled, saveEnabled>>

\* AddonsPage::timerEvent(event) for a running timer t: the loading timer
\* runs delayedLoad(), is killed and cleared, and markAsFullyLoaded() emits
\* FinishedLoadingState; any other timer goes to CategoryPage::timerEvent,
\* which ignores it.
TimerEvent(t) ==
    /\ t \in timers
    /\ IF t = loadingTimer
       THEN /\ rows' = rows \o ListedRows
            /\ timers' = timers \ {t}
            /\ loadingTimer' = NoTimer
            /\ isLoading' = FALSE
            /\ lastSignal' = "finished"
       ELSE UNCHANGED <<rows, timers, loadingTimer, isLoading, lastSignal>>
    /\ UNCHANGED <<language, tabText, headerLang, pages, wasLoaded, nextTimerId,
                   enabled, saveEnabled>>

\* Mutant of Modify: the page does not emit settingsModified.
ModifyNoSignal(i) ==
    /\ i \in 1..Len(rows)
    /\ rows' = [rows EXCEPT ![i] = [addon |-> @.addon, checked |-> ~@.checked]]
    /\ UNCHANGED <<language, tabText, headerLang, pages, wasLoaded, loadingTimer,
                   timers, nextTimerId, isLoading, enabled, lastSignal, saveEnabled>>

\* The user toggles the check box of row i; the page emits
\* settingsModified and the widget's slot enables the save button.
Modify(i) ==
    /\ i \in 1..Len(rows)
    /\ rows' = [rows EXCEPT ![i] = [addon |-> @.addon, checked |-> ~@.checked]]
    /\ saveEnabled' = TRUE
    /\ UNCHANGED <<language, tabText, headerLang, pages, wasLoaded, loadingTimer,
                   timers, nextTimerId, isLoading, enabled, lastSignal>>

\* The first row of addon a.
RowOf(a) == CHOOSE i \in 1..Len(rows) :
               rows[i].addon = a /\ \A j \in 1..(i - 1) : rows[j].addon # a

\* The save button's clicked slot: m_currentPage->save(), which sets each
\* listed script enabled as its row is checked, then disable the button.
Save ==
    /\ saveEnabled
    /\ enabled' = [a \in Addons |->
                     IF \E i \in 1..Len(rows) : rows[i].addon = a
                     THEN rows[RowOf(a)].checked ELSE enabled[a]]
    /\ saveEnabled' = FALSE
    /\ UNCHANGED <<language, tabText, headerLang, pages, wasLoaded, loadingTimer,
                   timers, nextTimerId, isLoading, rows, lastSignal>>

\* CategoriesTabWidget::changeEvent(LanguageChange): retitle every tab of
\* the tab bar whose index has a page.
TabsRetitled(l) ==
    [i \in TabIndexes |-> IF GetPage(i) # NoPage THEN l ELSE tabText[i]]

\* Mutant of ContentsRetitled: the last extra tab is forgotten.
ContentsRetitledShort(l, t) ==
    [i \in TabIndexes |-> IF i \in 1..2 THEN l ELSE t[i]]

\* AddonsContentsWidget::changeEvent(LanguageChange): setTabText() of the
\* three tabs that have no page.
ContentsRetitled(l, t) ==
    [i \in TabIndexes |-> IF i \in ExtraTabs THEN l ELSE t[i]]

\* A translator is installed: QApplication sends LanguageChange to every
\* widget in one synchronous loop, so the changeEvent handlers of the tab
\* widget, of the contents widget and of the page (retranslateUi and the
\* list's header labels) all run before any other event.
ChangeLanguage(l) ==
    /\ l # language
    /\ language' = l
    /\ tabText' = ContentsRetitled(l, TabsRetitled(l))
    /\ headerLang' = l
    /\ UNCHANGED <<pages, wasLoaded, loadingTimer, timers, nextTimerId,
                   isLoading, rows, enabled, lastSignal, saveEnabled>>

Next ==
    \/ Load
    \/ \E t \in timers : TimerEvent(t)
    \/ \E i \in 1..Len(rows) : Modify(i)
    \/ Save
    \/ \E l \in Languages : ChangeLanguage(l)

\* The Qt event loop delivers the event of a running timer: the GUI thread
\* is never blocked for good.  The user's actions are not fair.
Fairness == WF_vars(\E t \in timers : TimerEvent(t))

Spec == Init /\ [][Next]_vars /\ Fairness

-----------------------------------------------------------------------------
(* Properties.                                                             *)

TypeOK ==
    /\ language \in Languages
    /\ tabText \in [TabIndexes -> Languages]
    /\ headerLang \in Languages
    /\ pages \in Seq({UserScriptsPage})
    /\ wasLoaded \in BOOLEAN
    /\ loadingTimer \in {NoTimer} \cup timers
    /\ timers \subseteq 1..MaxTimerId
    /\ nextTimerId \in 1..(MaxTimerId + 1)
    /\ isLoading \in BOOLEAN
    /\ rows \in Seq(Row)
    /\ enabled \in [Addons -> BOOLEAN]
    /\ lastSignal \in LoadingStates
    /\ saveEnabled \in BOOLEAN

\* Each tab of the window is in the installed language: the tab widget's
\* handler retitles the tab that has a page (getPage() answers nullptr for
\* the others) and the contents widget's handler retitles the other three,
\* so between them no tab is left in the old language.
TabsTranslated == \A i \in TabIndexes : tabText[i] = language

\* The list holds each installed script in exactly one row once the page
\* reports it is loaded, and no row before delayedLoad() ran, however
\* often the page is shown: getLoadingState() never says finished over an
\* empty or doubled list.
ListFilledOnce ==
    /\ \A i, j \in 1..Len(rows) : rows[i].addon = rows[j].addon => i = j
    /\ ~isLoading => \A a \in Addons : \E i \in 1..Len(rows) : rows[i].addon = a
    /\ isLoading => rows = <<>>

\* While the save button is disabled, every check box shows whether its
\* script is enabled: no toggle is pending that the user cannot save, and
\* a save leaves no row disagreeing with the scripts.
SaveReflectsEdits ==
    ~saveEnabled => \A i \in 1..Len(rows) : rows[i].checked = enabled[rows[i].addon]

\* Once the page has been shown, its loading eventually finishes:
\* getLoadingState() does not stay OngoingLoadingState forever.
LoadingFinishes == wasLoaded ~> ~isLoading

\* The page's loading, as AddonsLoading states it, is what the code does:
\* idle until first shown, then loading, then loaded for good.
Phase ==
    IF ~isLoading THEN "loaded" ELSE IF wasLoaded THEN "loading" ELSE "idle"
Loading == INSTANCE AddonsLoading WITH phase <- Phase
LoadingRefined == Loading!Spec

=============================================================================
