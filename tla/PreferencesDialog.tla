-------------------------- MODULE PreferencesDialog --------------------------
(***************************************************************************)
(* The preferences dialog, src/src/ui/PreferencesDialog.cpp.               *)
(*                                                                         *)
(* Five tabs, each with a page widget that is created the first time the   *)
(* tab is shown (showTab).  Creating a page connects the dialog's          *)
(* requestedSave signal to the page's save() and every control of the tab  *)
(* to markAsModified, which enables Apply.  Apply and OK emit              *)
(* requestedSave; OK and Cancel close the dialog.  Everything runs on the  *)
(* GUI thread, so each slot is one atomic step.                            *)
(*                                                                         *)
(* The page widgets are not in this repository: a page is abstracted to   *)
(* the one value its controls show (edits) and the option it saves        *)
(* (stored), which it reads from SettingsManager when it is created and   *)
(* writes back with setValue() in save().                                 *)
(***************************************************************************)
EXTENDS Naturals

CONSTANTS
    Sections,   \* section names passed to the constructor
    Values      \* values a page's controls can show

GeneralTab == 0
ContentTab == 1
PrivacyTab == 2
SearchTab == 3
AdvancedTab == 4
Tabs == GeneralTab..AdvancedTab

ASSUME PreferencesAssumption == Sections # {} /\ Values # {}

VARIABLES
    open,          \* the dialog is shown
    current,       \* m_ui->tabWidget->currentIndex()
    loadedTabs,    \* m_loadedTabs
    saveConnected, \* tabs whose page's save() is connected to requestedSave
    applyEnabled,  \* the Apply button's enabled state
    edits,         \* tab -> the value its page's controls show
    stored         \* tab -> the value of its option in the store

vars == <<open, current, loadedTabs, saveConnected, applyEnabled, edits, stored>>

\* Mutant of SectionTab: "advanced" is mapped one past AdvancedTab.
SectionTabOffByOne(section) ==
    CASE section = "content"  -> ContentTab
      [] section = "privacy"  -> PrivacyTab
      [] section = "search"   -> SearchTab
      [] section = "advanced" -> AdvancedTab + 1
      [] OTHER                -> GeneralTab

\* The constructor's choice of the first tab from the section name.
SectionTab(section) ==
    CASE section = "content"  -> ContentTab
      [] section = "privacy"  -> PrivacyTab
      [] section = "search"   -> SearchTab
      [] section = "advanced" -> AdvancedTab
      [] OTHER                -> GeneralTab

\* PreferencesDialog(section): m_loadedTabs all false, showTab(tab),
\* setCurrentIndex(tab), Apply disabled; the page of tab reads the store.
\* Pages not created yet are taken to show the store too.
Opened(section) ==
    LET tab == SectionTab(section) IN
    /\ open' = TRUE
    /\ current' = tab
    /\ loadedTabs' = [t \in Tabs |-> t = tab]
    /\ saveConnected' = {tab}
    /\ applyEnabled' = FALSE
    /\ edits' = stored

Init ==
    /\ stored \in [Tabs -> Values]
    /\ edits = stored
    /\ \E section \in Sections :
          LET tab == SectionTab(section) IN
          /\ open = TRUE
          /\ current = tab
          /\ loadedTabs = [t \in Tabs |-> t = tab]
          /\ saveConnected = {tab}
          /\ applyEnabled = FALSE

\* Mutant of ShowTab: the AdvancedTab case forgets to connect requestedSave
\* to the page's save().
ShowTabNoSaveConnect(tab) ==
    /\ tab \in Tabs /\ ~loadedTabs[tab]
    /\ loadedTabs' = [loadedTabs EXCEPT ![tab] = TRUE]
    /\ saveConnected' = IF tab = AdvancedTab THEN saveConnected
                        ELSE saveConnected \cup {tab}
    /\ edits' = [edits EXCEPT ![tab] = stored[tab]]

\* showTab(tab): out of range or already loaded returns; otherwise mark it
\* loaded, create its page (which reads the store) and connect requestedSave
\* to the page's save() and the tab's controls to markAsModified.
ShowTab(tab) ==
    /\ tab \in Tabs /\ ~loadedTabs[tab]
    /\ loadedTabs' = [loadedTabs EXCEPT ![tab] = TRUE]
    /\ saveConnected' = saveConnected \cup {tab}
    /\ edits' = [edits EXCEPT ![tab] = stored[tab]]

\* The user selects another tab: currentChanged runs showTab().
SelectTab(tab) ==
    /\ open
    /\ tab # current
    /\ current' = tab
    /\ \/ ShowTab(tab)
       \/ loadedTabs[tab] /\ UNCHANGED <<loadedTabs, saveConnected, edits>>
    /\ UNCHANGED <<open, applyEnabled, stored>>

\* The user changes a control of the current tab: its toggled /
\* currentIndexChanged / textChanged / valueChanged / modified signal runs
\* markAsModified, which enables Apply.
Edit(v) ==
    /\ open
    /\ v # edits[current]
    /\ edits' = [edits EXCEPT ![current] = v]
    /\ applyEnabled' = TRUE
    /\ UNCHANGED <<open, current, loadedTabs, saveConnected, stored>>

\* Mutant of RequestedSave: only the current tab's page is saved.
RequestedSaveCurrentOnly ==
    [t \in Tabs |-> IF t = current THEN edits[t] ELSE stored[t]]

\* emit requestedSave(): every connected page's save() writes its value.
RequestedSave ==
    [t \in Tabs |-> IF t \in saveConnected THEN edits[t] ELSE stored[t]]

\* save() sent by the Apply button: requestedSave, then disable Apply.
Apply ==
    /\ open
    /\ applyEnabled
    /\ stored' = RequestedSave
    /\ applyEnabled' = FALSE
    /\ UNCHANGED <<open, current, loadedTabs, saveConnected, edits>>

\* Mutant of Ok: the button box's save() saves only the current tab.
OkCurrentOnly ==
    /\ open
    /\ stored' = RequestedSaveCurrentOnly
    /\ open' = FALSE
    /\ UNCHANGED <<current, loadedTabs, saveConnected, applyEnabled, edits>>

\* save() sent by the button box (OK): requestedSave, then close().
Ok ==
    /\ open
    /\ stored' = RequestedSave
    /\ open' = FALSE
    /\ UNCHANGED <<current, loadedTabs, saveConnected, applyEnabled, edits>>

\* rejected (Cancel): close() with nothing saved.
Cancel ==
    /\ open
    /\ open' = FALSE
    /\ UNCHANGED <<current, loadedTabs, saveConnected, applyEnabled, edits, stored>>

\* A new dialog is created on a section; the store is what earlier dialogs
\* left in it.
Reopen ==
    /\ ~open
    /\ \E section \in Sections : Opened(section)
    /\ UNCHANGED stored

Next ==
    \/ \E tab \in Tabs : SelectTab(tab)
    \/ \E v \in Values : Edit(v)
    \/ Apply
    \/ Ok
    \/ Cancel
    \/ Reopen

Spec == Init /\ [][Next]_vars

-----------------------------------------------------------------------------
(* Properties.                                                             *)

TypeOK ==
    /\ open \in BOOLEAN
    /\ current \in Tabs
    /\ loadedTabs \in [Tabs -> BOOLEAN]
    /\ saveConnected \subseteq Tabs
    /\ applyEnabled \in BOOLEAN
    /\ edits \in [Tabs -> Values]
    /\ stored \in [Tabs -> Values]

\* A disabled Apply button means nothing is unsaved: while the dialog is
\* open and Apply is disabled, every created page shows what the store
\* holds, across tab switches, edits on several tabs and Apply.
ApplyReflectsUnsaved ==
    open /\ ~applyEnabled =>
      \A t \in Tabs : loadedTabs[t] => edits[t] = stored[t]

\* Closing the dialog saves all or nothing: after OK every page that was
\* created has its value in the store, after Cancel the store is untouched;
\* no close leaves some tabs' edits saved and others dropped.
CloseSavesAllOrNothing ==
    [][open /\ ~open' =>
         \/ stored' = stored
         \/ \A t \in Tabs : loadedTabs[t] => stored'[t] = edits[t]]_vars

=============================================================================
