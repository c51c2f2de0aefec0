----------------------- MODULE PreferencesDialog_proofs -----------------------
(***************************************************************************)
(* Proofs about PreferencesDialog for every set of sections and values.    *)
(***************************************************************************)
EXTENDS PreferencesDialog, TLAPS

(***************************************************************************)
(* The constructor always picks one of the five tabs.                      *)
(***************************************************************************)
LEMMA SectionTabType ==
    ASSUME NEW section
    PROVE  SectionTab(section) \in Tabs
  BY DEF SectionTab, Tabs, GeneralTab, ContentTab, PrivacyTab, SearchTab,
         AdvancedTab

(***************************************************************************)
(* The strengthening: requestedSave reaches exactly the pages created so   *)
(* far, because showTab connects each page's save() when it creates it.    *)
(***************************************************************************)
SaveReachesLoaded == saveConnected = {t \in Tabs : loadedTabs[t]}

IInv == TypeOK /\ SaveReachesLoaded /\ ApplyReflectsUnsaved

(***************************************************************************)
(* Every step keeps the dialog's state in its type, requestedSave          *)
(* connected to every created page and no other, and a disabled Apply     *)
(* button over pages that show the store.                                  *)
(***************************************************************************)
THEOREM InvariantHolds == Spec => []IInv
<1>. USE DEF Tabs, GeneralTab, AdvancedTab
<1>1. Init => IInv
  <2> SUFFICES ASSUME Init PROVE IInv
    OBVIOUS
  <2>1. PICK section \in Sections :
          LET tab == SectionTab(section) IN
          /\ open = TRUE
          /\ current = tab
          /\ loadedTabs = [t \in Tabs |-> t = tab]
          /\ saveConnected = {tab}
          /\ applyEnabled = FALSE
    BY DEF Init
  <2>2. SectionTab(section) \in Tabs
    BY SectionTabType
  <2>3. stored \in [Tabs -> Values] /\ edits = stored
    BY DEF Init
  <2>4. QED
    BY <2>1, <2>2, <2>3 DEF IInv, TypeOK, SaveReachesLoaded, ApplyReflectsUnsaved
<1>2. IInv /\ [Next]_vars => IInv'
  <2> SUFFICES ASSUME IInv, [Next]_vars PROVE IInv'
    OBVIOUS
  <2>. USE DEF IInv, TypeOK, SaveReachesLoaded, ApplyReflectsUnsaved
  <2>1. CASE \E tab \in Tabs : SelectTab(tab)
    <3>1. PICK tab \in Tabs : SelectTab(tab)
      BY <2>1
    <3>2. CASE ShowTab(tab)
      BY <3>1, <3>2 DEF SelectTab, ShowTab
    <3>3. CASE loadedTabs[tab] /\ UNCHANGED <<loadedTabs, saveConnected, edits>>
      BY <3>1, <3>3 DEF SelectTab
    <3>4. QED
      BY <3>1, <3>2, <3>3 DEF SelectTab
  <2>2. CASE \E v \in Values : Edit(v)
    BY <2>2 DEF Edit
  <2>3. CASE Apply
    BY <2>3 DEF Apply, RequestedSave
  <2>4. CASE Ok
    BY <2>4 DEF Ok, RequestedSave
  <2>5. CASE Cancel
    BY <2>5 DEF Cancel
  <2>6. CASE Reopen
    <3>1. PICK section \in Sections : Opened(section)
      BY <2>6 DEF Reopen
    <3>2. SectionTab(section) \in Tabs
      BY SectionTabType
    <3>3. /\ open' = TRUE
          /\ current' = SectionTab(section)
          /\ loadedTabs' = [t \in Tabs |-> t = SectionTab(section)]
          /\ saveConnected' = {SectionTab(section)}
          /\ applyEnabled' = FALSE
          /\ edits' = stored
          /\ stored' = stored
      BY <2>6, <3>1, Zenon DEF Reopen, Opened
    <3>4. TypeOK'
      BY <3>2, <3>3
    <3>5. SaveReachesLoaded'
      BY <3>2, <3>3
    <3>6. ApplyReflectsUnsaved'
      BY <3>3
    <3>7. QED
      BY <3>4, <3>5, <3>6
  <2>7. CASE UNCHANGED vars
    BY <2>7 DEF vars
  <2>8. QED
    BY <2>1, <2>2, <2>3, <2>4, <2>5, <2>6, <2>7 DEF Next
<1>3. QED
  BY <1>1, <1>2, PTL DEF Spec

(***************************************************************************)
(* The dialog's state stays in its type: the current tab is one of the     *)
(* five, the page flags and the edits are total over the tabs.             *)
(***************************************************************************)
THEOREM TypeCorrect == Spec => []TypeOK
  BY InvariantHolds, PTL DEF IInv

(***************************************************************************)
(* While the dialog is open, a disabled Apply button means every created   *)
(* page shows what the store holds.                                        *)
(***************************************************************************)
THEOREM ApplySound == Spec => []ApplyReflectsUnsaved
  BY InvariantHolds, PTL DEF IInv

(***************************************************************************)
(* Closing the dialog saves all or nothing: OK writes the value of every   *)
(* created page, Cancel writes none.                                       *)
(***************************************************************************)
THEOREM CloseSound == Spec => CloseSavesAllOrNothing
<1>1. IInv /\ [Next]_vars =>
        [open /\ ~open' =>
           \/ stored' = stored
           \/ \A t \in Tabs : loadedTabs[t] => stored'[t] = edits[t]]_vars
  <2> SUFFICES ASSUME IInv, [Next]_vars, open, ~open'
               PROVE  \/ stored' = stored
                      \/ \A t \in Tabs : loadedTabs[t] => stored'[t] = edits[t]
    BY DEF vars
  <2>. USE DEF IInv, TypeOK, SaveReachesLoaded
  <2>1. CASE Ok
    BY <2>1 DEF Ok, RequestedSave
  <2>2. CASE ~Ok
    BY <2>2 DEF Next, vars, SelectTab, Edit, Apply, Cancel, Reopen
  <2>3. QED
    BY <2>1, <2>2
<1>2. QED
  BY <1>1, InvariantHolds, PTL DEF Spec, CloseSavesAllOrNothing
=============================================================================
