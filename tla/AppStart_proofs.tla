--------------------------- MODULE AppStart_proofs ---------------------------
(***************************************************************************)
(* Proofs about AppStart.tla, for any number of starts and whatever        *)
(* systemctl does: there is one instance, and no process is left without   *)
(* a window and without a reason.                                          *)
(***************************************************************************)
EXTENDS AppStart, SequenceTheorems, TLAPS

(* The second property needs the first: a setting changed in one process   *)
(* would not be the one that keeps another alive.                          *)
IInv == TypeOK /\ SingleInstance /\ HiddenInBackground

(* RemoveAt is built of two parts of the sequence.                         *)
LEMMA RemoveAtType ==
  ASSUME NEW s \in Seq(BOOLEAN), NEW i \in DOMAIN s
  PROVE  RemoveAt(s, i) \in Seq(BOOLEAN)
<1>1. /\ Len(s) \in Nat /\ DOMAIN s = 1 .. Len(s) /\ i \in Int
      /\ \A j \in 1 .. Len(s) : s[j] \in BOOLEAN
  OBVIOUS
<1>2. SubSeq(s, 1, i - 1) \in Seq(BOOLEAN)
  <2>1. \A j \in 1 .. i - 1 : s[j] \in BOOLEAN
    BY <1>1
  <2> QED
    BY <1>1, <2>1, SubSeqProperties
<1>3. SubSeq(s, i + 1, Len(s)) \in Seq(BOOLEAN)
  <2>1. \A j \in i + 1 .. Len(s) : s[j] \in BOOLEAN
    BY <1>1
  <2> QED
    BY <1>1, <2>1, SubSeqProperties
<1> QED
  BY <1>2, <1>3, ConcatProperties DEF RemoveAt

LEMMA InitInv == Init => IInv
<1> SUFFICES ASSUME Init PROVE IInv
  OBVIOUS
<1>1. calls \in Seq(BOOLEAN)
  BY DEF Init
<1>2. TypeOK
  BY <1>1 DEF Init, TypeOK
<1>3. \A p \in Processes : pc[p] = "off" /\ view[p] = "none" /\ owner # p
  BY NobodyAssumption DEF Init
<1> QED
  BY <1>2, <1>3 DEF IInv, SingleInstance, HiddenInBackground

(* setRunInBackground keeps the types, whatever it is told.                *)
LEMMA SettingType ==
  ASSUME TypeOK, NEW value \in BOOLEAN, setRunInBackground(value)
  PROVE  /\ m_runInBackground' \in BOOLEAN /\ setting' \in BOOLEAN
         /\ enabled' \in BOOLEAN /\ calls' \in Seq(BOOLEAN)
  BY DEF TypeOK, setRunInBackground, diskVars

LEMMA TypeStep == TypeOK /\ [Next]_vars => TypeOK'
<1> SUFFICES ASSUME TypeOK, [Next]_vars PROVE TypeOK'
  OBVIOUS
<1>1. ASSUME UNCHANGED vars PROVE TypeOK'
  BY <1>1 DEF vars, diskVars, TypeOK
<1>2. ASSUME NEW p \in Processes, NEW daemon \in BOOLEAN, Launch(p, daemon) PROVE TypeOK'
  BY <1>2 DEF Launch, diskVars, TypeOK
<1>3. ASSUME NEW p \in Processes,
             RegisterService(p) \/ OtherDaemonExists(p) \/ RaiseFails(p) \/ Close(p) \/ quit(p)
      PROVE  TypeOK'
  BY <1>3 DEF RegisterService, OtherDaemonExists, RaiseFails, Close, quit, diskVars, TypeOK
<1>4. ASSUME NEW p \in Processes, ShowFirstWindow(p) PROVE TypeOK'
  <2>1. setting \in BOOLEAN /\ setRunInBackground(setting)
    BY <1>4 DEF ShowFirstWindow, TypeOK
  <2> QED
    BY <1>4, <2>1, SettingType DEF ShowFirstWindow, TypeOK
<1>5. ASSUME NEW p \in Processes, UserSets(p) PROVE TypeOK'
  <2>1. (~m_runInBackground) \in BOOLEAN
    BY Zenon
  <2>2. setRunInBackground(~m_runInBackground)
    BY <1>5, Zenon DEF UserSets
  <2> QED
    BY <1>5, <2>1, <2>2, SettingType DEF UserSets, TypeOK
<1>6. ASSUME NEW p \in Processes, Raise(p) PROVE TypeOK'
  BY <1>6 DEF Raise, diskVars, TypeOK
<1>7. ASSUME NEW p \in Processes, Exit(p) PROVE TypeOK'
  <2>1. <<>> \in Seq(BOOLEAN)
    OBVIOUS
  <2>2. calls' \in Seq(BOOLEAN)
    BY <1>7, <2>1, Zenon DEF Exit, TypeOK
  <2> QED
    BY <1>7, <2>2 DEF Exit, TypeOK
<1>8. ASSUME NEW i \in DOMAIN calls, SystemctlDone(i) PROVE TypeOK'
  <2>1. calls \in Seq(BOOLEAN) /\ calls[i] \in BOOLEAN
    BY DEF TypeOK
  <2>2. calls' \in Seq(BOOLEAN)
    BY <1>8, <2>1, RemoveAtType DEF SystemctlDone
  <2> QED
    BY <1>8, <2>1, <2>2 DEF SystemctlDone, TypeOK
<1> QED
  BY <1>1, <1>2, <1>3, <1>4, <1>5, <1>6, <1>7, <1>8 DEF Next

LEMMA SingleStep == TypeOK /\ SingleInstance /\ [Next]_vars => SingleInstance'
<1> SUFFICES ASSUME TypeOK, SingleInstance, [Next]_vars PROVE SingleInstance'
  OBVIOUS
<1> USE NobodyAssumption DEF TypeOK, SingleInstance
<1>1. ASSUME UNCHANGED vars PROVE SingleInstance'
  BY <1>1 DEF vars
<1>2. ASSUME NEW p \in Processes, NEW daemon \in BOOLEAN, Launch(p, daemon) PROVE SingleInstance'
  BY <1>2 DEF Launch
<1>3. ASSUME NEW p \in Processes, RegisterService(p) PROVE SingleInstance'
  BY <1>3 DEF RegisterService
<1>4. ASSUME NEW p \in Processes, OtherDaemonExists(p) \/ Raise(p) \/ RaiseFails(p) PROVE SingleInstance'
  BY <1>4 DEF OtherDaemonExists, Raise, RaiseFails
<1>5. ASSUME NEW p \in Processes, ShowFirstWindow(p) \/ Close(p) \/ quit(p) PROVE SingleInstance'
  BY <1>5 DEF ShowFirstWindow, Close, quit
<1>6. ASSUME NEW p \in Processes, Exit(p) PROVE SingleInstance'
  BY <1>6 DEF Exit
<1>7. ASSUME NEW p \in Processes, UserSets(p) PROVE SingleInstance'
  BY <1>7 DEF UserSets
<1>8. ASSUME NEW i \in DOMAIN calls, SystemctlDone(i) PROVE SingleInstance'
  BY <1>8 DEF SystemctlDone
<1> QED
  BY <1>1, <1>2, <1>3, <1>4, <1>5, <1>6, <1>7, <1>8 DEF Next

LEMMA HiddenStep == IInv /\ [Next]_vars => HiddenInBackground'
<1> SUFFICES ASSUME IInv, [Next]_vars PROVE HiddenInBackground'
  OBVIOUS
<1> USE DEF IInv, TypeOK, SingleInstance, HiddenInBackground
<1>1. ASSUME UNCHANGED vars PROVE HiddenInBackground'
  BY <1>1 DEF vars, diskVars
<1>2. ASSUME NEW p \in Processes, NEW daemon \in BOOLEAN, Launch(p, daemon) PROVE HiddenInBackground'
  BY <1>2 DEF Launch, diskVars
<1>3. ASSUME NEW p \in Processes, RegisterService(p) \/ OtherDaemonExists(p) \/ RaiseFails(p)
      PROVE  HiddenInBackground'
  BY <1>3 DEF RegisterService, OtherDaemonExists, RaiseFails, diskVars
(* The new instance is the only one, and its window is shown.              *)
<1>4. ASSUME NEW p \in Processes, ShowFirstWindow(p) PROVE HiddenInBackground'
  BY <1>4, NobodyAssumption DEF ShowFirstWindow
<1>5. ASSUME NEW p \in Processes, Raise(p) PROVE HiddenInBackground'
  BY <1>5 DEF Raise, diskVars
<1>6. ASSUME NEW p \in Processes, Close(p) \/ quit(p) PROVE HiddenInBackground'
  BY <1>6 DEF Close, quit, diskVars
(* The setting is gone with the only instance.                             *)
<1>7. ASSUME NEW p \in Processes, Exit(p) PROVE HiddenInBackground'
  BY <1>7 DEF Exit
(* The setting is changed in a window that is shown.                       *)
<1>8. ASSUME NEW p \in Processes, UserSets(p) PROVE HiddenInBackground'
  BY <1>8 DEF UserSets
<1>9. ASSUME NEW i \in DOMAIN calls, SystemctlDone(i) PROVE HiddenInBackground'
  BY <1>9 DEF SystemctlDone
<1> QED
  BY <1>1, <1>2, <1>3, <1>4, <1>5, <1>6, <1>7, <1>8, <1>9 DEF Next

LEMMA Invariance == Spec => []IInv
<1>1. IInv /\ [Next]_vars => IInv'
  BY TypeStep, SingleStep, HiddenStep DEF IInv
<1> QED
  BY <1>1, InitInv, PTL DEF Spec

(* Every variable keeps its type.                                          *)
THEOREM TypeCorrectness == Spec => []TypeOK
<1>1. IInv => TypeOK
  BY DEF IInv
<1> QED
  BY <1>1, Invariance, PTL

(* registerService in main(): however many starts there are, and whenever  *)
(* each of them ends, the one with a user interface is the one that holds  *)
(* the name.                                                               *)
THEOREM OneInstance == Spec => []SingleInstance
<1>1. IInv => SingleInstance
  BY DEF IInv
<1> QED
  BY <1>1, Invariance, PTL

(* UI::eventFilter: closing a window leaves a process behind only in       *)
(* background mode.                                                        *)
THEOREM NoneLeftBehind == Spec => []HiddenInBackground
<1>1. IInv => HiddenInBackground
  BY DEF IInv
<1> QED
  BY <1>1, Invariance, PTL

=============================================================================
