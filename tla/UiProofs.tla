------------------------------ MODULE UiProofs ------------------------------
(***************************************************************************)
(* For every screen, every set of menus, every key queue and every order   *)
(* of the threads' steps: what "select" chooses is what is highlighted on  *)
(* the screen, and the main thread never sleeps on a key in the queue.     *)
(***************************************************************************)
EXTENDS Ui, TLAPS

\* The next line of the ring of text[].
LEMMA RingLemma ==
  ASSUME IInv, NewLine
  PROVE  /\ text_row' \in 0 .. TextRows - 1 /\ text_top' \in 0 .. TextRows - 1
         /\ LastLineShown'
  BY UiAssumption DEF IInv, TypeOK, LastLineShown, NewLine

LEMMA InitIInv == Init => IInv
<1> SUFFICES ASSUME Init PROVE IInv
  OBVIOUS
<1>1. key_queue \in Seq(Key) /\ Len(key_queue) <= QueueMax
  BY UiAssumption DEF Init
<1>2. /\ text_row \in 0 .. TextRows - 1 /\ text_top \in 0 .. TextRows - 1
      /\ LastLineShown
  BY UiAssumption DEF Init, LastLineShown
<1>3. /\ waiting \in BOOLEAN /\ show_text \in BOOLEAN /\ fresh \in BOOLEAN
      /\ allow_display_toggle \in BOOLEAN /\ show_menu \in BOOLEAN
      /\ gShowBackButton \in BOOLEAN /\ args \in Menus \cup {NoMenu}
      /\ typed \in Key \cup {None} /\ key \in Key \cup {None}
  BY DEF Init
<1>4. /\ menu_top \in Nat /\ menu_items \in Nat /\ menu_sel \in Nat
      /\ menu_show_start \in Nat /\ item_count \in Nat /\ selected \in Nat
      /\ wrap_count \in 0 .. 2 /\ chosen_item \in Int /\ pc = "idle"
  BY DEF Init
<1>5. TypeOK
  BY <1>1, <1>2, <1>3, <1>4 DEF TypeOK
<1> QED
  BY <1>2, <1>5 DEF Init, IInv, SelectedShown, ChosenShown, NoLostKey, InMenu

\* A step of input_thread.
LEMMA InputLemma == IInv /\ InputThread => IInv'
<1> SUFFICES ASSUME IInv, InputThread PROVE IInv'
  OBVIOUS
<1> USE DEF menu, local, keys, text
<1>1. CASE InputToggle
  <2>1. /\ typed' = None /\ show_text' \in BOOLEAN /\ fresh' \in BOOLEAN
        /\ fresh => fresh'
    BY <1>1 DEF InputToggle, Update, IInv, TypeOK
  <2>2. UNCHANGED <<keys, allow_display_toggle, menu, gShowBackButton, local, text>>
    BY <1>1 DEF InputToggle
  <2>3. TypeOK'
    BY <2>1, <2>2 DEF IInv, TypeOK
  <2>4. SelectedShown'
    BY <2>1, <2>2 DEF IInv, SelectedShown, InMenu
  <2>5. ChosenShown' /\ NoLostKey' /\ LastLineShown'
    BY <2>2 DEF IInv, ChosenShown, NoLostKey, LastLineShown
  <2> QED
    BY <2>2, <2>3, <2>4, <2>5 DEF IInv, InMenu
<1>2. ASSUME NEW k \in Keys, InputKey(k) PROVE IInv'
  <2>1. k \in Key
    BY UiAssumption
  <2>2. key_queue' \in Seq(Key) /\ Len(key_queue') <= QueueMax
    <3>1. CASE Len(key_queue) < QueueMax
      BY <1>2, <2>1, <3>1, UiAssumption DEF InputKey, IInv, TypeOK
    <3>2. CASE ~(Len(key_queue) < QueueMax)
      BY <1>2, <3>2 DEF InputKey, IInv, TypeOK
    <3> QED
      BY <3>1, <3>2
  <2>4. waiting' \in BOOLEAN /\ typed' \in Key \cup {None}
    BY <1>2, <2>1 DEF InputKey, IInv, TypeOK
  <2>3. NoLostKey'
    BY <1>2 DEF InputKey, IInv, NoLostKey
  <2> QED
    BY <1>2, <2>2, <2>3, <2>4 DEF InputKey, IInv, TypeOK, SelectedShown, ChosenShown,
       LastLineShown, InMenu
<1> QED
  BY <1>1, <1>2 DEF InputThread

\* A step of the main thread between two menus.
LEMMA IdleLemma == IInv /\ Idle => IInv'
<1> SUFFICES ASSUME IInv, Idle PROVE IInv'
  OBVIOUS
<1> USE DEF menu, local, keys, text
<1>1. CASE UiShowText
  <2>1. fresh' \in BOOLEAN
    BY <1>1 DEF UiShowText, Update, IInv, TypeOK
  <2> QED
    BY <1>1, <2>1 DEF UiShowText, IInv, TypeOK, SelectedShown, ChosenShown,
       NoLostKey, LastLineShown, InMenu
<1>2. CASE UiPrint
  <2>1. /\ text_row' \in 0 .. TextRows - 1 /\ text_top' \in 0 .. TextRows - 1
        /\ LastLineShown'
    BY <1>2, RingLemma DEF UiPrint
  <2> QED
    BY <1>2, <2>1 DEF UiPrint, Update, IInv, TypeOK, SelectedShown, ChosenShown,
       NoLostKey, InMenu
<1>3. ASSUME NEW m \in Menus, GetMenuSelection(m) PROVE IInv'
  <2>1. allow_display_toggle' \in BOOLEAN /\ fresh' \in BOOLEAN
    BY <1>3 DEF GetMenuSelection, Update, IInv, TypeOK
  <2>2. key_queue' \in Seq(Key) /\ Len(key_queue') <= QueueMax
    BY <1>3, UiAssumption DEF GetMenuSelection
  <2> QED
    BY <1>3, <2>1, <2>2 DEF GetMenuSelection, IInv, TypeOK, SelectedShown,
       ChosenShown, NoLostKey, LastLineShown, InMenu
<1> QED
  BY <1>1, <1>2, <1>3 DEF Idle

\* ui_menu_select() for the row above or below the selected one keeps the
\* selected row in the window.
LEMMA WindowLemma ==
  ASSUME IInv, InMenu, NEW s \in {selected - 1, selected + 1}
  PROVE  /\ Wrap(s) \in Nat /\ Wrap(s) < menu_items
         /\ ShowStart(Wrap(s)) \in Nat /\ ShowStart(Wrap(s)) <= Wrap(s)
         /\ menu_top + Wrap(s) - ShowStart(Wrap(s)) < TextRows
<1>1. /\ selected \in Nat /\ selected < menu_items /\ menu_items \in Nat
      /\ menu_show_start \in Nat /\ menu_top \in Nat /\ menu_top < TextRows
      /\ TextRows \in Nat
  BY UiAssumption DEF IInv, TypeOK, SelectedShown
<1>2. Wrap(s) \in Nat /\ Wrap(s) < menu_items
  BY <1>1 DEF Wrap
<1> QED
  BY <1>1, <1>2 DEF ShowStart

\* A step of get_menu_selection().
LEMMA MenuLemma == IInv /\ Menu => IInv'
<1> SUFFICES ASSUME IInv, Menu PROVE IInv'
  OBVIOUS
<1> USE DEF menu, local, keys, text
<1>1. CASE UiStartMenu
  <2>1. args \in Menus
    BY <1>1 DEF UiStartMenu, IInv
  <2>2. /\ args.top \in Nat /\ args.top < TextRows /\ TextRows \in Nat
        /\ item_count' \in Nat /\ args.initial \in Nat
        /\ args.initial < item_count'
    BY <1>1, <2>1, UiAssumption DEF UiStartMenu, Min2
  <2>3. menu_items' \in Nat /\ args.initial < menu_items'
    BY <1>1, <2>2 DEF UiStartMenu
  <2>4. TypeOK'
    BY <1>1, <2>2, <2>3 DEF UiStartMenu, Update, IInv, TypeOK
  <2>5. SelectedShown'
    BY <1>1, <2>2, <2>3 DEF UiStartMenu, Update, SelectedShown
  <2> QED
    BY <1>1, <2>2, <2>4, <2>5 DEF UiStartMenu, IInv, ChosenShown, NoLostKey,
       LastLineShown
<1>2. CASE WaitKey
  BY <1>2 DEF WaitKey, IInv, TypeOK, SelectedShown, ChosenShown, NoLostKey,
     LastLineShown, InMenu
<1>3. CASE TakeKey
  <2>1. /\ key' \in Key /\ key_queue' \in Seq(Key)
        /\ Len(key_queue') <= QueueMax
    BY <1>3, UiAssumption DEF TakeKey, IInv, TypeOK
  <2> QED
    BY <1>3, <2>1 DEF TakeKey, IInv, TypeOK, SelectedShown, ChosenShown,
       NoLostKey, LastLineShown, InMenu
<1>4. CASE Highlight
  <2>1. PICK s \in {selected - 1, selected + 1} : UiMenuSelect(s)
    BY <1>4 DEF Highlight
  <2>2. InMenu
    BY <1>4 DEF Highlight, InMenu
  <2>3. /\ selected' \in Nat /\ menu_sel' = selected' /\ selected' < menu_items
        /\ menu_show_start' \in Nat /\ menu_show_start' <= selected'
        /\ menu_top + selected' - menu_show_start' < TextRows
    BY <2>1, <2>2, WindowLemma DEF UiMenuSelect
  <2>4. fresh' = TRUE /\ UNCHANGED <<show_menu, menu_top, menu_items>>
    BY <2>1, <2>2 DEF UiMenuSelect, Update, IInv, TypeOK, SelectedShown
  <2>5. SelectedShown'
    BY <1>4, <2>2, <2>3, <2>4 DEF IInv, SelectedShown
  <2>6. /\ text_row' \in 0 .. TextRows - 1 /\ text_top' \in 0 .. TextRows - 1
        /\ LastLineShown' /\ gShowBackButton' \in BOOLEAN
    <3>1. CASE Jumped /\ wrap_count = 2
      BY <1>4, <3>1, RingLemma DEF Highlight, IInv, TypeOK
    <3>2. CASE ~(Jumped /\ wrap_count = 2)
      BY <1>4, <3>2 DEF Highlight, IInv, TypeOK, LastLineShown
    <3> QED
      BY <3>1, <3>2
  <2>7. wrap_count' \in 0 .. 2
    BY <1>4 DEF Highlight, IInv, TypeOK
  <2> QED
    BY <1>4, <2>2, <2>3, <2>4, <2>5, <2>6, <2>7 DEF Highlight, IInv, TypeOK,
       ChosenShown, NoLostKey, InMenu
<1>5. CASE Choose
  <2>1. chosen_item' \in Int
    BY <1>5 DEF Choose, IInv, TypeOK, GoBack
  <2>2. SelectedShown' /\ ChosenShown'
    BY <1>5 DEF Choose, IInv, SelectedShown, ChosenShown, InMenu
  <2> QED
    BY <1>5, <2>1, <2>2 DEF Choose, IInv, TypeOK, NoLostKey, LastLineShown,
       InMenu
<1>6. CASE UiEndMenu
  BY <1>6 DEF UiEndMenu, Update, IInv, TypeOK, SelectedShown, ChosenShown,
     NoLostKey, LastLineShown, InMenu
<1>7. CASE Return
  <2>1. /\ allow_display_toggle' \in BOOLEAN /\ key_queue' \in Seq(Key)
        /\ Len(key_queue') <= QueueMax
    BY <1>7, UiAssumption DEF Return, IInv, TypeOK
  <2> QED
    BY <1>7, <2>1 DEF Return, IInv, TypeOK, SelectedShown, ChosenShown,
       NoLostKey, LastLineShown, InMenu, NoMenu, None
<1> QED
  BY <1>1, <1>2, <1>3, <1>4, <1>5, <1>6, <1>7 DEF Menu

\* The invariant of the key queue, the menus and the text, of which
\* SelectedShown is a part.
THEOREM Invariance == Spec => []IInv
<1>1. IInv /\ UNCHANGED vars => IInv'
  BY DEF vars, menu, local, keys, text, IInv, TypeOK, SelectedShown,
     ChosenShown, NoLostKey, LastLineShown, InMenu
<1> QED
  BY <1>1, InitIInv, InputLemma, IdleLemma, MenuLemma, PTL DEF Spec, Next

\* The row that "select" chooses is the one highlighted on the screen.
THEOREM Highlighted == Spec => []SelectedShown
<1>1. IInv => SelectedShown
  BY DEF IInv
<1> QED
  BY <1>1, Invariance, PTL
=============================================================================
