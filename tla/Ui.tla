--------------------------------- MODULE Ui ---------------------------------
(***************************************************************************)
(* The screen, the key queue and the menus (ui.c, default_recovery_ui.c    *)
(* and get_menu_selection() of recovery.c), shared by the main thread and  *)
(* input_thread.                                                           *)
(*                                                                         *)
(* gUpdateMutex and key_queue_mutex make each ui_ function one step.  The  *)
(* main thread is in get_menu_selection() when pc is not "idle"; between   *)
(* two menus it prints, and shows and hides the text.  The progress bar is *)
(* left out: it shares nothing with the menus but the mutex.               *)
(***************************************************************************)
EXTENDS Integers, Sequences

CONSTANTS
    TextRows,     \* text_rows, the lines on the screen
    MenuMaxRows,  \* MENU_MAX_ROWS
    QueueMax,     \* the size of key_queue
    Keys,         \* the keys of the device
    Menus         \* records: header lines, items, initial selection, and
                  \* whether it is the main menu

Min2(a, b) == IF a < b THEN a ELSE b

Key == {"down", "up", "menu", "home", "back", "power", "alt-l"}

ASSUME UiAssumption ==
    /\ TextRows \in Nat \ {0} /\ MenuMaxRows \in Nat /\ QueueMax \in Nat \ {0}
    /\ Keys \subseteq Key
    /\ \A m \in Menus :
           /\ m.top \in 0 .. TextRows - 1 /\ m.items \in Nat /\ m.main \in BOOLEAN
           /\ m.initial \in 0 .. Min2(m.items, MenuMaxRows - m.top) - 1

VARIABLES
    key_queue,
    waiting,            \* the main thread sleeps in pthread_cond_wait()
    typed,              \* the key input_thread has queued and not finished with
    show_text,
    allow_display_toggle,
    fresh,              \* the surface shows the current state
    show_menu, menu_top, menu_items, menu_sel, menu_show_start,
    gShowBackButton,
    pc, args,           \* get_menu_selection(): where it is, its arguments
    item_count, selected, wrap_count, key, chosen_item,
    text_row, text_top

menu == <<show_menu, menu_top, menu_items, menu_sel, menu_show_start>>
local == <<pc, args, item_count, selected, wrap_count, key, chosen_item>>
keys == <<key_queue, waiting>>
text == <<text_row, text_top>>
vars == <<keys, typed, show_text, allow_display_toggle, fresh, menu,
          gShowBackButton, local, text>>

None == "none"
GoBack == -5
NoMenu == [top |-> 0, items |-> 1, initial |-> 0, main |-> FALSE]

Init ==
    /\ key_queue = <<>> /\ waiting = FALSE /\ typed = None
    /\ show_text = FALSE /\ allow_display_toggle = TRUE /\ fresh = FALSE
    /\ show_menu = FALSE /\ menu_top = 0 /\ menu_items = 0 /\ menu_sel = 0
    /\ menu_show_start = 0
    /\ gShowBackButton \in BOOLEAN    \* BOARD_HAS_NO_SELECT_BUTTON
    /\ pc = "idle" /\ args = NoMenu
    /\ item_count = 0 /\ selected = 0 /\ wrap_count = 0 /\ key = None
    /\ chosen_item = -1
    /\ text_row = 0 /\ text_top = 1 % TextRows

\* update_screen_locked()
Update == fresh' = TRUE

-----------------------------------------------------------------------------
(* input_thread                                                            *)

\* Mutant: the main thread is not woken.
InputKeySilently(k) ==
    /\ typed = None
    /\ typed' = IF k \in {"menu", "back", "alt-l"} THEN k ELSE None
    /\ key_queue' = IF Len(key_queue) < QueueMax THEN Append(key_queue, k)
                    ELSE key_queue
    /\ UNCHANGED <<waiting, show_text, allow_display_toggle, fresh, menu,
                   gShowBackButton, local, text>>

\* A key is put in the queue where there is room and the main thread woken.
\* A release changes nothing here.  Only some keys can toggle the display.
InputKey(k) ==
    /\ typed = None
    /\ typed' = IF k \in {"menu", "back", "alt-l"} THEN k ELSE None
    /\ IF Len(key_queue) < QueueMax
       THEN key_queue' = Append(key_queue, k) /\ waiting' = FALSE
       ELSE UNCHANGED keys
    /\ UNCHANGED <<show_text, allow_display_toggle, fresh, menu,
                   gShowBackButton, local, text>>

ToggleDisplay(k) ==
    \/ k = "alt-l"
    \/ ~gShowBackButton /\ allow_display_toggle /\ k \in {"menu", "back"}

InputToggle ==
    /\ typed # None /\ typed' = None
    /\ IF ToggleDisplay(typed) THEN show_text' = ~show_text /\ Update
       ELSE UNCHANGED <<show_text, fresh>>
    /\ UNCHANGED <<keys, allow_display_toggle, menu, gShowBackButton, local,
                   text>>

-----------------------------------------------------------------------------
(* The main thread between two menus                                       *)

\* ui_show_text() updates the screen, ui_set_show_text() does not.
UiShowText ==
    /\ pc = "idle" /\ show_text' \in BOOLEAN
    /\ \/ Update
       \/ fresh' = (fresh /\ show_text' = show_text)
    /\ UNCHANGED <<keys, typed, allow_display_toggle, menu, gShowBackButton,
                   local, text>>

\* The rows of text[] are a ring; a line that ends moves it on.
NewLine ==
    LET next == (text_row + 1) % TextRows
    IN /\ text_row' = next
       /\ text_top' = IF next = text_top THEN (text_top + 1) % TextRows
                      ELSE text_top

UiPrint ==
    /\ pc = "idle" /\ NewLine /\ Update
    /\ UNCHANGED <<keys, typed, show_text, allow_display_toggle, menu,
                   gShowBackButton, local>>

-----------------------------------------------------------------------------
(* get_menu_selection()                                                    *)

\* prompt_and_wait() allows the toggle for the main menu; resetting the
\* progress bar, it first updates the screen.
GetMenuSelection(m) ==
    /\ pc = "idle" /\ pc' = "start" /\ args' = m
    /\ allow_display_toggle' = (m.main \/ allow_display_toggle)
    /\ key_queue' = <<>>
    /\ IF m.main THEN Update ELSE UNCHANGED fresh
    /\ UNCHANGED <<waiting, typed, show_text, menu, gShowBackButton,
                   item_count, selected, wrap_count, key, chosen_item, text>>

UiStartMenu ==
    /\ pc = "start" /\ pc' = "wait"
    /\ item_count' = Min2(args.items, MenuMaxRows - args.top)
    /\ menu_items' = item_count' + (IF gShowBackButton THEN 1 ELSE 0)
    /\ menu_top' = args.top /\ show_menu' = TRUE
    /\ menu_sel' = args.initial /\ menu_show_start' = args.initial
    /\ selected' = args.initial /\ chosen_item' = -1 /\ wrap_count' = 0
    /\ Update
    /\ UNCHANGED <<keys, typed, show_text, allow_display_toggle,
                   gShowBackButton, args, key, text>>

\* Mutant: the length of the queue is not tested before the wait.
WaitKeyUntested ==
    /\ pc = "wait" /\ ~waiting
    /\ waiting' = TRUE
    /\ UNCHANGED <<key_queue, typed, show_text, allow_display_toggle, fresh,
                   menu, gShowBackButton, local, text>>

\* ui_wait_key()
WaitKey ==
    /\ pc = "wait" /\ ~waiting /\ key_queue = <<>>
    /\ waiting' = TRUE
    /\ UNCHANGED <<key_queue, typed, show_text, allow_display_toggle, fresh,
                   menu, gShowBackButton, local, text>>

TakeKey ==
    /\ pc = "wait" /\ ~waiting /\ key_queue # <<>>
    /\ key' = Head(key_queue) /\ key_queue' = Tail(key_queue)
    /\ pc' = "handle"
    /\ UNCHANGED <<waiting, typed, show_text, allow_display_toggle, fresh,
                   menu, gShowBackButton, args, item_count, selected,
                   wrap_count, chosen_item, text>>

\* device_handle_key()
Action ==
    CASE ~show_text -> "none"
      [] show_text /\ key = "down" -> "down"
      [] show_text /\ key \in {"up", "menu"} -> "up"
      [] show_text /\ key = "home" -> "select"
      [] show_text /\ key = "back" -> "back"
      [] show_text /\ key = "power" ->
           IF gShowBackButton THEN "select"
           ELSE IF ~allow_display_toggle THEN "back" ELSE "none"
      [] OTHER -> "none"

Wrap(sel) ==
    IF sel < 0 THEN menu_items + sel
    ELSE IF sel >= menu_items THEN sel - menu_items ELSE sel

\* Mutant: the window moves one row too late.
ShowStartLate(sel) ==
    LET up == IF sel < menu_show_start THEN sel ELSE menu_show_start
    IN IF sel - up + menu_top > TextRows THEN sel + menu_top - TextRows + 1
       ELSE up

\* ui_menu_select(): the window moves with the selection.
ShowStart(sel) ==
    LET up == IF sel < menu_show_start THEN sel ELSE menu_show_start
    IN IF sel - up + menu_top >= TextRows THEN sel + menu_top - TextRows + 1
       ELSE up

UiMenuSelect(sel) ==
    /\ selected' = Wrap(sel) /\ menu_sel' = Wrap(sel)
    /\ menu_show_start' = ShowStart(Wrap(sel))
    /\ IF Wrap(sel) # menu_sel THEN Update ELSE UNCHANGED fresh
    /\ UNCHANGED <<show_menu, menu_top, menu_items>>

\* Three jumps across the end of the menu switch the back button.
Jumped == selected' - selected \notin {-1, 0, 1}

Highlight ==
    /\ pc = "handle" /\ pc' = "wait"
    /\ \/ Action = "down" /\ UiMenuSelect(selected + 1)
       \/ Action = "up" /\ UiMenuSelect(selected - 1)
    /\ wrap_count' = IF Jumped THEN (wrap_count + 1) % 3 ELSE wrap_count
    /\ IF Jumped /\ wrap_count = 2
       THEN gShowBackButton' = ~gShowBackButton /\ NewLine
       ELSE UNCHANGED <<gShowBackButton, text>>
    /\ UNCHANGED <<keys, typed, show_text, allow_display_toggle, args,
                   item_count, key, chosen_item>>

Choose ==
    /\ pc = "handle"
    /\ \/ /\ Action = "select" /\ pc' = "end"
          /\ chosen_item' = IF gShowBackButton /\ selected = item_count
                            THEN GoBack ELSE selected
       \/ Action = "back" /\ pc' = "end" /\ chosen_item' = GoBack
       \/ Action = "none" /\ pc' = "wait" /\ UNCHANGED chosen_item
    /\ UNCHANGED <<keys, typed, show_text, allow_display_toggle, fresh, menu,
                   gShowBackButton, args, item_count, selected, wrap_count,
                   key, text>>

UiEndMenu ==
    /\ pc = "end" /\ pc' = "return" /\ show_menu' = FALSE /\ Update
    /\ UNCHANGED <<keys, typed, show_text, allow_display_toggle, menu_top,
                   menu_items, menu_sel, menu_show_start, gShowBackButton,
                   args, item_count, selected, wrap_count, key, chosen_item,
                   text>>

Return ==
    /\ pc = "return" /\ pc' = "idle" /\ key_queue' = <<>>
    /\ allow_display_toggle' = (allow_display_toggle /\ ~args.main)
    /\ args' = NoMenu /\ item_count' = 0 /\ selected' = 0 /\ wrap_count' = 0
    /\ key' = None /\ chosen_item' = -1
    /\ UNCHANGED <<waiting, typed, show_text, fresh, menu, gShowBackButton,
                   text>>

Idle == UiShowText \/ UiPrint \/ \E m \in Menus : GetMenuSelection(m)

Menu == UiStartMenu \/ WaitKey \/ TakeKey \/ Highlight \/ Choose \/ UiEndMenu
        \/ Return

InputThread == InputToggle \/ \E k \in Keys : InputKey(k)

Next == InputThread \/ Idle \/ Menu

Spec == Init /\ [][Next]_vars

\* The threads are scheduled; the user need not press a key
\* and the main thread may be busy for ever between two menus.
FairSpec ==
    /\ Spec
    /\ WF_vars(Menu) /\ WF_vars(InputToggle)

-----------------------------------------------------------------------------
(* Properties                                                              *)

InMenu == pc \in {"wait", "handle", "end"}

TypeOK ==
    /\ key_queue \in Seq(Key) /\ Len(key_queue) <= QueueMax
    /\ waiting \in BOOLEAN /\ typed \in Key \cup {None}
    /\ show_text \in BOOLEAN /\ allow_display_toggle \in BOOLEAN
    /\ fresh \in BOOLEAN /\ show_menu \in BOOLEAN
    /\ menu_top \in Nat /\ menu_items \in Nat /\ menu_sel \in Nat
    /\ menu_show_start \in Nat /\ gShowBackButton \in BOOLEAN
    /\ pc \in {"idle", "start", "wait", "handle", "end", "return"}
    /\ args \in Menus \cup {NoMenu}
    /\ item_count \in Nat /\ selected \in Nat /\ wrap_count \in 0 .. 2
    /\ key \in Key \cup {None} /\ chosen_item \in Int
    /\ text_row \in 0 .. TextRows - 1 /\ text_top \in 0 .. TextRows - 1

\* The row that "select" would choose is the highlighted one: the selection
\* get_menu_selection() keeps for itself is the one on the screen, its row
\* is within the window, and the screen is up to date.
SelectedShown ==
    InMenu => /\ selected = menu_sel /\ menu_sel < menu_items
              /\ menu_show_start <= menu_sel
              /\ menu_top + menu_sel - menu_show_start < TextRows
              /\ show_menu /\ fresh

\* What a menu returns is the row that was highlighted, or GO_BACK.
ChosenShown ==
    pc \in {"end", "return"} => chosen_item \in {GoBack, menu_sel}

\* The main thread does not sleep on a key that is in the queue.
NoLostKey == waiting => pc = "wait" /\ key_queue = <<>>

\* The last of the lines on the screen is the one that is being printed.
LastLineShown == text_top = (text_row + 1) % TextRows

IInv ==
    /\ TypeOK
    /\ SelectedShown
    /\ ChosenShown
    /\ NoLostKey
    /\ LastLineShown
    /\ pc = "start" => args \in Menus
    /\ InMenu => menu_top < TextRows

\* A key that is in the queue of an open menu is taken from it.
KeyTaken == pc = "wait" /\ key_queue # <<>> ~> pc = "handle"
=============================================================================
