-------------------------------- MODULE MCUi --------------------------------
(* A small screen, a main menu that needs scrolling, a submenu that is     *)
(* longer than the table of rows and one with a single item.               *)
EXTENDS Ui

MCMenus == {[top |-> 1, items |-> 3, initial |-> 0, main |-> TRUE],
            [top |-> 0, items |-> 5, initial |-> 2, main |-> FALSE],
            [top |-> 2, items |-> 1, initial |-> 0, main |-> FALSE]}
=============================================================================
