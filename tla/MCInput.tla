------------------------------ MODULE MCInput ------------------------------
(***************************************************************************)
(* Two viewers on a small keyboard: a letter with a third level, a key of  *)
(* the numeric pad, a digit, Tab, two Shift keys, AltGr, Caps Lock, and a  *)
(* keycode without keysyms.                                                *)
(***************************************************************************)
EXTENDS Input, TLC

CONSTANTS c1, c2

MCKeycodes == 1 .. 9

\* The keysyms of a key without level 3, for each state.
TwoLevels(plain, shifted) ==
  [s \in ModifierStates |-> IF "Shift" \in s THEN shifted ELSE plain]

MCFirstMap ==
  << TwoLevels("KP_Home", "KP_7"),
     TwoLevels("7", "slash"),
     [TwoLevels("q", "Q") EXCEPT ![{"Level3"}] = "at",
                                 ![{"Shift", "Level3"}] = "Greek_OMEGA"],
     TwoLevels("Tab", "ISO_Left_Tab"),
     TwoLevels("Shift_L", "Shift_L"),
     TwoLevels("Shift_R", "Shift_R"),
     TwoLevels("ISO_Level3_Shift", "ISO_Level3_Shift"),
     TwoLevels("Caps_Lock", "Caps_Lock"),
     TwoLevels(NoSymbol, NoSymbol) >>

MCAction == <<"none", "none", "none", "none", "Shift", "Shift", "Level3", "Lock", "none">>

MCKeysyms == {"KP_Home", "Home", "KP_7", "7", "slash", "q", "Q", "at", "Greek_OMEGA",
              "Tab", "ISO_Left_Tab", "Shift_L", "Shift_R", "ISO_Level3_Shift",
              "Caps_Lock", "eacute", "Eacute"}

MCAlternative ==
  [s \in MCKeysyms |-> CASE s = "KP_7" -> "7" [] s = "7" -> "KP_7"
                         [] s = "KP_Home" -> "Home" [] s = "Home" -> "KP_Home"
                         [] s = "Shift_L" -> "Shift_R" [] s = "Shift_R" -> "Shift_L"
                         [] OTHER -> NoSymbol]

MCLower == [s \in MCKeysyms |-> CASE s = "Eacute" -> "eacute" [] s = "Q" -> "q"
                                  [] OTHER -> s]
MCUpper == [s \in MCKeysyms |-> CASE s = "eacute" -> "Eacute" [] s = "q" -> "Q"
                                  [] OTHER -> s]

\* One holds the modifiers that the other's keys do not want.
MCSent == (c1 :> {"ISO_Level3_Shift", "Shift_L", "ISO_Left_Tab", "Eacute"})
       @@ (c2 :> {"Shift_R", "KP_7", "KP_Home", "Greek_OMEGA", "Caps_Lock"})

\* No one holds keys and buttons at once.  What the buttons do does not depend on the
\* keyboard, nor the other way round.
KeysOrButtons == keyboard.down = {} \/ (pointerClient = NoViewer /\ buttonMask = {})

\* The keyboard and what the viewers send are as the theorems of SessionProofs ask.
ASSUME MCRegular == RegularKeyboard
ASSUME MCComplete == CompleteKeyboard
=============================================================================
