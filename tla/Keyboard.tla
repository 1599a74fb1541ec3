------------------------------ MODULE Keyboard ------------------------------
(***************************************************************************)
(* vncKeyboardEvent: from the keysym a viewer sends to the keycodes of the *)
(* X server's keyboard.  A keysym is on some key, at one of four levels;   *)
(* which level is typed depends on Shift and on the level 3 shift (AltGr). *)
(* Where they are not as the keysym needs them, they are pressed or        *)
(* released for the moment of the press, and put back.                     *)
(*                                                                         *)
(* XKB is external: a keyboard map gives each keycode a keysym for each    *)
(* state of the two modifiers, and a key has the same action in each.      *)
(***************************************************************************)
EXTENDS Naturals, FiniteSets, FiniteSetsExt

CONSTANTS Keycodes, Keysyms,
          NoSymbol,
          Action,            \* what a key does to the modifiers' state
          Alternative,       \* altKeysym, NoSymbol where it has no entry
          Lower, Upper,      \* XkbConvertCase
          NumPad,            \* the keys that vncIsAffectedByNumLock
          AvoidShiftNumLock  \* the parameter of this name

NoCode == 0

\* The X protocol has a byte for a keycode.
ASSUME KeycodeAssumption == Keycodes \subseteq 1 .. 255
ASSUME KeysymAssumption ==
  NoSymbol \notin Keysyms /\ {"Tab", "Shift_L"} \subseteq Keysyms
ASSUME ActionAssumption ==
  Action \in [Keycodes -> {"none", "Shift", "Level3", "Lock"}]
ASSUME NumPadAssumption == NumPad \subseteq Keycodes
ASSUME AlternativeAssumption ==
  Alternative \in [Keysyms -> Keysyms \cup {NoSymbol}]
ASSUME CaseAssumption ==
  Lower \in [Keysyms -> Keysyms] /\ Upper \in [Keysyms -> Keysyms]

ModifierStates == SUBSET {"Shift", "Level3"}

Keymaps == [Keycodes -> [ModifierStates -> Keysyms \cup {NoSymbol}]]

\* The keyboard: the keys that are down, the keysym each was pressed for
\* (pressedKeys), and the map.
Keyboards == [down : SUBSET Keycodes,
              held : [Keycodes -> Keysyms \cup {NoSymbol}],
              map : Keymaps]

ModifiersOf(keys) == {Action[k] : k \in keys} \cap {"Shift", "Level3"}

\* vncGetKeyboardState().
StateOf(kb) == ModifiersOf(kb.down)
-----------------------------------------------------------------------------
(***************************************************************************)
(* Which key, in which state                                               *)
(***************************************************************************)
\* vncKeysymToKeycode() for one state.
DirectKey(map, sym, state) ==
  LET keys == {k \in Keycodes : map[k][state] = sym}
  IN IF keys = {} THEN NoCode ELSE Min(keys)

LevelThreeKey(map, state) ==
  LET key == DirectKey(map, "ISO_Level3_Shift", state)
  IN IF key # NoCode THEN key ELSE DirectKey(map, "Mode_switch", state)

LevelThreeMask(map) ==
  LET key == LevelThreeKey(map, {})
  IN {"Level3"} \cap {Action[k] : k \in {key} \ {NoCode}}

Toggled(state, mask) == (state \ mask) \cup (mask \ state)

\* The state as it is, then with Shift changed, with level 3 changed, with both.
Tries(state, l3) ==
  <<state, Toggled(state, {"Shift"}), Toggled(state, l3), Toggled(state, l3 \cup {"Shift"})>>

\* The first state in which a key has sym, the first of them all if there is none.
StateFor(map, sym, tries) ==
  LET hits == {i \in DOMAIN tries : DirectKey(map, sym, tries[i]) # NoCode}
  IN tries[Min(IF hits = {} THEN {1} ELSE hits)]

KeyIn(map, sym, state) == [key |-> DirectKey(map, sym, state), state |-> state]

\* vncKeysymToKeycode().
KeysymToKeycode(map, sym, state) ==
  KeyIn(map, sym, StateFor(map, sym, Tries(state, LevelThreeMask(map))))

Free(map) == {k \in Keycodes : \A s \in ModifierStates : map[k][s] = NoSymbol}

\* vncAddKeysym(): the last keycode without keysyms gets this one, in both
\* cases if it has two.
AddKeysym(map, sym) ==
  IF Free(map) = {} THEN map
  ELSE [map EXCEPT ![Max(Free(map))] =
          [s \in ModifierStates |-> IF "Shift" \in s THEN Upper[sym] ELSE Lower[sym]]]

\* A key that has the keysym, or the one that stands for it.
Known(map, sym, state, exact) ==
  IF exact.key = NoCode /\ Alternative[sym] # NoSymbol
  THEN KeysymToKeycode(map, Alternative[sym], state) ELSE exact

FakesShift(state, choice) == ("Shift" \in state) # ("Shift" \in choice.state)

\* Rather than fake Shift for a key of the numeric pad, take the same symbol
\* from elsewhere.
AvoidingNumPad(map, sym, state, choice) ==
  IF /\ AvoidShiftNumLock /\ Alternative[sym] # NoSymbol
     /\ FakesShift(state, choice) /\ choice.key \in NumPad
  THEN LET other == KeysymToKeycode(map, Alternative[sym], state)
       IN IF other.key = NoCode \/ (FakesShift(state, other) /\ other.key \in NumPad)
          THEN choice ELSE other
  ELSE choice

\* The key to press, and the state to press it in.  Tab goes with the Shift that
\* is held.
Best(map, sym, state, found) ==
  LET best == AvoidingNumPad(map, sym, state, found)
  IN [best EXCEPT !.state = IF sym = "Tab" /\ "Shift" \in state
                            THEN @ \cup {"Shift"} ELSE @]

ChoiceAmong(map, sym, state, known) ==
  IF known.key = NoCode
  THEN LET added == AddKeysym(map, sym)
       IN [map |-> added, best |-> Best(added, sym, state, KeysymToKeycode(added, sym, state))]
  ELSE [map |-> map,
        best |-> IF Action[known.key] = "Lock" THEN [known EXCEPT !.key = NoCode]
                 ELSE Best(map, sym, state, known)]

\* What to press, and the map, which may have been added to.  A lock key is ignored.
Choice(kb, sym) ==
  ChoiceAmong(kb.map, sym, StateOf(kb),
              Known(kb.map, sym, StateOf(kb), KeysymToKeycode(kb.map, sym, StateOf(kb))))
-----------------------------------------------------------------------------
(***************************************************************************)
(* Pressing it                                                             *)
(***************************************************************************)
ShiftKeys == {k \in Keycodes : Action[k] = "Shift"}

LevelThreeKeys(map, state) ==
  {k \in Keycodes : k = LevelThreeKey(map, state) /\ Action[k] = "Level3"}

KeysFor(m, map, state) ==
  IF m = "Shift" THEN ShiftKeys ELSE LevelThreeKeys(map, state)

\* Mutant: only one of the Shift keys that are down is released.
Fakes_OneRelease(down, map, from, to) ==
  LET missing == {m \in to \ from : KeysFor(m, map, from) = {}}
      KeysDown(m) == {k \in down : Action[k] = m}
  IN [press |-> {Min(KeysFor(m, map, from)) : m \in (to \ from) \ missing},
      release |-> {Min(KeysDown(m)) : m \in from \ to},
      missing |-> missing]

\* The keys to press or release for the moment of the press (vncPressShift,
\* vncReleaseShift and the same for level 3) to get from one state to another,
\* and the modifiers that have no key to press.
Fakes(down, map, from, to) ==
  LET missing == {m \in to \ from : KeysFor(m, map, from) = {}}
  IN [press |-> {Min(KeysFor(m, map, from)) : m \in (to \ from) \ missing},
      release |-> {k \in down : Action[k] \in from \ to},
      missing |-> missing]

\* The keys that are down when the key itself is pressed.
DownAtPress(kb, fakes) == (kb.down \ fakes.release) \cup fakes.press

\* When level 3 cannot be had, Shift has been changed already, and stays so.
DownAfterFailure(kb, fakes) ==
  IF "Shift" \in fakes.missing THEN kb.down
  ELSE (kb.down \ {k \in fakes.release : Action[k] = "Shift"})
       \cup {k \in fakes.press : Action[k] = "Shift"}

Pressed(kb, sym, key, map, fakes) ==
  IF fakes.missing # {}
  THEN [kb EXCEPT !.map = map, !.down = DownAfterFailure(kb, fakes)]
  ELSE [down |-> ((DownAtPress(kb, fakes) \cup {key}) \ fakes.press) \cup fakes.release,
        held |-> [k \in Keycodes |-> IF k = key THEN sym
                                     ELSE IF kb.held[k] = sym THEN NoSymbol
                                     ELSE kb.held[k]],
        map |-> map]

PressChoice(kb, sym, choice) ==
  IF choice.best.key = NoCode THEN [kb EXCEPT !.map = choice.map]
  ELSE Pressed(kb, sym, choice.best.key, choice.map,
               Fakes(kb.down, choice.map, StateOf(kb), choice.best.state))

\* vncKeyboardEvent(keysym, down).
PressKey(kb, sym) == PressChoice(kb, sym, Choice(kb, sym))

\* vncKeyboardEvent(keysym, up) for each of syms: the key it was pressed with, if
\* there is one.  PressKey leaves one at most.
ReleaseKeys(kb, syms) ==
  [kb EXCEPT !.down = {k \in @ : kb.held[k] \notin syms},
             !.held = [k \in Keycodes |-> IF kb.held[k] \in syms THEN NoSymbol
                                          ELSE kb.held[k]]]

TypedBy(kb, key, map, fakes) ==
  IF fakes.missing # {} THEN NoSymbol
  ELSE map[key][ModifiersOf(DownAtPress(kb, fakes))]

TypedChoice(kb, choice) ==
  IF choice.best.key = NoCode THEN NoSymbol
  ELSE TypedBy(kb, choice.best.key, choice.map,
               Fakes(kb.down, choice.map, StateOf(kb), choice.best.state))

\* What applications see when sym is pressed now, NoSymbol for nothing.
Typed(kb, sym) == TypedChoice(kb, Choice(kb, sym))
-----------------------------------------------------------------------------
(***************************************************************************)
(* Regular keyboard maps, for a set of keysyms that may be pressed on it.  *)
(***************************************************************************)
\* The states that Shift and level 3 keys can make.
Levels == SUBSET ({"Shift"} \cup ({"Level3"} \cap {Action[k] : k \in Keycodes}))

On(map, sym, k) == \E s \in Levels : map[k][s] = sym

\* k is the key for sym: it has sym or, if no key has, what stands for it.
UsedFor(map, sym, k) ==
  \/ On(map, sym, k)
  \/ /\ Alternative[sym] # NoSymbol
     /\ On(map, Alternative[sym], k)
     /\ \A j \in Keycodes : ~On(map, sym, j)

\* k may be pressed for sym: AvoidShiftNumLock takes what stands for sym, where sym is
\* on the numeric pad.
MayUse(map, sym, k) ==
  \/ UsedFor(map, sym, k)
  \/ /\ AvoidShiftNumLock /\ Alternative[sym] # NoSymbol
     /\ On(map, Alternative[sym], k)
     /\ \E j \in NumPad : On(map, sym, j)

\* One of the keysyms is pressed with k and with another key by turns.
TakesTurns(map, syms, k) ==
  \E sym \in syms : /\ MayUse(map, sym, k)
                    /\ \E j \in Keycodes \ {k} : MayUse(map, sym, j)

Unknown(map, sym) == \A k \in Keycodes : ~UsedFor(map, sym, k)

\* Not every map is so: a US one with a key right of the left Shift has "less" twice.
OneKeyEach(map, syms) ==
  \A sym \in syms : \A j, k \in Keycodes :
     UsedFor(map, sym, j) /\ UsedFor(map, sym, k) => j = k

\* A key for modifiers or locks is the same key in every state.
ModifiersKeyed(map) ==
  \A k \in Keycodes :
     Action[k] # "none" => \E sym \in Keysyms : \A s \in Levels : map[k][s] = sym

\* If keys do level 3 at all, ISO_Level3_Shift is one of them, and only such keys.
LevelThreeKeyed(map) ==
  (\E k \in Keycodes : Action[k] = "Level3")
    => /\ \E k \in Keycodes : \A s \in Levels : map[k][s] = "ISO_Level3_Shift"
       /\ \A k \in Keycodes : On(map, "ISO_Level3_Shift", k) => Action[k] = "Level3"

\* Of a keysym that is not on the map the other case is not either.
CasesApart(map, syms) ==
  \A sym \in syms : Unknown(map, sym) =>
    /\ sym \in {Lower[sym], Upper[sym]}
    /\ \A y \in {Lower[sym], Upper[sym]} :
         /\ Lower[y] = Lower[sym] /\ Upper[y] = Upper[sym]
         /\ \A k \in Keycodes : ~On(map, y, k)

Regular(map, syms) ==
  ModifiersKeyed(map) /\ LevelThreeKeyed(map) /\ CasesApart(map, syms)

\* What stands for a keysym, as altKeysym has it, comes in one case.
AlternativesCaseless(syms) ==
  \A sym \in syms : Alternative[sym] # NoSymbol => Lower[sym] = sym /\ Upper[sym] = sym

\* Tab is on the map, not on the numeric pad; with Shift its key is Tab or ISO_Left_Tab.
TabKeyed(map) ==
  /\ \E k \in Keycodes : On(map, "Tab", k)
  /\ \A k \in NumPad : ~On(map, "Tab", k)
  /\ \A k \in Keycodes : \A s \in Levels :
       map[k][s] = "Tab" => map[k][s \cup {"Shift"}] \in {"Tab", "ISO_Left_Tab"}

\* No lock key stands for another.
LocksPlain(map, syms) ==
  \A sym \in syms : \A k \in Keycodes :
     Action[k] = "Lock" /\ Alternative[sym] # NoSymbol => ~On(map, Alternative[sym], k)

\* There is a free keycode for each keysym that is not on the map.
RoomFor(map, syms) ==
  \E room \in [{sym \in syms : Unknown(map, sym)} -> Free(map)] :
     \A x, y \in {sym \in syms : Unknown(map, sym)} : room[x] = room[y] => x = y

\* Whatever is pressed can be typed.
Complete(map, syms) ==
  /\ "Tab" \in syms => TabKeyed(map)
  /\ LocksPlain(map, syms) /\ RoomFor(map, syms)
=============================================================================
