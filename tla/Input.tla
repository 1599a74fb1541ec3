------------------------------- MODULE Input -------------------------------
(***************************************************************************)
(* The viewers' keyboards and pointers: VNCSConnectionST's key and pointer *)
(* events, the rights to send them, which the local user may take away and *)
(* give back (setConnStatus), and the X server's one keyboard and one      *)
(* pointer that all of them share (Keyboard, vncPointerButtonAction).      *)
(*                                                                         *)
(* Connections come authenticated, and go whenever they like: Session is   *)
(* about how.  Where the pointer is does not matter, only its buttons.     *)
(***************************************************************************)
EXTENDS Keyboard

CONSTANTS Viewers,
          NoViewer,
          Sent,      \* client -> the keysyms it sends
          Buttons,   \* the button masks they send, as sets of buttons
          FirstMap   \* the keyboard map at the start

ASSUME ViewerAssumption == NoViewer \notin Viewers
ASSUME SentAssumption == Sent \in [Viewers -> SUBSET Keysyms]
ASSUME MapAssumption == FirstMap \in Keymaps

VARIABLES conn,           \* VNCSConnectionST
          keyboard,       \* the X server's
          buttonMask,     \* oldButtonMask: the buttons that are down there
          pointerClient   \* who holds a button

inputVars == <<conn, keyboard, buttonMask, pointerClient>>

\* input: AccessKeyEvents and AccessPtrEvents, which setStatus changes together.
InputConnection == [life : {"none", "open", "closing"}, input : BOOLEAN,
               pressedKeys : SUBSET Keysyms]

InputTypeOK ==
  /\ conn \in [Viewers -> InputConnection]
  /\ keyboard \in Keyboards
  /\ buttonMask \in Buttons \cup {{}}
  /\ pointerClient \in Viewers \cup {NoViewer}

Nobody == [life |-> "none", input |-> FALSE, pressedKeys |-> {}]

InputInit ==
  /\ conn = [c \in Viewers |-> Nobody]
  /\ keyboard = [down |-> {}, held |-> [k \in Keycodes |-> NoSymbol],
                 map |-> FirstMap]
  /\ buttonMask = {}
  /\ pointerClient = NoViewer

Connect(c) ==
  /\ conn[c].life = "none"
  /\ \E input \in BOOLEAN :
       conn' = [conn EXCEPT ![c] = [Nobody EXCEPT !.life = "open", !.input = input]]
  /\ UNCHANGED <<keyboard, buttonMask, pointerClient>>

Close(c) ==
  /\ conn[c].life = "open"
  /\ conn' = [conn EXCEPT ![c].life = "closing"]
  /\ UNCHANGED <<keyboard, buttonMask, pointerClient>>

\* setStatus(): full access, or viewing only.  (Status 3 is Close.)
SetStatus(c, input) ==
  /\ conn[c].life # "none"
  /\ conn' = [conn EXCEPT ![c].input = input]
  /\ UNCHANGED <<keyboard, buttonMask, pointerClient>>
-----------------------------------------------------------------------------
(***************************************************************************)
(* Key and pointer events                                                  *)
(***************************************************************************)
\* ISO_Left_Tab becomes Tab; whoever holds no Shift then has it pressed for the
\* duration of the event (VNCSConnectionSTShiftPresser).
NeedsShift(c, sym) ==
  sym = "ISO_Left_Tab" /\ conn[c].pressedKeys \cap {"Shift_L", "Shift_R"} = {}

Remapped(sym) == IF sym = "ISO_Left_Tab" THEN "Tab" ELSE sym

WithShift(kb, needed) == IF needed THEN PressKey(kb, "Shift_L") ELSE kb

WithoutShift(kb, needed) == IF needed THEN ReleaseKeys(kb, {"Shift_L"}) ELSE kb

KeyDown(c, sym) ==
  LET shift == NeedsShift(c, sym)
      key == Remapped(sym)
  IN /\ conn[c].life = "open" /\ conn[c].input
     /\ conn' = [conn EXCEPT ![c].pressedKeys = @ \cup {key}]
     /\ keyboard' =
          WithoutShift(PressKey(WithShift(keyboard, shift), key), shift)
     /\ UNCHANGED <<buttonMask, pointerClient>>

\* A release is passed on only for a key that this client has pressed.
KeyUp(c, sym) ==
  LET shift == NeedsShift(c, sym)
      key == Remapped(sym)
      released == {key} \cap conn[c].pressedKeys
  IN /\ conn[c].life = "open" /\ conn[c].input
     /\ conn' = [conn EXCEPT ![c].pressedKeys = @ \ released]
     /\ keyboard' =
          WithoutShift(ReleaseKeys(WithShift(keyboard, shift), released), shift)
     /\ UNCHANGED <<buttonMask, pointerClient>>

\* Mutant: whoever presses a button takes the pointer.
PointerEvent_Grabs(c, mask) ==
  /\ conn[c].life = "open" /\ conn[c].input
  /\ pointerClient \in {NoViewer, c} \/ mask # {}
  /\ pointerClient' = IF mask # {} THEN c ELSE NoViewer
  /\ buttonMask' = mask
  /\ UNCHANGED <<conn, keyboard>>

\* Whoever holds a button has the pointer to itself.
PointerEvent(c, mask) ==
  /\ conn[c].life = "open" /\ conn[c].input
  /\ pointerClient \in {NoViewer, c}
  /\ pointerClient' = IF mask # {} THEN c ELSE NoViewer
  /\ buttonMask' = mask
  /\ UNCHANGED <<conn, keyboard>>

\* Mutant: the keys are released only if the client still has the right to.
Remove_IfAllowed(c) ==
  /\ conn[c].life = "closing"
  /\ conn' = [conn EXCEPT ![c] = Nobody]
  /\ keyboard' = IF conn[c].input THEN ReleaseKeys(keyboard, conn[c].pressedKeys)
                 ELSE keyboard
  /\ pointerClient' = IF pointerClient = c THEN NoViewer ELSE pointerClient
  /\ UNCHANGED buttonMask

\* Mutant: pointerClient is left pointing to the connection that is gone.
Remove_KeepsPointer(c) ==
  /\ conn[c].life = "closing"
  /\ conn' = [conn EXCEPT ![c] = Nobody]
  /\ keyboard' = ReleaseKeys(keyboard, conn[c].pressedKeys)
  /\ UNCHANGED <<buttonMask, pointerClient>>

\* ~VNCSConnectionST: the keys are released, whatever the client's rights are by
\* now; the buttons are not.
Remove(c) ==
  /\ conn[c].life = "closing"
  /\ conn' = [conn EXCEPT ![c] = Nobody]
  /\ keyboard' = ReleaseKeys(keyboard, conn[c].pressedKeys)
  /\ pointerClient' = IF pointerClient = c THEN NoViewer ELSE pointerClient
  /\ UNCHANGED buttonMask

InputNext ==
  \E c \in Viewers :
    \/ Connect(c) \/ Close(c) \/ Remove(c)
    \/ \E input \in BOOLEAN : SetStatus(c, input)
    \/ \E sym \in Sent[c] : KeyDown(c, sym) \/ KeyUp(c, sym)
    \/ \E mask \in Buttons : PointerEvent(c, mask)

InputSpec == InputInit /\ [][InputNext]_inputVars

\* The block handler removes a socket that is shut down.
InputFairness == \A c \in Viewers : WF_inputVars(Remove(c))

FairInputSpec == InputSpec /\ InputFairness
-----------------------------------------------------------------------------
(***************************************************************************)
(* Properties                                                              *)
(***************************************************************************)
\* The keys noted for a keysym, which its release will release.
Noted == {k \in Keycodes : keyboard.held[k] # NoSymbol}

\* The keysyms that are looked for on the keyboard.
Pressable == {Remapped(sym) : sym \in UNION {Sent[c] : c \in Viewers}} \cup {"Shift_L"}

\* vncKeyboardEvent: "Release events must match the press event".  A key that is down
\* is released with the keysym it was pressed for.
ReleasesMatch == keyboard.down \subseteq Noted

\* No key of the X server is lost, and none is stuck but those that a keysym is typed
\* with by turns, as AvoidShiftNumLock has it for the numeric pad: the others that are
\* down are noted, each for a keysym of its own, and whoever could release them is
\* still there and has not done so.  Modifiers pressed or released for the moment of
\* another key leave nothing behind.
NothingStuck ==
  /\ Noted \subseteq keyboard.down
  /\ \A k \in keyboard.down \ Noted : TakesTurns(keyboard.map, Pressable, k)
  /\ \A k \in Noted : \E c \in Viewers : keyboard.held[k] \in conn[c].pressedKeys
  /\ \A j, k \in Noted : keyboard.held[j] = keyboard.held[k] => j = k

\* The next press of sym types it, or does what it should instead.
Types(kb, sym) ==
  \/ Typed(kb, sym) \in {sym, Alternative[sym]} \ {NoSymbol}
  \/ sym = "Tab" /\ "Shift" \in StateOf(kb) /\ Typed(kb, sym) = "ISO_Left_Tab"
  \/ \E k \in Keycodes : Action[k] = "Lock" /\ kb.map[k][{}] = sym

\* A keyboard on which the keys that are found for a keysym go on being found for it,
\* and the keys for modifiers do nothing else.
RegularKeyboard ==
  Regular(FirstMap, Pressable) /\ AlternativesCaseless(Pressable)

\* One on which each of them can be typed.
CompleteKeyboard == ShiftKeys # {} /\ Complete(FirstMap, Pressable)

\* Whatever keys the viewers hold, the next one to press a key gets the symbol it
\* asked for, or the one that stands for the same; a shifted Tab is the Tab key
\* with Shift.  Lock keys have no effect.
TypedAsSent ==
  \A c \in Viewers : \A sym \in Sent[c] :
     Types(WithShift(keyboard, NeedsShift(c, sym)), Remapped(sym))

\* Nobody else gets a button in, or the pointer, while a viewer holds a button,
\* and this one only while it has the right to.
DragIsOwn ==
  [][pointerClient # NoViewer
       => /\ pointerClient' \in {pointerClient, NoViewer}
          /\ buttonMask' # buttonMask => conn[pointerClient].input]_inputVars

\* The pointer is not kept from the others by a viewer that has gone.
PointerFreed ==
  \A c \in Viewers :
     pointerClient = c /\ conn[c].life = "closing" ~> pointerClient # c
=============================================================================
